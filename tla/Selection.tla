------------------------------ MODULE Selection ------------------------------
(* What a collected dataset gives the tabs that read it                      *)
(* (.github/extensions/actions-metrics: shared/dataset.mjs, shared/period.mjs*)
(* and the readings of a dataset in lib/dataset.mjs, lib/jobrows.mjs,        *)
(* lib/steprows.mjs and lib/stepattempts.mjs).                               *)
(*                                                                           *)
(* A collection lists runs and the rows of their jobs. A reading takes a     *)
(* period of it, a workflow, so many runs of each repository, and rows by    *)
(* their runners. The steps of the jobs are read from its file, once per     *)
(* selection: they are kept with a key. A pattern of runner names is the set *)
(* of names it matches, a label its spelling in lower case, and the name of  *)
(* a workflow the sequence of the segments of its path.                      *)
EXTENDS Nothing, Integers, FiniteSetsExt, SequencesExt

CONSTANTS
    ListedRuns,      \* the runs collections list
    Collections,     \* sequences of rows of jobs a first collection finds
    LateJobs,        \* rows a later collection may find
    MaxCollections,  \* bound: collections
    CollectedFrom, CollectedTo,  \* the period collected
    StepAsks,        \* settings of the Step timeline tab
    RowAsks,         \* filters of the explorer
    DefaultBudget, MaxBudget,    \* runs of a repository
    MinRows, MaxRowsHeld         \* rows the explorer may ask for

VARIABLES
    collection,  \* the collection in force
    stepCache,   \* the rows of steps kept, and their key
    reading      \* what was read last

selectionVars == <<collection, stepCache, reading>>

SelectionInit ==
    /\ \E jobs \in Collections, truncated \in BOOLEAN :
           collection = [id |-> 1, runs |-> ListedRuns, jobs |-> jobs, truncated |-> truncated]
    /\ stepCache = None /\ reading = None

RunKey(run) == <<run.repo, run.id>>
RunOf(row) == <<row.repo, row.run>>

(* filteredWindow, and datasetView: the runs created in the period, its end  *)
(* excluded, with all of their jobs, under an id that names the period.      *)
WithinCollected(period) ==
    period # None => period.from < period.to /\ CollectedFrom <= period.from /\ period.to <= CollectedTo

DatasetView(base, period) ==
    IF period = None THEN [base EXCEPT !.id = <<@>>]
    ELSE LET runs == {run \in base.runs : period.from <= run.created /\ run.created < period.to}
         IN  [base EXCEPT !.id = <<@, period.from, period.to>>, !.runs = runs,
                          !.jobs = SelectSeq(@, LAMBDA row : RunOf(row) \in {RunKey(run) : run \in runs})]

(* A workflow is named by its id, its path or the file at its end.           *)
MatchesWorkflow(run, workflow) ==
    workflow = <<>> \/ workflow \in {<<run.workflow>>, run.path, <<Last(run.path)>>}

(* filterAttemptRows.                                                        *)
KeepsRow(row, a) ==
    /\ a.kind \in {"all", IF row.kind = "" THEN "unknown" ELSE row.kind}
    /\ a.runner # None => row.runner \in a.runner
    /\ row.runner \notin a.exclude
    /\ a.labels \subseteq row.labels

(* selectDatasetJobs: the newest runs of each repository, up to the budget.  *)
NewestFirst(a, b) == a.created > b.created \/ (a.created = b.created /\ a.id > b.id)
SelectRuns(d, a) ==
    LET matching == {run \in d.runs : MatchesWorkflow(run, a.workflow)}
        Take(taken, run) ==
            IF a.budget > 0 /\ Cardinality({k \in taken.runs : k[1] = run.repo}) >= a.budget
            THEN [taken EXCEPT !.sampled = TRUE]
            ELSE [taken EXCEPT !.runs = @ \union {RunKey(run)}]
    IN  FoldLeft(Take, [runs |-> {}, sampled |-> FALSE], SetToSortSeq(matching, NewestFirst))
SelectJobs(d, a) ==
    LET taken == SelectRuns(d, a)
    IN  [jobs |-> SelectSeq(d.jobs, LAMBDA row : /\ RunOf(row) \in taken.runs
                                                 /\ a.latestOnly => row.latest
                                                 /\ KeepsRow(row, a)),
         runs |-> taken.runs, sampled |-> taken.sampled]

EveryRow == [workflow |-> <<>>, budget |-> 0, latestOnly |-> FALSE, kind |-> "all",
             runner |-> None, exclude |-> {}, labels |-> {}]

---------------------------------------------------------------------------
(* A refresh collects again: the rows it had and one more.                   *)
Recollect ==
    /\ collection.id < MaxCollections
    /\ \E row \in LateJobs \ Range(collection.jobs), truncated \in BOOLEAN :
           collection' = [collection EXCEPT !.id = @ + 1, !.jobs = Append(@, row), !.truncated = truncated]
    /\ UNCHANGED <<stepCache, reading>>

(* collectJobRows: the explorer's rows, as many as it is to hold.            *)
Clamped(n, least, most) == Max({least, Min({most, n})})
ReadRows(ask) ==
    /\ WithinCollected(ask.period)
    /\ LET d == DatasetView(collection, ask.period)
           jobs == SelectJobs(d, [EveryRow EXCEPT !.workflow = ask.workflow, !.labels = ask.labels]).jobs
           cap == Clamped(ask.rows, MinRows, MaxRowsHeld)
       IN  reading' = [kind |-> "rows", of |-> collection.id, ask |-> ask,
                       jobs |-> SubSeq(jobs, 1, Min({cap, Len(jobs)})),
                       truncated |-> d.truncated \/ Len(jobs) > cap]
    /\ UNCHANGED <<collection, stepCache>>

(* What collectStepMetrics asks of the selection: every attempt also for the *)
(* jobs that recovered, the file of the workflow, the default budget when    *)
(* the field is empty, and zero for no limit.                                *)
AllAttempts(ask) == ask.attempts \/ ask.recovered
WorkflowFile(workflow) == IF workflow = <<>> THEN <<>> ELSE <<Last(workflow)>>
RunBudget(budget) ==
    CASE budget = None -> DefaultBudget
      [] budget = 0 -> 0
      [] OTHER -> Clamped(budget, 1, MaxBudget)
StepSelection(ask) ==
    [workflow |-> WorkflowFile(ask.workflow), budget |-> RunBudget(ask.budget), latestOnly |-> ~AllAttempts(ask),
     kind |-> ask.kind, runner |-> ask.runner, exclude |-> ask.exclude, labels |-> ask.labels]

(* Mutant: the rows are kept for their settings alone.                       *)
KeyOfSettings(d, ask) == <<StepSelection(ask)>>

StepRowsKey(d, ask) == <<d.id, StepSelection(ask)>>

(* The file's steps, of the jobs selected: a job that ran nothing has none.  *)
StepsOf(jobs) == {job.id : job \in {j \in Range(jobs) : j.ran}}

(* The attempts before the last one of the runs sampled, and those of them   *)
(* the jobs are of.                                                          *)
EarlierAttempts(d, selection, all) ==
    LET sampled == {run \in d.runs : RunKey(run) \in selection.runs}
        earlier == {job \in Range(selection.jobs) :
                       \E run \in sampled : RunKey(run) = RunOf(job) /\ job.attempt < run.attempt}
    IN  IF all THEN [requested |-> MapThenSumSet(LAMBDA run : Max({0, run.attempt - 1}), sampled),
                     withJobs |-> Cardinality({<<RunOf(job), job.attempt>> : job \in earlier})]
        ELSE [requested |-> 0, withJobs |-> 0]

(* The Step timeline's rows: the selection is made anew, the steps are read  *)
(* unless those kept are to be reused and of the same key.                   *)
ReadSteps(ask, reuse) ==
    /\ WorkflowFile(ask.workflow) # <<>>
    /\ WithinCollected(ask.period)
    /\ LET d == DatasetView(collection, ask.period)
           selection == SelectJobs(d, StepSelection(ask))
           key == StepRowsKey(d, ask)
           reused == reuse /\ stepCache # None /\ stepCache.key = key
           steps == IF reused THEN stepCache.steps ELSE StepsOf(selection.jobs)
       IN  /\ stepCache' = [key |-> key, steps |-> steps]
           /\ reading' = [kind |-> "steps", of |-> collection.id, ask |-> ask, jobs |-> selection.jobs,
                          steps |-> steps, truncated |-> d.truncated \/ selection.sampled,
                          earlier |-> EarlierAttempts(d, selection, AllAttempts(ask))]
    /\ UNCHANGED collection

(* No workflow, a CLI without the commands, a period that was not collected, *)
(* or a file that cannot be read: what was kept is kept.                     *)
ReadsNothing == reading' = None /\ UNCHANGED <<collection, stepCache>>

SelectionNext ==
    \/ Recollect
    \/ \E ask \in RowAsks : ReadRows(ask)
    \/ \E ask \in StepAsks, reuse \in BOOLEAN : ReadSteps(ask, reuse)
    \/ ReadsNothing

---------------------------------------------------------------------------
(* SAFETY *)

(* A reading of the collection in force says what it is of. The jobs of a    *)
(* step reading are those of the newest runs of their repository and period  *)
(* - fewer than the budget are newer - and the steps are those of these      *)
(* jobs, whether they were read or kept (steprows.mjs:199-210); one that is  *)
(* not called truncated left no run of the workflow out; and no more earlier *)
(* attempts are found than were asked for. The rows of the explorer that are *)
(* not called truncated are all there are (jobrows.mjs:43-50).               *)
InPeriod(run) == reading.ask.period # None => run.created \in reading.ask.period.from .. reading.ask.period.to - 1
Sampled == {run \in collection.runs : InPeriod(run) /\ MatchesWorkflow(run, reading.ask.workflow)}
RunsOfReading == {RunOf(job) : job \in Range(reading.jobs)}

StepReadingIsExact ==
    LET budget == RunBudget(reading.ask.budget)
        wanted == {job \in Range(collection.jobs) : /\ RunOf(job) \in {RunKey(run) : run \in Sampled}
                                                    /\ AllAttempts(reading.ask) \/ job.latest
                                                    /\ KeepsRow(job, reading.ask)}
    IN  /\ reading.steps = StepsOf(reading.jobs)
        /\ Range(reading.jobs) \subseteq wanted
        /\ \A run \in Sampled : RunKey(run) \in RunsOfReading =>
               budget = 0 \/ Cardinality({r \in Sampled : r.repo = run.repo /\ r.created > run.created}) < budget
        /\ ~reading.truncated => ~collection.truncated /\ Range(reading.jobs) = wanted
        /\ reading.earlier.withJobs <= reading.earlier.requested

RowReadingIsExact ==
    ~reading.truncated =>
        /\ ~collection.truncated
        /\ \A job \in Range(collection.jobs) :
               RunOf(job) \in {RunKey(run) : run \in Sampled} /\ reading.ask.labels \subseteq job.labels
                   => job \in Range(reading.jobs)

(* The latest reading is exact, if no collection has come since.            *)
SelectionIsExact ==
    reading # None /\ reading.of = collection.id =>
        IF reading.kind = "steps" THEN StepReadingIsExact ELSE RowReadingIsExact
=============================================================================
