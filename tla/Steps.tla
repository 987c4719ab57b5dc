------------------------------- MODULE Steps -------------------------------
(* What the Step timeline tab reads from the rows of jobs and of steps:      *)
(* which rows pass its filters, the statistics of every step, the pools of   *)
(* runners, the runs it lists and the jobs a listed run opens on             *)
(* (shared/steps.mjs).                                                       *)
(*                                                                           *)
(* A row of a job carries the rows of its steps. Instants are integers and a *)
(* missing value is None; texts compare as the code compares them. No two    *)
(* rows are of the same id, so that rows are counted as a set.               *)
EXTENDS Nothing, Integers, Sequences, FiniteSetsExt, Functions

CONSTANTS
    JobRows,     \* rows of jobs the CLI may print
    MaxJobRows,  \* bound: rows collected
    Asks,        \* what the controls of the tab may be set to, apart from the runner
    LowerCase,   \* labels that are not in lower case -> their lower case
    SavedPicks,  \* runner filters an earlier version saved
    Patterns,    \* names with a `*` -> the names they match
    MaxPicks,    \* bound: values picked before a click
    ListCap      \* runs the list holds

(* The runner filter that takes every row (normalizeRunnerFilter).           *)
NoPick == [kind |-> "all", labels |-> <<>>, group |-> "", name |-> "", exact |-> FALSE,
           kinds |-> {}, labelSets |-> {}, groups |-> {}, names |-> {}]

(* No two rows are of one id, which GitHub gives to a job of an attempt, and *)
(* the steps of a job are told apart by their occurrence; the CLI names a    *)
(* runner it cannot classify (aggregate.go:20). Patterns have a `*`.         *)
ASSUME StepsAssumption ==
    /\ \A r \in JobRows :
          /\ r.kind \in {"hosted", "self-hosted", "unknown"} /\ r.attempt \in Nat
          /\ IsFiniteSet(r.steps)
          /\ \A o \in JobRows : r.id = o.id => r = o
          /\ \A x, y \in r.steps : x.name = y.name /\ x.occurrence = y.occurrence => x = y
    /\ "" \notin DOMAIN Patterns /\ \A saved \in SavedPicks : DOMAIN saved = DOMAIN NoPick
    /\ None \notin Nat /\ None \notin {"success", "neutral", "skipped"}

VARIABLES
    jobRows,     \* the rows collected, in the order they were printed
    ask,         \* repository, job, status, conditions, all attempts, matrix, infra
    pick         \* the runner filter

stepsVars == <<jobRows, ask, pick>>

Failures == {"failure", "timed_out", "startup_failure"}
Decided == Failures \union {"success"}
Infrastructure == {"Set up job", "Complete job", "Post checkout"}
NoAsk == [repo |-> "", job |-> None, status |-> "", conditions |-> {}, all |-> FALSE, matrix |-> TRUE, infra |-> TRUE]

---------------------------------------------------------------------------
(* The runner filter. A saved one has one value per field; the pickers keep  *)
(* a list per field beside it.                                               *)
LabelSetKey(labels) == {IF l \in DOMAIN LowerCase THEN LowerCase[l] ELSE l : l \in Range(labels)}
PickFields == {"kinds", "labelSets", "groups", "names"}

IsPattern(f) == f.name \in DOMAIN Patterns /\ ~f.exact

NormalizeRunnerFilter(f) ==
    [f EXCEPT !.kind = IF @ \in {"self-hosted", "github-hosted"} THEN @ ELSE "all",
              !.kinds = @ \intersect {"hosted", "self-hosted", "unknown"},
              !.labelSets = @ \ {<<>>}, !.groups = @ \ {""}, !.names = @ \ {""},
              !.exact = @ /\ f.name # ""]

(* The label sets are told apart by their key; the last spelling of one stays. *)
RunnerFilterSelections(input) ==
    LET f == NormalizeRunnerFilter(input)
    IN  [kinds |-> f.kinds \union CASE f.kind = "self-hosted" -> {"self-hosted", "unknown"}
                                    [] f.kind = "github-hosted" -> {"hosted"} [] OTHER -> {},
         labelSets |-> IF f.labels = <<>> THEN f.labelSets
                       ELSE {l \in f.labelSets : LabelSetKey(l) # LabelSetKey(f.labels)} \union {f.labels},
         groups |-> f.groups \union ({f.group} \ {""}),
         names |-> f.names \union IF IsPattern(f) THEN {} ELSE {f.name} \ {""}]

Identity(field, v) == IF field = "labelSets" THEN LabelSetKey(v) ELSE v

(* Mutant: what was saved for the field stays beside the list *)
KeepLegacy(f, field) == f

(* The saved value of a field gives way to the list; a pattern stays.        *)
WithoutLegacy(f, field) ==
    CASE field = "kinds" -> [f EXCEPT !.kind = "all"]
      [] field = "labelSets" -> [f EXCEPT !.labels = <<>>]
      [] field = "groups" -> [f EXCEPT !.group = ""]
      [] OTHER -> IF IsPattern(f) THEN f ELSE [f EXCEPT !.name = "", !.exact = FALSE]

ToggleRunnerFilterValue(input, field, v) ==
    LET f == NormalizeRunnerFilter(input)
        values == RunnerFilterSelections(f)[field]
        same == {x \in values : Identity(field, x) = Identity(field, v)}
        next == IF same # {} THEN values \ same ELSE values \union {v}
    IN  NormalizeRunnerFilter([WithoutLegacy(f, field) EXCEPT ![field] = next])

MatchRunner(row, input) ==
    LET f == NormalizeRunnerFilter(input)
        selected == RunnerFilterSelections(f)
        keys == {LabelSetKey(l) : l \in selected.labelSets}
    IN  /\ selected.kinds # {} => (IF row.kind = "" THEN "unknown" ELSE row.kind) \in selected.kinds
        /\ keys # {} => LabelSetKey(row.labels) \in keys
        /\ selected.groups # {} => row.group \in selected.groups
        /\ selected.names # {} \/ IsPattern(f) =>
               row.runner \in selected.names \union IF IsPattern(f) THEN Patterns[f.name] ELSE {}

---------------------------------------------------------------------------
(* Rows of jobs. A span is known only when both of its ends are.             *)
Between(a, b) == IF a = None \/ b = None THEN None ELSE Max({0, b - a})
Failed(row) == row.conclusion \in Failures
Name(row) == <<row.base, row.variant>>

(* The row of a step repeats what is known of its job.                       *)
StepRow(row, step) == [job |-> row, step |-> step]

(* The names of one matrix: a base with at least two variants.               *)
MatrixMergeMap(rows) ==
    {r \in rows : r.variant # None
        /\ \E o \in rows : o.repo = r.repo /\ o.base = r.base /\ o.variant \notin {None, r.variant}}

Group(rows, row, matrix) ==
    IF matrix /\ \E m \in MatrixMergeMap(rows) : m.repo = row.repo /\ Name(m) = Name(row)
    THEN <<row.base, None>> ELSE Name(row)

MatchJobStatus(row, status) == status \in {"", row.status, row.conclusion}

(* The outcomes of the steps of a job attempt, and the attempt itself.       *)
Outcomes(row) == {[name |-> s.name, occurrence |-> s.occurrence, conclusion |-> s.conclusion] : s \in row.steps}
JobRowKey(row) == <<row.repo, row.run, row.attempt, row.id>>

(* Mutant: the outcomes of every attempt of a job are taken together *)
MatchedAcrossAttempts(rows, conditions) ==
    {JobRowKey(r) : r \in {r \in rows :
        conditions \subseteq UNION {Outcomes(o) : o \in {o \in rows : o.run = r.run /\ Name(o) = Name(r)}}}}

MatchingStepConditionJobs(rows, conditions) ==
    {JobRowKey(r) : r \in {r \in rows : conditions \subseteq Outcomes(r)}}

(* A job that failed and was run again with success, told from the attempts  *)
(* of one exact name in one run.                                             *)
JobHistoryKey(row) == <<row.repo, row.run, Name(row)>>

Put(records, key, record) == [k \in DOMAIN records \union {key} |-> IF k = key THEN record ELSE records[k]]
NoRecords == [k \in {} |-> None]

Ambiguous(previous, row) == previous.id # row.id \/ previous.conclusion # row.conclusion

FirstAttempt(row) == [latest |-> row, firstFailure |-> None, attempts |-> NoRecords, ambiguous |-> FALSE]

WithAttempt(h, row) ==
    [latest |-> IF row.attempt > h.latest.attempt THEN row ELSE h.latest,
     firstFailure |-> IF Failed(row) /\ (h.firstFailure = None \/ row.attempt < h.firstFailure)
                      THEN row.attempt ELSE h.firstFailure,
     attempts |-> Put(h.attempts, row.attempt, row),
     ambiguous |-> \/ h.ambiguous
                   \/ row.attempt \in DOMAIN h.attempts /\ Ambiguous(h.attempts[row.attempt], row)]

HasRecovered(h) ==
    /\ h.firstFailure # None /\ h.firstFailure < h.latest.attempt
    /\ ~h.ambiguous /\ h.latest.latest /\ h.latest.conclusion = "success"

(* A history per key, over the rows in the order they were printed.          *)
AddAttempt(hs, row) ==
    LET key == JobHistoryKey(row)
    IN  Put(hs, key, WithAttempt(IF key \in DOMAIN hs THEN hs[key] ELSE FirstAttempt(row), row))

Histories(rows) ==
    LET hs[i \in 0 .. Len(jobRows)] ==
            IF i = 0 THEN NoRecords ELSE IF jobRows[i] \in rows THEN AddAttempt(hs[i - 1], jobRows[i]) ELSE hs[i - 1]
    IN  hs[Len(jobRows)]

RecoveredJobHistories(rows) == {key \in DOMAIN Histories(rows) : HasRecovered(Histories(rows)[key])}

---------------------------------------------------------------------------
(* aggregateSteps(): the rows of the repository, those of them the status    *)
(* and the conditions leave, and those the runner filter leaves.             *)
Recovered == ask.status = "rerun_success"
AllAttempts == ask.all \/ Recovered
RepoRows == {r \in Range(jobRows) : ask.repo \in {"", r.repo}}

StatusRows ==
    LET met == MatchingStepConditionJobs(RepoRows, ask.conditions)
        recovered == IF Recovered THEN RecoveredJobHistories(RepoRows) ELSE {}
    IN  {r \in RepoRows : /\ ask.conditions # {} => JobRowKey(r) \in met
                          /\ IF Recovered THEN JobHistoryKey(r) \in recovered ELSE MatchJobStatus(r, ask.status)}
RecoveredNames(row) == {Name(r) : r \in {r \in StatusRows : r.repo = row.repo /\ r.run = row.run}}
Kept == {r \in StatusRows : MatchRunner(r, pick)}
GroupOf(row) == Group(RepoRows, row, ask.matrix)
OfJob(row) == ask.job = None \/ GroupOf(row) = ask.job

(* The rows of steps are taken from the rows of the repository on their own. *)
RowsOfSteps ==
    LET matching == {JobRowKey(r) : r \in StatusRows}
        passing == {r \in RepoRows : /\ MatchRunner(r, pick)
                                     /\ ask.status # "" \/ ask.conditions # {} => JobRowKey(r) \in matching}
    IN  UNION {{StepRow(r, s) : s \in r.steps} : r \in passing}

ExecutedJobIds == {x.job.id : x \in RowsOfSteps}

(* One record per step of a group of jobs. A job row counts once.            *)
StepStats ==
    LET shown == {x \in RowsOfSteps : (ask.infra \/ x.step.name \notin Infrastructure) /\ OfJob(x.job)}
        KeyOf(x) == <<x.job.repo, GroupOf(x.job), x.step.name, x.step.occurrence>>
        JobCount(k) == Cardinality({r \in Kept : r.repo = k[1] /\ GroupOf(r) = k[2] /\ r.id \in ExecutedJobIds})
        Stat(k, of) ==
            LET executed == {x \in of : x.step.conclusion # "skipped" /\ x.step.started # None}
                skipped == Cardinality({x \in of : x.step.conclusion = "skipped"})
            IN  [jobs |-> Max({JobCount(k), Cardinality(executed) + skipped}),
                 skipped |-> skipped, executed |-> Cardinality(executed),
                 failed |-> Cardinality({x \in executed : x.step.conclusion \in Failures}),
                 samples |-> Cardinality({x \in executed : x.step.completed # None})]
    IN  [k \in {KeyOf(x) : x \in shown} |-> Stat(k, {x \in shown : KeyOf(x) = k})]

(* The typical timeline samples the times of a job once, whatever its steps. *)
TypicalOffsets ==
    LET timed == {x.job : x \in {x \in RowsOfSteps : x.job.runStarted # None /\ OfJob(x.job)
                                                     /\ (ask.infra \/ x.step.name \notin Infrastructure)}}
    IN  [g \in {GroupOf(r) : r \in timed} |-> Cardinality({r.id : r \in {r \in timed : GroupOf(r) = g}})]

(* The card of runners under a filter: a line per set of labels, and one     *)
(* under it per runner that GitHub does not host.                            *)
Pools(filter) ==
    LET rows == {r \in StatusRows : MatchRunner(r, filter) /\ OfJob(r)}
        Of(key) == {r \in rows : LabelSetKey(r.labels) = key}
        Statistics(of) ==
            [jobs |-> Cardinality(of), decided |-> Cardinality({r \in of : r.conclusion \in Decided}),
             failed |-> Cardinality({r \in of : Failed(r)}),
             waits |-> Cardinality({r \in of : Between(r.queued, r.started) # None}),
             durations |-> Cardinality({r \in of : Between(r.started, r.completed) # None})]
        Individuals(of) == {r \in of : r.kind # "hosted"}
    IN  [key \in {LabelSetKey(r.labels) : r \in rows} |->
            [all |-> Statistics(Of(key)),
             individuals |-> [n \in {r.runner : r \in Individuals(Of(key))} |->
                                 Statistics({r \in Individuals(Of(key)) : r.runner = n})]]]

(* What the pickers offer, with the rows of each. Only the label sets offer  *)
(* an empty value, under the first spelling met.                             *)
RunnerFacets ==
    LET Times(field, v) == Cardinality({r \in RepoRows : r[field] = v})
        Offered(field) == {[value |-> v, count |-> Times(field, v)] : v \in {r[field] : r \in RepoRows} \ {""}}
        Of(key) == {i \in DOMAIN jobRows : jobRows[i] \in RepoRows /\ LabelSetKey(jobRows[i].labels) = key}
    IN  [kinds |-> Offered("kind"), groups |-> Offered("group"), names |-> Offered("runner"),
         labelSets |-> {[value |-> jobRows[Min(Of(key))].labels, count |-> Cardinality(Of(key))] :
                           key \in {LabelSetKey(r.labels) : r \in RepoRows}}]

(* How often each outcome of a step, and each status of a job, occurs.       *)
StepConditionFacets ==
    [c \in {o \in UNION {Outcomes(r) : r \in RepoRows} : o.conclusion # None} |->
        Cardinality({JobRowKey(r) : r \in {r \in RepoRows : c \in Outcomes(r)}})]
JobStatusFacets ==
    [v \in (UNION {{r.status, r.conclusion} : r \in RepoRows}) \ {None, ""} |->
        Cardinality({r \in RepoRows : v \in {r.status, r.conclusion}})]

---------------------------------------------------------------------------
(* The list of runs: one conclusion per run, the attempts apart when every   *)
(* attempt was asked for or a condition is set.                              *)
Ranks == <<"failure", "timed_out", "startup_failure", "cancelled", "action_required", "stale", None, "success", "neutral", "skipped">>
(* Mutant: the job read last decides *)
LastRead(candidate, current) == TRUE

(* It comes first; what is not listed comes last.                            *)
Outranks(candidate, current) ==
    \E i \in DOMAIN Ranks : Ranks[i] = candidate /\ current \notin {Ranks[j] : j \in 1 .. i}

RunKey(row) ==
    <<row.repo, row.run, IF ask.job = None THEN None ELSE GroupOf(row),
      IF AllAttempts \/ ask.conditions # {} THEN row.attempt ELSE None>>

FirstOfRun(row) ==
    [repo |-> row.repo, run |-> row.run, attempt |-> row.attempt, job |-> GroupOf(row),
     conclusion |-> row.conclusion, recovered |-> IF Recovered THEN RecoveredNames(row) ELSE {}]

WithJob(run, row) ==
    [repo |-> run.repo, run |-> run.run, job |-> run.job, recovered |-> run.recovered,
     attempt |-> IF row.attempt > run.attempt THEN row.attempt ELSE run.attempt,
     conclusion |-> IF Outranks(row.conclusion, run.conclusion) THEN row.conclusion ELSE run.conclusion]

AddJob(list, row) ==
    LET key == RunKey(row)
    IN  Put(list, key, WithJob(IF key \in DOMAIN list THEN list[key] ELSE FirstOfRun(row), row))

RunsOf(rows) ==
    LET list[i \in 0 .. Len(jobRows)] ==
            IF i = 0 THEN NoRecords ELSE IF jobRows[i] \in rows THEN AddJob(list[i - 1], jobRows[i]) ELSE list[i - 1]
    IN  list[Len(jobRows)]

(* The newest of them. No two are of the same run and attempt.               *)
RunList ==
    LET runs == {r \in Range(RunsOf(Kept)) : ask.job = None \/ r.job = ask.job}
        Newer(a, b) == a.run > b.run \/ (a.run = b.run /\ a.attempt > b.attempt)
    IN  {r \in runs : Cardinality({o \in runs : Newer(o, r)}) < ListCap}

(* The jobs shown of the timeline of one attempt of a run.                   *)
FilterTimelineJobs(repo, run, timeline) ==
    LET names == UNION {r.recovered : r \in {r \in RunList : r.repo = repo /\ r.run = run}}
        ofStatus == IF Recovered THEN {j \in timeline : Name(j) \in names}
                    ELSE {j \in timeline : MatchJobStatus(j, ask.status)}
    IN  IF ask.repo \notin {"", repo} THEN {} ELSE {j \in ofStatus : ask.conditions \subseteq Outcomes(j)}

---------------------------------------------------------------------------
StepsInit == jobRows = <<>> /\ ask = NoAsk /\ pick = NoPick

PrintRow(row) ==
    /\ Len(jobRows) < MaxJobRows /\ row \notin Range(jobRows)
    /\ jobRows' = Append(jobRows, row) /\ UNCHANGED <<ask, pick>>

AskFor(a) ==
    /\ ask' = [f \in DOMAIN NoAsk |-> IF f \in DOMAIN a THEN a[f] ELSE NoAsk[f]]
    /\ UNCHANGED <<jobRows, pick>>

(* A click in a picker of the controls or on a row of the runners card.      *)
ToggleRunnerFacet ==
    /\ Cardinality(UNION {pick.kinds, pick.groups, pick.names}) + Cardinality(pick.labelSets) < MaxPicks
    /\ \E field \in PickFields : \E option \in RunnerFacets[field] :
        pick' = ToggleRunnerFilterValue(pick, field, option.value) /\ UNCHANGED <<jobRows, ask>>

(* Settings of an earlier version of the extension, read from the disk.      *)
RestoreRunnerFilter(saved) ==
    /\ jobRows = <<>>
    /\ pick' = NormalizeRunnerFilter(saved) /\ UNCHANGED <<jobRows, ask>>

StepsNext ==
    \/ \E row \in JobRows : PrintRow(row)
    \/ \E a \in Asks : AskFor(a)
    \/ ToggleRunnerFacet
    \/ \E saved \in SavedPicks : RestoreRunnerFilter(saved)

StepsSpec == StepsInit /\ [][StepsNext]_stepsVars

---------------------------------------------------------------------------
(* Invariant: a run of the list, opened at the attempt the list gives, shows *)
(* a job. The list and the timeline filter on their own, from other rows,    *)
(* and no attempt may lend its steps to another (stepConditionFacets,        *)
(* filterTimelineJobs).                                                      *)
ListedRunsOpenOnAJob ==
    \A r \in RunList :
        FilterTimelineJobs(r.repo, r.run, {j \in Range(jobRows) : j.repo = r.repo /\ j.run = r.run /\ j.attempt = r.attempt}) # {}

(* In whatever order its jobs were printed, a run is a failure if one of     *)
(* them is, and is not a success while one is not over; and the jobs         *)
(* that succeeded on a re-run are those whose rows agree on every attempt,   *)
(* failed in one before the last, and succeeded in the last.                 *)
RunsAreJudgedByAllTheirJobs ==
    /\ \A r \in RunList :
          LET judged == {j \in Kept : /\ j.repo = r.repo /\ j.run = r.run
                                      /\ ask.job # None => GroupOf(j) = r.job
                                      /\ AllAttempts \/ ask.conditions # {} => j.attempt = r.attempt}
              conclusions == {j.conclusion : j \in judged}
          IN  /\ conclusions \intersect Failures # {} => r.conclusion \in Failures
              /\ None \in conclusions => r.conclusion \notin {"success", "skipped"}
              /\ r.conclusion = "success" => conclusions \intersect Range(Ranks) \subseteq {"success", "neutral", "skipped"}
    /\ Recovered =>
          LET Of(key) == {r \in RepoRows : JobHistoryKey(r) = key}
              Newest(of) == {r \in of : \A o \in of : o.attempt <= r.attempt}
          IN  RecoveredJobHistories(RepoRows) =
                {key \in {JobHistoryKey(r) : r \in RepoRows} :
                    /\ \A r \in Newest(Of(key)) : r.latest /\ r.conclusion = "success"
                    /\ \E r \in Of(key) \ Newest(Of(key)) : Failed(r)
                    /\ \A r, o \in Of(key) : r.attempt = o.attempt => r.id = o.id /\ r.conclusion = o.conclusion}

CountedOverTheirJobs(stats, offsets, kept) ==
    LET ran(g) == {r \in kept : GroupOf(r) = g /\ r.steps # {}}
    IN  /\ \A k \in DOMAIN stats :
              /\ stats[k].jobs = Cardinality({r \in ran(k[2]) : r.repo = k[1]})
              /\ stats[k].executed + stats[k].skipped <= stats[k].jobs
        /\ \A g \in DOMAIN offsets : offsets[g] <= Cardinality(ran(g))

(* A step is counted over the jobs that ran at least one step, and over no   *)
(* fewer than had it; no job is timed twice.                                 *)
StepsAreCountedOverTheirJobs == CountedOverTheirJobs(StepStats, TypicalOffsets, Kept)

(* A click turns one option of one picker and leaves the others, whatever    *)
(* an earlier version had saved; and an option picked alone leaves           *)
(* as many rows as it was offered with. A set without labels cannot be       *)
(* picked (normalizeRunnerFilter).                                           *)
PicksTurnOneOption ==
    \A field \in PickFields : \A option \in {o \in RunnerFacets[field] : field = "labelSets" => o.value # <<>>} :
        LET before == RunnerFilterSelections(pick)
            after == RunnerFilterSelections(ToggleRunnerFilterValue(pick, field, option.value))
            Picked(selections, f) == {Identity(f, v) : v \in selections[f]}
            this == Identity(field, option.value)
        IN  /\ \A f \in PickFields \ {field} : Picked(after, f) = Picked(before, f)
            /\ Picked(after, field) = IF this \in Picked(before, field) THEN Picked(before, field) \ {this}
                                      ELSE Picked(before, field) \union {this}
            /\ Cardinality({r \in RepoRows : MatchRunner(r, ToggleRunnerFilterValue(NoPick, field, option.value))}) = option.count

(* An outcome or a status asked for leaves as many jobs as it was offered    *)
(* with, also where the status of a job is that of its conclusion.           *)
OffersAreExact ==
    /\ \A c \in DOMAIN StepConditionFacets : Cardinality(MatchingStepConditionJobs(RepoRows, {c})) = StepConditionFacets[c]
    /\ \A v \in DOMAIN JobStatusFacets : Cardinality({r \in RepoRows : MatchJobStatus(r, v)}) = JobStatusFacets[v]

(* A click on a line of the runners card, while no other is picked, leaves   *)
(* that line with its statistics and its runners, and no other, whatever     *)
(* else is picked or was saved (runnersCard of public/steps.js).             *)
PoolsNarrowToTheirLine ==
    RunnerFilterSelections(pick).labelSets = {} =>
        \A r \in {r \in Kept : OfJob(r) /\ r.labels # <<>>} :
            LET key == LabelSetKey(r.labels)
            IN  Pools(ToggleRunnerFilterValue(pick, "labelSets", r.labels)) = [k \in {key} |-> Pools(pick)[k]]

(* Invariant: every option offered does what it says.                        *)
OptionsDoWhatTheySay == PicksTurnOneOption /\ OffersAreExact /\ PoolsNarrowToTheirLine

(* Invariant: what is said of runs and of steps is said of all their jobs.   *)
StatisticsAreOfTheirJobs == RunsAreJudgedByAllTheirJobs /\ StepsAreCountedOverTheirJobs
=============================================================================
