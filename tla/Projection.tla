----------------------------- MODULE Projection -----------------------------
(* The concurrency of chosen runners, rebuilt from the rows of their jobs    *)
(* (.github/extensions/actions-metrics: collectRunnerTimeline of             *)
(* lib/jobs.mjs on the shared dataset; the peaks are PeakPerBucket of        *)
(* Explore).                                                                 *)
(*                                                                           *)
(* Time counts the seconds the API records. The buckets are those of the     *)
(* concurrency report, as they came. Jobs whose runner has no name share one *)
(* row, and names are ranked in the order of RunnerNames.                    *)
EXTENDS Selection

CONSTANTS
    ProjectionAsks,  \* settings of a projection
    RunnerNames,     \* the names of runners, in order; "" is no name
    MinProjected, MaxProjected   \* rows a projection may read

VARIABLE projection

projectionVars == <<projection>>

ProjectionInit == projection = None

(* The field overrides the filter, and "*" drops it (resolveWorkflow).       *)
ResolveWorkflow(inherited, field) ==
    CASE field = <<>> -> inherited [] field = <<"*">> -> <<>> [] OTHER -> field

(* The buckets with both of their ends, in order.                            *)
AxisOf(buckets) ==
    SortSeq(SelectSeq(buckets, LAMBDA b : b.start # None /\ b.end # None /\ b.end > b.start),
            LAMBDA a, b : a.start < b.start)

(* distribute(), distributedTotal(): a span over the buckets it covers.      *)
Covered(span, bucket) == Max({0, Min({span.end, bucket.end}) - Max({span.start, bucket.start})})
Distribute(cells, axis, span) == [i \in DOMAIN cells |-> cells[i] + Covered(span, axis[i])]
NoCells(axis) == [i \in DOMAIN axis |-> 0]
DistributeAll(axis, spans) == FoldLeft(LAMBDA cells, span : Distribute(cells, axis, span), NoCells(axis), spans)
SumOfCells(cells) == FoldLeft(+, 0, cells)

(* consume(): one row of a job. It is excluded, has no interval the row can  *)
(* tell, is outside the window, or is clipped to it.                         *)
Consume(acc, job, axis, local) ==
    LET first == axis[1].start
        last == axis[Len(axis)].end
        span == [start |-> Max({job.from, first}), end |-> Min({job.to, last}), owner |-> job.runner]
        Counts(what) == [acc EXCEPT !.rows = @ + 1, ![what] = @ + 1]
    IN  IF job.runner \in local THEN Counts("excluded")
        ELSE IF None \in {job.from, job.to} THEN Counts("unfinished")
        ELSE IF job.to = job.from THEN Counts("zero")
        ELSE IF job.to < job.from THEN Counts("negative")
        ELSE IF span.end <= span.start THEN Counts("outside")
        ELSE [acc EXCEPT !.rows = @ + 1, !.spans = Append(@, span)]

SpansOf(spans, owner) == SelectSeq(spans, LAMBDA s : s.owner = owner)

(* The spans of a runner in order of their start; those that overlap or      *)
(* touch become one.                                                         *)
MergeOverlaps(spans) ==
    FoldLeft(LAMBDA merged, s :
                 IF merged # <<>> /\ s.start <= Last(merged).end
                 THEN [merged EXCEPT ![Len(merged)].end = Max({@, s.end})] ELSE Append(merged, s),
             <<>>, SortSeq(spans, LAMBDA a, b : a.start < b.start))

(* mergeRunnerBusy(), buildRunnerRows(): the jobs of no runner in particular *)
(* are not merged.                                                           *)
Occupied(spans, owner) == IF owner = "" THEN SpansOf(spans, owner) ELSE MergeOverlaps(SpansOf(spans, owner))

(* The runners of the window, the busiest first.                             *)
Ranked(axis, spans) ==
    LET Aggregate(owner) ==
            [runner |-> owner, jobs |-> Len(SpansOf(spans, owner)),
             jobTime |-> SumOfCells(DistributeAll(axis, SpansOf(spans, owner))),
             busyTime |-> SumOfCells(DistributeAll(axis, Occupied(spans, owner)))]
        Busier(a, b) == a.jobTime > b.jobTime \/ (a.jobTime = b.jobTime /\ a.jobs > b.jobs)
        seen == SelectSeq(RunnerNames, LAMBDA name : SpansOf(spans, name) # <<>>)
    IN  SortSeq([i \in DOMAIN seen |-> Aggregate(seen[i])],
                LAMBDA a, b : \/ Busier(a, b)
                              \/ /\ ~Busier(b, a)
                                 /\ \E i, j \in DOMAIN seen : i < j /\ seen[i] = a.runner /\ seen[j] = b.runner)

(* collectRunnerTimeline. Where the CLI cannot exclude runners the rows of   *)
(* those are to be dropped here.                                             *)
Projected(ask, jobs, truncated) ==
    LET axis == AxisOf(ask.buckets)
        cap == Clamped(ask.rows, MinProjected, MaxProjected)
        read == SubSeq(jobs, 1, Min({cap, Len(jobs)}))
        local == IF ask.inCli THEN {} ELSE ask.exclude
        none == [rows |-> 0, excluded |-> 0, unfinished |-> 0, zero |-> 0, negative |-> 0, outside |-> 0, spans |-> <<>>]
        acc == FoldLeft(LAMBDA a, job : Consume(a, job, axis, local), none, read)
        ranked == Ranked(axis, acc.spans)
        drawn == SubSeq(ranked, 1, Min({ask.top, Len(ranked)}))
        busy == DistributeAll(axis, acc.spans)
        claimed == DistributeAll(axis, SelectSeq(acc.spans, LAMBDA s : \E r \in Range(drawn) : r.runner = s.owner))
    IN  [axis |-> axis, jobs |-> read, counts |-> acc, busy |-> busy, ranked |-> ranked,
         active |-> [i \in DOMAIN axis |-> Cardinality({k \in DOMAIN acc.spans : Covered(acc.spans[k], axis[i]) > 0})],
         drawn |-> [k \in DOMAIN drawn |-> [runner |-> drawn[k].runner,
                                            cells |-> DistributeAll(axis, Occupied(acc.spans, drawn[k].runner))]],
         remainder |-> [i \in DOMAIN axis |-> Max({0, busy[i] - claimed[i]})],
         truncated |-> truncated \/ Len(jobs) > cap]

Project(ask) ==
    LET d == DatasetView(collection, ask.period)
        selected == SelectJobs(d, [EveryRow EXCEPT !.workflow = ResolveWorkflow(ask.inherited, ask.workflow),
                                       !.kind = ask.kind, !.runner = ask.runner,
                                       !.exclude = ask.exclude, !.labels = ask.labels])
    IN  /\ WithinCollected(ask.period) /\ AxisOf(ask.buckets) # <<>>
        /\ projection' = [ask |-> ask, of |-> collection.id,
                          result |-> Projected(ask, selected.jobs, d.truncated)]

(* There is no bucket, or the period was not collected: it throws.           *)
Unprojected(ask) ==
    /\ ~WithinCollected(ask.period) \/ AxisOf(ask.buckets) = <<>>
    /\ projection' = None

ProjectionNext == \E ask \in ProjectionAsks : Project(ask) \/ Unprojected(ask)

---------------------------------------------------------------------------
(* SAFETY *)

Instants(bucket) == bucket.start .. bucket.end - 1
Lasts(job, t) == None \notin {job.from, job.to} /\ job.from <= t /\ t < job.to

(* A projection counted instant by instant. A runner is busy in the instants *)
(* of the axis one of its jobs covers, however these overlap, touch or       *)
(* nest, and the cells of a bucket add up to it; jobs without a runner add   *)
(* up; what is drawn and the remainder account for all job time of every     *)
(* bucket; every row read is in one of the counters; and no runner drawn is  *)
(* outdone by one that is not (jobs.mjs:283-440).                            *)
ProjectionIsExact ==
    projection # None =>
        LET p == projection.result
            In(i, owner) == {t \in Instants(p.axis[i]) : \E job \in Range(p.jobs) : job.runner = owner /\ Lasts(job, t)}
            Time(i, owners) ==
                Cardinality({<<k, t>> \in (DOMAIN p.jobs) \X Instants(p.axis[i]) :
                                p.jobs[k].runner \in owners /\ Lasts(p.jobs[k], t)})
            Cell(i, owner) == IF owner = "" THEN Time(i, {""}) ELSE Cardinality(In(i, owner))
            shown == {r.runner : r \in Range(p.drawn)}
            all == Range(RunnerNames)
            c == p.counts
        IN  /\ \A r \in Range(p.drawn) : r.cells = [i \in DOMAIN p.axis |-> Cell(i, r.runner)]
            /\ \A r \in Range(p.ranked) :
                   /\ r.busyTime = SumOfCells([i \in DOMAIN p.axis |-> Cell(i, r.runner)])
                   /\ r.runner \in shown \/ \A q \in Range(p.ranked) : q.runner \in shown => q.jobTime >= r.jobTime
            /\ \A i \in DOMAIN p.axis :
                   /\ p.busy[i] = Time(i, all)
                   /\ p.remainder[i] = Time(i, all \ shown)
                   /\ p.active[i] = Cardinality({k \in DOMAIN p.jobs : \E t \in Instants(p.axis[i]) : Lasts(p.jobs[k], t)})
            /\ Len(p.jobs) = c.excluded + c.unfinished + c.zero + c.negative + c.outside + Len(c.spans)
            /\ Range(p.jobs) \subseteq Range(collection.jobs)
            /\ ~p.truncated => \A job \in Range(collection.jobs) :
                   /\ KeepsRow(job, projection.ask)
                   /\ projection.ask.period = None
                   /\ ResolveWorkflow(projection.ask.inherited, projection.ask.workflow) = <<>>
                   => job \in Range(p.jobs)

(* Invariant: what is read of a dataset, and what is made of it.             *)
ReadingsAreExact == SelectionIsExact /\ ProjectionIsExact
=============================================================================
