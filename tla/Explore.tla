------------------------------ MODULE Explore ------------------------------
(* What the Explorer tab computes from the rows of jobs it holds: which rows *)
(* pass the filters, what each facet offers, the peak of concurrency and the *)
(* busy time of runners per bucket, and the bucket a workflow run falls in   *)
(* (shared/rows.mjs, shared/explore.mjs, shared/intervals.mjs).              *)
(*                                                                           *)
(* Instants are integers and an interval is half-open, so that a span covers *)
(* as many instants as it is long. A missing time is None.                   *)
EXTENDS Nothing, Integers, SequencesExt

CONSTANTS
    Raws,        \* rows as the CLI prints them
    MaxRaws,     \* bound: rows collected
    Narrowings,  \* the filters a reader may set
    Dims,        \* the dimensions facets are offered for
    WindowFrom, WindowTo, CollectedAt,
    Width,       \* of a bucket of the charts (chooseBucketMs)
    TopRunners,  \* rows the heatmap draws
    FacetCap,    \* options a picker lists
    HourLength,
    Clocks       \* local clocks: [shift, at], moved by `shift` at the instant `at`

VARIABLES
    raws,        \* the rows collected, as they were read
    filters      \* of the explorer: a set per dimension, a text and a range

exploreVars == <<raws, filters>>

Or(a, b) == IF a = None THEN b ELSE a
NoFilters == [d \in Dims |-> {}] @@ [text |-> None, from |-> None, to |-> None]

---------------------------------------------------------------------------
(* rows.mjs: the last row of a job replaces the earlier ones where the first *)
(* stood, rows without an id are all kept, and the order is that of queueing.*)
StableSort(s, Before(_, _)) ==
    LET idx == SetToSortSeq(DOMAIN s, LAMBDA i, j : Before(s[i], s[j]) \/ (~Before(s[j], s[i]) /\ i < j))
    IN  [k \in DOMAIN s |-> s[idx[k]]]

At(row) == Or(row.queued, row.started)

Deduplicated(s) ==
    LET Put(kept, raw) ==
            IF \E i \in DOMAIN kept : kept[i].id = raw.id
            THEN [i \in DOMAIN kept |-> IF kept[i].id = raw.id THEN raw ELSE kept[i]]
            ELSE Append(kept, raw)
        merged == FoldLeft(Put, <<>>, SelectSeq(s, LAMBDA r : r.id # None)) \o SelectSeq(s, LAMBDA r : r.id = None)
    IN  StableSort(merged, LAMBDA a, b : Or(At(a), 0) < Or(At(b), 0))

(* When a run was created: its earliest exact time, or else the earliest     *)
(* time of a job of it.                                                      *)
RunTime(rows, run) ==
    LET of == {r \in Range(rows) : r.run = run /\ Or(r.created, At(r)) # None}
        exact == {r \in of : r.created # None}
    IN  IF of = {} THEN [at |-> None, approximate |-> FALSE]
        ELSE IF exact # {} THEN [at |-> Min({r.created : r \in exact}), approximate |-> FALSE]
        ELSE [at |-> Min({At(r) : r \in of}), approximate |-> TRUE]

Resolved(rows) ==
    [i \in DOMAIN rows |-> rows[i] @@ [i |-> i, time |-> IF rows[i].run = None THEN [at |-> None, approximate |-> FALSE]
                                                         ELSE RunTime(rows, rows[i].run)]]

Rows == Resolved(Deduplicated(raws))

---------------------------------------------------------------------------
(* explore.mjs: the rows the filters leave.                                  *)
InOrder(f) ==
    IF f.from # None /\ f.to # None /\ f.to < f.from THEN [f EXCEPT !.from = f.to, !.to = f.from] ELSE f

ValuesOf(row, d) ==
    IF row[d] = {} /\ d = "runner" THEN {"(unidentified)"}
    ELSE IF row[d] = {} /\ d = "conclusion" THEN {"(none)"} ELSE row[d]
Matches(row, d, picked) == picked = {} \/ picked \intersect ValuesOf(row, d) # {}

(* Mutant: a job that still runs ends the moment it started *)
EndWhereStarted(row) == Or(row.completed, Or(row.started, row.queued))

(* A job without an end occupies its runner until the rows were taken; one   *)
(* that never started is at its queue time.                                  *)
EndOf(row) == Or(row.completed, IF row.started = None THEN row.queued ELSE CollectedAt)

InRange(row, from, to) ==
    LET start == Or(row.started, row.queued)
    IN  \/ from = None /\ to = None
        \/ /\ start # None
           /\ to # None => start < to
           /\ from # None => IF EndOf(row) > start THEN EndOf(row) > from ELSE start >= from

Selected(rows, input) ==
    LET f == InOrder(input)
    IN  SelectSeq(rows, LAMBDA r : /\ f.text # None => r.job = f.text
                                   /\ \A d \in Dims : Matches(r, d, f[d])
                                   /\ InRange(r, f.from, f.to))

(* Mutant: the options are counted over the filtered rows *)
CountedWhenShown(row, f) == IF \A d \in Dims : Matches(row, d, f[d]) THEN Dims ELSE {}

(* The options of a picker: a row that every dimension passes counts in all  *)
(* of them, one that a single dimension rejects counts in that one.          *)
CountedIn(row, f) ==
    LET missed == {d \in Dims : ~Matches(row, d, f[d])}
    IN  CASE missed = {} -> Dims
          [] Cardinality(missed) = 1 -> missed
          [] OTHER -> {}

Facet(rows, f, d) ==
    LET base == Selected(rows, [NoFilters EXCEPT !.text = f.text, !.from = f.from, !.to = f.to])
        Rest == {i \in DOMAIN base : d \in CountedIn(base[i], f)}
        found == UNION {ValuesOf(base[i], d) : i \in Rest}
    IN  [v \in found |-> Cardinality({i \in Rest : v \in ValuesOf(base[i], d)})]

(* facet.mjs: what was picked comes first, even when nothing of it is left.  *)
Offered(rows, f, d) ==
    LET counts == Facet(rows, f, d)
        options == StableSort(SetToSeq(DOMAIN counts), LAMBDA a, b : counts[a] > counts[b])
        ordered == SelectSeq(options, LAMBDA v : v \in f[d]) \o SetToSeq(f[d] \ DOMAIN counts)
                   \o SelectSeq(options, LAMBDA v : v \notin f[d])
        Counted(v) == [value |-> v, count |-> IF v \in DOMAIN counts THEN counts[v] ELSE 0]
    IN  [i \in 1 .. Min({Len(ordered), FacetCap}) |-> Counted(ordered[i])]

---------------------------------------------------------------------------
(* intervals.mjs. The axis is aligned to the epoch, not to the window.       *)
Span(start, end) == [start |-> start, end |-> end]
Axis == LET first == WindowFrom \div Width
        IN  [i \in 1 .. ((WindowTo - 1) \div Width) - first + 1 |-> Span((first + i - 1) * Width, (first + i) * Width)]

(* The busy span of a job, clipped to the window.                            *)
Occupancy(row) ==
    LET end == Or(row.completed, CollectedAt)
        span == Span(Max({row.started, WindowFrom}), Min({end, WindowTo}))
    IN  IF row.started = None \/ end <= row.started \/ span.end <= span.start THEN None ELSE span

Spans(rows) == SelectSeq([i \in DOMAIN rows |-> Occupancy(rows[i])], LAMBDA s : s # None)

(* One sweep over the sorted starts and ends, carried from bucket to bucket: *)
(* ends are released before a start at the same instant.                     *)
PeakPerBucket(buckets, spans) ==
    LET starts == SortSeq([i \in DOMAIN spans |-> spans[i].start], <)
        UpTo(s, t) == Cardinality({i \in DOMAIN s : s[i].end <= t})
        Release(acc, t) == [acc EXCEPT !.ended = UpTo(spans, t), !.open = @ - (UpTo(spans, t) - acc.ended)]
        Open(acc, k) == LET freed == Release(acc, starts[k])
                        IN  [freed EXCEPT !.open = @ + 1, !.begun = k, !.peak = Max({@, freed.open + 1})]
        Enter(acc, b) ==
            LET freed == Release(acc, b.start)
                begun == Cardinality({k \in DOMAIN starts : starts[k] <= b.start})
                at == freed.open + begun - freed.begun
            IN  [freed EXCEPT !.open = at, !.begun = begun, !.peak = at]
        Bucket(acc, b) ==
            LET entered == Enter(acc, b)
                inside == {k \in DOMAIN starts : k > entered.begun /\ starts[k] < b.end}
                left == FoldLeft(Open, entered, [i \in 1 .. Cardinality(inside) |-> entered.begun + i])
            IN  [left EXCEPT !.peaks = Append(@, left.peak)]
    IN  FoldLeft(Bucket, [open |-> 0, begun |-> 0, ended |-> 0, peak |-> 0, peaks |-> <<>>], buckets).peaks

(* Mutant: the times of two jobs of a runner add up *)
MergeNothing(spans) == spans

(* The union of the spans; spans that touch become one.                      *)
MergeIntervals(spans) ==
    LET Extend(merged, s) ==
            IF merged = <<>> \/ s.start > Last(merged).end THEN Append(merged, s)
            ELSE [merged EXCEPT ![Len(merged)].end = Max({@, s.end})]
    IN  FoldLeft(Extend, <<>>, StableSort(spans, LAMBDA a, b : a.start < b.start \/ (a.start = b.start /\ a.end < b.end)))

Overlap(a, b) == Max({0, Min({a.end, b.end}) - Max({a.start, b.start})})
Total(merged) == FoldLeft(LAMBDA sum, s : sum + s.end - s.start, 0, merged)
OccupancyByBucket(merged) ==
    [b \in DOMAIN Axis |-> FoldLeft(LAMBDA sum, s : sum + Overlap(s, Axis[b]), 0, merged)]

(* buildHeatmap: the busiest runners are drawn, the others add up to the     *)
(* remainder, and jobs without a runner are only counted.                    *)
BuildHeatmap(rows) ==
    LET busy == SelectSeq(rows, LAMBDA r : Occupancy(r) # None)
        Of(m) == SelectSeq(busy, LAMBDA r : r.runner = {m})
        machines == UNION {r.runner : r \in Range(busy)}
        merged == [m \in machines |-> MergeIntervals(Spans(Of(m)))]
        ranked == StableSort(SetToSeq(machines), LAMBDA m, n :
                      \/ Total(merged[m]) > Total(merged[n])
                      \/ Total(merged[m]) = Total(merged[n]) /\ Len(Of(m)) > Len(Of(n)))
        SumOf(ms) == [b \in DOMAIN Axis |-> FoldLeft(LAMBDA sum, m : sum + OccupancyByBucket(merged[m])[b], 0, ms)]
        drawn == SubSeq(ranked, 1, Min({TopRunners, Len(ranked)}))
    IN  [drawn |-> [k \in DOMAIN drawn |-> [runner |-> drawn[k], cells |-> OccupancyByBucket(merged[drawn[k]])]],
         claimed |-> SumOf(drawn),
         remainder |-> SumOf(SubSeq(ranked, Len(drawn) + 1, Len(ranked))),
         unnamed |-> Len(SelectSeq(busy, LAMBDA r : r.runner = {})),
         spans |-> [b \in DOMAIN Axis |-> Overlap(Axis[b], Span(WindowFrom, WindowTo))]]

(* workflowRunTimeline: the first row of a run places it.                    *)
RunTimeline(rows) ==
    LET First(run) == CHOOSE r \in Range(rows) : r.run = run /\ \A q \in Range(rows) : q.run = run => r.i <= q.i
        counted == {run \in {r.run : r \in Range(rows)} \ {None} :
                       LET at == First(run).time.at IN at # None /\ at >= WindowFrom /\ at < WindowTo}
    IN  [run \in counted |-> (First(run).time.at - Axis[1].start) \div Width]

---------------------------------------------------------------------------
(* The hours of a local clock in a period: a slot ends with its hour, with   *)
(* the period, or where the clock is moved.                                  *)
Local(clock, t) == t + (IF t >= clock.at THEN clock.shift ELSE 0)
HourOf(clock, t) == Local(clock, t) \div HourLength

LocalHourSlots(clock, from, to) ==
    LET Slot(start) ==
            LET end == Min({start + HourLength - (Local(clock, start) % HourLength), to})
            IN  Span(start, IF start < clock.at /\ clock.at <= end - 1 THEN clock.at ELSE end)
        slots[t \in from .. to] == IF t = to THEN <<>> ELSE <<Slot(t)>> \o slots[Slot(t).end]
    IN  IF from < to THEN slots[from] ELSE <<>>

(* hourlyPeakConcurrency: an hour the clock repeats keeps its higher peak.   *)
(* The range is the filter as it is, also when it is set backwards.          *)
HourlyPeaks(clock, rows, f) ==
    LET from == Max({WindowFrom, Or(f.from, WindowFrom)})
        to == Min({WindowTo, Or(f.to, WindowTo)})
        slots == LocalHourSlots(clock, from, to)
        peaks == PeakPerBucket(slots, Spans(rows))
        Of(h) == {k \in DOMAIN slots : HourOf(clock, slots[k].start) = h}
    IN  [h \in {HourOf(clock, slots[k].start) : k \in DOMAIN slots} |-> Max({peaks[k] : k \in Of(h)})]

---------------------------------------------------------------------------
ExploreInit == raws = <<>> /\ filters = NoFilters

(* A collection that found one more row; the explorer keeps its filters.     *)
LoadRows ==
    /\ Len(raws) < MaxRaws
    /\ \E raw \in Raws : raws' = Append(raws, raw)
    /\ UNCHANGED filters

SetFilters ==
    /\ \E f \in Narrowings : filters' = f @@ NoFilters
    /\ UNCHANGED raws

ExploreNext == LoadRows \/ SetFilters

---------------------------------------------------------------------------
Shown == Selected(Rows, filters)
Instants(s) == s.start .. s.end - 1
Drawn == raws # <<>>   \* before a row is in, nothing is drawn
Running(rows, t) == Cardinality({i \in DOMAIN rows : LET s == Occupancy(rows[i]) IN s # None /\ t \in Instants(s)})

(* A bucket's peak is the most jobs that run at one of its instants, those   *)
(* that began long before it included.                                       *)
PeaksAreExact ==
    LET peaks == PeakPerBucket(Axis, Spans(Shown))
    IN  \A b \in DOMAIN Axis : peaks[b] = Max({Running(Shown, t) : t \in Instants(Axis[b])})

(* The hours of a chart are those the local clock shows in the range, and    *)
(* the peak of one is the most jobs at an instant it is shown at: of both    *)
(* times, where the clock is moved back and shows it twice. In a range set   *)
(* backwards no hour is shown, although its rows are.                        *)
HoursAreExact == \A clock \in Clocks :
    LET hours == HourlyPeaks(clock, Shown, filters)
        range == {t \in WindowFrom .. WindowTo - 1 :
                    t >= Or(filters.from, WindowFrom) /\ t < Or(filters.to, WindowTo)}
        Of(h) == {t \in range : HourOf(clock, t) = h}
    IN  /\ DOMAIN hours = {HourOf(clock, t) : t \in range}
        /\ \A h \in DOMAIN hours : hours[h] = Max({Running(Shown, t) : t \in Of(h)})

HeatmapIsOf(map, rows) ==
    LET Busy(m, b) == Cardinality({t \in Instants(Axis[b]) : Running(SelectSeq(rows, LAMBDA r : r.runner = {m}), t) > 0})
        machines == UNION {r.runner : r \in Range(rows)}
    IN  /\ \A b \in DOMAIN Axis :
               /\ \A k \in DOMAIN map.drawn :
                      map.drawn[k].cells[b] = Busy(map.drawn[k].runner, b) /\ map.drawn[k].cells[b] <= map.spans[b]
               /\ map.claimed[b] + map.remainder[b] = MapThenSumSet(LAMBDA m : Busy(m, b), machines)
        /\ map.unnamed = Cardinality({i \in DOMAIN rows :
               rows[i].runner = {} /\ \E t \in WindowFrom .. WindowTo - 1 : Running(<<rows[i]>>, t) > 0})

(* A heatmap cell is the time its runner was busy with any job, never more   *)
(* than the window has of the bucket; every named runner is either drawn or  *)
(* in the remainder, in every bucket; and every other job that ran in the    *)
(* window is counted beside them.                                            *)
BusyTimeIsExact == HeatmapIsOf(BuildHeatmap(Shown), Shown)

(* Selecting a bucket on a chart leaves every job that the chart drew in it: *)
(* the bucket keeps its peak, its busy time and the unnamed jobs it had.     *)
SelectionKeepsItsBucket == Drawn =>
    \A b \in DOMAIN Axis :
        LET all == Selected(Rows, [filters EXCEPT !.from = None, !.to = None])
            left == Selected(Rows, [filters EXCEPT !.from = Axis[b].start, !.to = Axis[b].end])
            Cells(rows) == MapThenSumSet(LAMBDA m : OccupancyByBucket(MergeIntervals(Spans(SelectSeq(rows, LAMBDA r : r.runner = {m}))))[b],
                                         UNION {r.runner : r \in Range(rows)})
        IN  /\ PeakPerBucket(Axis, Spans(left))[b] = PeakPerBucket(Axis, Spans(all))[b]
            /\ Cells(left) = Cells(all)

OffersAreGains(offered, rows, d) ==
    LET listed == {offered[k].value : k \in DOMAIN offered}
        Left(v) == Len(Selected(rows, [filters EXCEPT ![d] = {v}]))
    IN  /\ \A k \in DOMAIN offered : offered[k].count = Left(offered[k].value)
        /\ \A v \in UNION {ValuesOf(r, d) : r \in Range(rows)} \ listed : Left(v) = 0 \/ Len(offered) = FacetCap
        /\ Cardinality(filters[d]) <= FacetCap => filters[d] \subseteq listed

(* The count beside an option is what a reader is left with by picking it    *)
(* alone in its dimension. Every value that would leave a row is offered, so *)
(* that a second one can be picked after the first, unless the list is full; *)
(* what is picked is listed however many there are, so it can be unpicked.   *)
FacetCountsAreGains == Drawn => \A d \in Dims : OffersAreGains(Offered(Rows, filters, d), Rows, d)

(* Whatever is filtered, a workflow run that is still counted is counted in  *)
(* the bucket it has when nothing is filtered.                               *)
RunsStayInTheirBucket ==
    LET all == RunTimeline(Rows)
        left == RunTimeline(Shown)
    IN  DOMAIN left = {r.run : r \in Range(Shown)} \intersect DOMAIN all /\ \A run \in DOMAIN left : left[run] = all[run]

(* Invariant: what the charts draw of the rows selected is exact.            *)
ChartsAreExact == Drawn => PeaksAreExact /\ HoursAreExact /\ BusyTimeIsExact /\ RunsStayInTheirBucket
=============================================================================
