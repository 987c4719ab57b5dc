------------------------------- MODULE Toolkit -------------------------------
(* What the dashboard asks of the installed `gh runner-kit`, and the         *)
(* collection made of it (.github/extensions/actions-metrics:                *)
(* lib/runnerkit.mjs, lib/timeline.mjs and the collection of                 *)
(* lib/dataset.mjs). The dashboard ships apart from the CLI, so it probes    *)
(* once, by reading help texts, which commands and flags there are; then     *)
(* one snapshot is collected and every report is read from it, each by a     *)
(* child process that may fail.                                              *)
(*                                                                           *)
(* A command line is its subcommand and its flags, without their values.     *)
(* Which dataset a view shares, and for how long, is SharedDataset's; a      *)
(* collector here has at most one it handed out.                             *)
EXTENDS Nothing, Integers, FiniteSets

CONSTANTS
    Collectors,  \* canvases of different queries, which share the probe
    Kits,        \* a kit: its subcommands and the flags each knows
    Requests     \* what may be asked of a collection

(* Flags the probe looks for, and those it takes for granted: every CLI that *)
(* can collect a snapshot has had them (cmd/metrics/), and one that lists    *)
(* the runs of a snapshot lists its jobs. What summary can be told of a      *)
(* target and a period, collect can: the two share these flags.              *)
Shared == {"--until", "--include-repo", "--exclude-repo"}
TakenForGranted ==
    [collect |-> {"--type org", "--type repo", "--refresh", "--all-attempts", "--pricing", "--usage", "--output"},
     report |-> {"--input", "--section"}, snapshot |-> {"--input", "--output", "--since", "--until"},
     runs |-> {"--input", "--format"}, jobs |-> {"--input", "--format", "--kind"},
     steps |-> {"--input", "--format", "--kind"}, export |-> {"--input", "--format"},
     timeline |-> {"--input", "--format", "--attempt"}]

(* What may be asked of a collection: the runners, the repositories to leave *)
(* out or keep, and how it is to be collected. And what is handed out.       *)
Askable ==
    [org : BOOLEAN, runnerType : {"auto", "org", "repo"},
     filters : SUBSET {"--include-repo", "--exclude-repo"},
     until : BOOLEAN, force : BOOLEAN, billable : BOOLEAN, filtered : BOOLEAN]
HandedOut ==
    [view : {"view", "other view", None}, request : Askable, warnings : SUBSET {"time zone"}, concurrency : BOOLEAN]

ASSUME KitAssumption ==
    /\ \A k \in Kits : "collect" \in DOMAIN k =>
         /\ \A sub \in DOMAIN TakenForGranted \intersect DOMAIN k : TakenForGranted[sub] \subseteq k[sub]
         /\ "runs" \in DOMAIN k => "jobs" \in DOMAIN k
         /\ "summary" \in DOMAIN k => k["summary"] \intersect Shared \subseteq k["collect"]
    /\ Requests \subseteq Askable
    /\ None \notin {"base", "view", "other view"} /\ None \notin Askable /\ None \notin HandedOut

VARIABLES
    kit,          \* what is installed
    memo,         \* probeOnce: None, Broken (a promise that rejected) or a probe
    directories,  \* the temporary directories on disk
    work          \* work[c]: a collection and the dataset of an earlier one

kitVars == <<kit, memo, directories, work>>

Broken == [available |-> "broken"]
HelpTexts == {"metrics", "job", "summary", "collect", "concurrency"}

Idle0 == [phase |-> "idle", request |-> None, warnings |-> {}, base |-> 0, view |-> None, sent |-> None,
          dataset |-> None]

ToolkitInit ==
    /\ kit \in Kits
    /\ memo = None
    /\ directories = {}
    /\ work = [c \in Collectors |-> Idle0]

Phase(c) == work[c].phase

---------------------------------------------------------------------------
(* THE PROBE *)

FlagsOf(k, sub, lost, text) == IF sub \notin DOMAIN k \/ text \in lost THEN {} ELSE k[sub]

(* parseSubcommands and parseFlags over the help texts that could be read.   *)
(* The filters' flags are read off `summary` for every subcommand. Only the  *)
(* last text is read outside a try: without it the promise rejects, and      *)
(* stays.                                                                    *)
Probe(k, lost) ==
    LET report == IF "report" \in DOMAIN k THEN "report" ELSE "concurrency"
    IN  CASE "metrics" \in lost ->
                 [available |-> FALSE, subcommands |-> {}, timeline |-> FALSE,
                  flags |-> {}, collectFlags |-> {}, concurrencyFlags |-> {}]
          [] "metrics" \notin lost /\ report \in DOMAIN k /\ "concurrency" \in lost -> Broken
          [] OTHER ->
                 [available |-> TRUE, subcommands |-> DOMAIN k \ {"timeline"},
                  timeline |-> "timeline" \in DOMAIN k /\ "job" \notin lost,
                  flags |-> FlagsOf(k, "summary", lost, "summary"),
                  collectFlags |-> FlagsOf(k, "collect", lost, "collect"),
                  concurrencyFlags |-> FlagsOf(k, report, lost, "concurrency")]

(* `gh extension upgrade runner-kit`: the memo keeps what it was.            *)
Upgrade(k) ==
    /\ \A sub \in DOMAIN kit : sub \in DOMAIN k /\ kit[sub] \subseteq k[sub]
    /\ kit' = k
    /\ UNCHANGED <<memo, directories, work>>

ProbeKit(lost) ==
    /\ memo = None /\ \E c \in Collectors : Phase(c) = "probing"
    /\ memo' = Probe(kit, lost)
    /\ UNCHANGED <<kit, directories, work>>

---------------------------------------------------------------------------
(* COMMAND LINES *)

(* Mutant: the filters the CLI may not know are sent anyway                  *)
AllRepoFilters(p) == {"--include-repo", "--exclude-repo"}

RepoFilterSupport(p) == {"--include-repo", "--exclude-repo"} \intersect p.flags

RunnerTypeApplies(r) == r.runnerType = "org" \/ (r.runnerType = "repo" /\ ~r.org)

RepoFilters(r) == {f \in {"--include-repo", "--exclude-repo"} : f \in r.filters}

(* What baseArgs adds to the target and the days of a collection.            *)
BaseFlags(p, r) ==
    (IF r.until THEN {"--until"} ELSE {})
        \union (IF RunnerTypeApplies(r) THEN {IF r.runnerType = "org" THEN "--type org" ELSE "--type repo"} ELSE {})
        \union (IF r.org THEN RepoFilters(r) \intersect RepoFilterSupport(p) ELSE {})
        \union (IF r.force THEN {"--refresh"} ELSE {})

SnapshotCommand(p, r) ==
    [sub |-> "collect",
     flags |-> BaseFlags(p, r) \union {"--all-attempts", "--pricing", "--output"}
                   \union (IF r.billable THEN {"--usage"} ELSE {}) \union ({"--progress"} \intersect p.collectFlags)]

(* A report that reads a snapshot has no flag of a collection.               *)
InputCommand(sub, more) == [sub |-> sub, flags |-> {"--input"} \union more]

(* reportExtraArgs: midnight-aligned buckets if the CLI knows time zones;    *)
(* without them every section but the concurrency is listed.                 *)
KnowsTimeZone(p) == "--time-zone" \in p.concurrencyFlags
ReportCommand(p, r) ==
    InputCommand("report", (IF KnowsTimeZone(p) THEN {"--time-zone"} ELSE {})
                               \union (IF r.billable \/ ~KnowsTimeZone(p) THEN {"--section"} ELSE {}))

(* What the user asked for and this command line cannot say.                 *)
RunnerTypeWarnings(r) == IF r.runnerType = "auto" \/ RunnerTypeApplies(r) THEN {} ELSE {"runner type"}
RepoFilterWarnings(p, r) ==
    IF RepoFilters(r) # {} /\ (~r.org \/ ~(RepoFilters(r) \subseteq RepoFilterSupport(p)))
    THEN {"repository filters"} ELSE {}

---------------------------------------------------------------------------
(* A COLLECTION *)

Becomes(c, w) == work' = [work EXCEPT ![c] = w]

CollectsFor(c, r) ==
    /\ Phase(c) = "idle" /\ work[c].dataset = None
    /\ Becomes(c, [work[c] EXCEPT !.phase = "probing", !.request = r])
    /\ UNCHANGED <<kit, memo, directories>>

(* A reference on the snapshot is given up; the last one removes its file.   *)
(* The directory of a view goes with the view.                               *)
WithoutBase(dirs, c, references) == IF references = 0 THEN dirs \ {<<c, "base">>} ELSE dirs
WithoutView(dirs, c, view) == dirs \ {<<c, view>>}

(* A step failed, or the collection was aborted.                             *)
Fails(c) ==
    /\ Phase(c) \notin {"idle", "probing"}
    /\ LET w == work[c]
           left == IF w.base > 0 THEN w.base - 1 ELSE 0
       IN  /\ Becomes(c, [Idle0 EXCEPT !.base = left, !.dataset = w.dataset])
           /\ directories' = WithoutBase(WithoutView(directories, c, w.view), c, left)
    /\ UNCHANGED <<kit, memo>>

Needed == {"collect", "report", "snapshot"}

(* collectSharedSnapshot once it has the probe: the CLI is too old, or there *)
(* is a directory; then a bounded period that cannot be asked for throws.    *)
Probed(c) ==
    /\ Phase(c) = "probing" /\ memo # None
    /\ IF memo = Broken \/ ~(Needed \subseteq memo.subcommands)
       THEN Becomes(c, Idle0) /\ UNCHANGED directories
       ELSE IF work[c].request.until /\ "--until" \notin memo.flags
       THEN Becomes(c, Idle0) /\ UNCHANGED directories
       ELSE /\ Becomes(c, [work[c] EXCEPT !.phase = "collecting", !.sent = SnapshotCommand(memo, work[c].request)])
            /\ directories' = directories \union {<<c, "base">>}
    /\ UNCHANGED <<kit, memo>>

Next0(c, phase, next, sent) ==
    /\ Phase(c) = phase
    /\ Becomes(c, [work[c] EXCEPT !.phase = next, !.sent = sent])
    /\ UNCHANGED <<kit, memo, directories>>

SnapshotTaken(c) == Next0(c, "collecting", "metadata", InputCommand("snapshot", {}))

(* The metadata is of a snapshot this extension can read; collectRuns needs  *)
(* the CLI to list runs, and says so if it does not.                         *)
MetadataRead(c) ==
    /\ Phase(c) = "metadata" /\ "runs" \in memo.subcommands
    /\ Next0(c, "metadata", "runs", InputCommand("runs", {"--format"}))

RunsRead(c) == Next0(c, "runs", "jobs", InputCommand("jobs", {"--format", "--kind"}))

(* readDataset on a snapshot one reference of which is the collection's: a   *)
(* filtered view is written to a directory of its own, then the fleet report *)
(* is read from the file of the view.                                        *)
FreeView(c) == IF work[c].dataset # None /\ work[c].dataset.view = "view" THEN "other view" ELSE "view"
ReportWarnings(p) == IF KnowsTimeZone(p) THEN {} ELSE {"time zone"}

ReadsDataset(c, w) ==
    IF w.request.filtered
    THEN /\ Becomes(c, [w EXCEPT !.phase = "view", !.view = FreeView(c),
                              !.sent = InputCommand("snapshot", {"--output", "--since", "--until"})])
         /\ directories' = directories \union {<<c, FreeView(c)>>}
    ELSE /\ Becomes(c, [w EXCEPT !.phase = "fleet", !.sent = ReportCommand(memo, w.request),
                              !.warnings = ReportWarnings(memo)])
         /\ UNCHANGED directories

JobsRead(c) ==
    /\ Phase(c) = "jobs"
    /\ ReadsDataset(c, [work[c] EXCEPT !.base = 1])
    /\ UNCHANGED <<kit, memo>>

ViewWritten(c) ==
    /\ Phase(c) = "view"
    /\ Becomes(c, [work[c] EXCEPT !.phase = "fleet", !.sent = ReportCommand(memo, work[c].request),
                               !.warnings = ReportWarnings(memo)])
    /\ UNCHANGED <<kit, memo, directories>>

(* The report has a summary: the view is handed out, and replaces one that   *)
(* was. Its concurrency is left empty where buckets could not be aligned.    *)
FleetRead(c) ==
    /\ Phase(c) = "fleet"
    /\ LET w == work[c]
           left == IF w.dataset = None THEN w.base ELSE w.base - 1
           got == [view |-> w.view, request |-> w.request, warnings |-> w.warnings, concurrency |-> KnowsTimeZone(memo)]
       IN  /\ Becomes(c, [Idle0 EXCEPT !.base = left, !.dataset = got])
           /\ directories' =
                IF w.dataset = None THEN directories ELSE WithoutView(directories, c, w.dataset.view)
    /\ UNCHANGED <<kit, memo>>

(* A collection that re-reads the snapshot of the view it has.               *)
Rereads(c, filtered) ==
    /\ Phase(c) = "idle" /\ work[c].dataset # None
    /\ ReadsDataset(c, [work[c] EXCEPT !.base = @ + 1,
                                       !.request = [work[c].dataset.request EXCEPT !.filtered = filtered]])
    /\ UNCHANGED <<kit, memo>>

(* The view is retired.                                                      *)
Drops(c) ==
    /\ Phase(c) = "idle" /\ work[c].dataset # None
    /\ Becomes(c, [Idle0 EXCEPT !.base = work[c].base - 1])
    /\ directories' = WithoutBase(WithoutView(directories, c, work[c].dataset.view), c, work[c].base - 1)
    /\ UNCHANGED <<kit, memo>>

(* Reports read from the dataset on demand, each if the probe found what it  *)
(* is made of.                                                               *)
OnDemand(c, command) ==
    /\ Phase(c) = "idle" /\ work[c].dataset # None
    /\ Becomes(c, [work[c] EXCEPT !.sent = command])
    /\ UNCHANGED <<kit, memo, directories>>

ExportFleet(c) == OnDemand(c, InputCommand("export", {"--format"})) /\ "export" \in memo.subcommands
StepRows(c) == OnDemand(c, InputCommand("steps", {"--format", "--kind"})) /\ {"steps", "jobs"} \subseteq memo.subcommands
CollectRunTimeline(c) == OnDemand(c, InputCommand("timeline", {"--format", "--attempt"})) /\ memo.timeline

CollectorNext(c) ==
    \/ \E r \in Requests : CollectsFor(c, r)
    \/ Probed(c)
    \/ SnapshotTaken(c) \/ MetadataRead(c) \/ RunsRead(c) \/ JobsRead(c) \/ ViewWritten(c) \/ FleetRead(c)
    \/ Fails(c)
    \/ \E filtered \in BOOLEAN : Rereads(c, filtered)
    \/ Drops(c)
    \/ ExportFleet(c) \/ StepRows(c) \/ CollectRunTimeline(c)

ToolkitNext ==
    \/ \E k \in Kits : Upgrade(k)
    \/ \E lost \in SUBSET HelpTexts : ProbeKit(lost)
    \/ \E c \in Collectors : CollectorNext(c)

ToolkitSpec == ToolkitInit /\ [][ToolkitNext]_kitVars

---------------------------------------------------------------------------
(* SAFETY *)

(* The CLI rejects a subcommand or a flag it does not know, a flag of a      *)
(* collection beside a snapshot, the runners of a repository for an          *)
(* organization, and a filter of repositories for one repository: none is    *)
(* sent, whatever could not be probed and whenever the CLI is upgraded.      *)
OfACollection == {"--type org", "--type repo", "--include-repo", "--exclude-repo", "--refresh", "--until"}
KitAccepts(line, r) ==
    /\ line.sub \in DOMAIN kit /\ line.flags \subseteq kit[line.sub]
    /\ line.sub # "snapshot" /\ "--input" \in line.flags => line.flags \intersect OfACollection = {}
    /\ line.flags \intersect (IF r.org THEN {"--type repo"} ELSE {"--include-repo", "--exclude-repo"}) = {}

RequestOf(w) == IF w.request = None THEN w.dataset.request ELSE w.request
CommandsAreAccepted ==
    \A c \in Collectors : work[c].sent # None => KitAccepts(work[c].sent, RequestOf(work[c]))

(* On disk are the snapshots of the collections under way and of the         *)
(* datasets handed out, and the views of each, however a collection ended    *)
(* (dataset.mjs:78, 165, 192).                                               *)
NamesInUse(c) ==
    (IF Phase(c) \notin {"idle", "probing"} \/ work[c].dataset # None THEN {"base"} ELSE {})
        \union (({work[c].view} \union {d.view : d \in {work[c].dataset} \ {None}}) \ {None})

NothingIsLeft == directories = UNION {{c} \X NamesInUse(c) : c \in Collectors}

(* A dataset whose concurrency is empty for want of a flag says so.          *)
GapsAreExplained ==
    \A c \in Collectors : work[c].dataset # None /\ ~work[c].dataset.concurrency => "time zone" \in work[c].dataset.warnings

(* Invariant: what is asked for can be answered, what is left on disk is in  *)
(* use, and what is missing is explained.                                    *)
CollectionsAreAccountedFor == CommandsAreAccepted /\ NothingIsLeft /\ GapsAreExplained

(* "Only `--type repo` on an org target is dropped here (and reported by     *)
(* runnerTypeWarnings)" (runnerkit.mjs:333), "so a silently widened          *)
(* collection is never mistaken for a filtered one" (249). No collection     *)
(* calls either of the functions that report.                                *)
DroppedFiltersAreReported ==
    \A c \in Collectors :
        work[c].dataset # None =>
            RunnerTypeWarnings(work[c].dataset.request) \union RepoFilterWarnings(memo, work[c].dataset.request)
                \subseteq work[c].dataset.warnings
=============================================================================
