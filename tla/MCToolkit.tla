----------------------------- MODULE MCToolkit -----------------------------
(* A small instance of the children that are run: what they print, and what  *)
(* the installed CLI is asked.                                               *)
EXTENDS Stream, Toolkit

(* Rows, lines that are not, empty lines, a last line without its end and    *)
(* one that was cut off; warnings, the same one twice, the run cap's notice  *)
(* and a refusal.                                                            *)
MCOutputs ==
    {<<>>, <<"{", "1", Eol, Eol, "{", "2">>, <<"{", "1", Eol, "?", Eol, "{", "2", Eol>>,
     <<"{", "1", Eol, "{", "2", Eol, "{", "3", Eol>>, <<"{", "1", Eol, "{">>}
MCLogs ==
    {<<>>, <<"WARN", "a", Eol, "WARN", "cap", Eol, "WARN", "a">>, <<"WARN", "b", Eol, "Error:", "limit", Eol>>}

(* An installed CLI from before snapshots, one that has them but knows       *)
(* little of what can be asked, and a current one.                           *)
OldKit == [sub \in {"summary", "jobs", "concurrency"} |-> {"--format"}]
SnapshotFlags == [snapshot |-> {"--input", "--output", "--since", "--until"}]
ReportFlags(report, more) ==
    [sub \in {"runs", "jobs", "steps", "export"} |-> {"--input", "--format", "--kind"}] @@
        [summary |-> more, concurrency |-> {}, report |-> {"--input", "--section"} \union report] @@ SnapshotFlags
CollectFlags == {"--type repo", "--type org", "--refresh", "--all-attempts", "--pricing", "--usage", "--output"}
MiddleKit == ReportFlags({}, {}) @@ [collect |-> CollectFlags]
CurrentKit ==
    LET more == {"--until", "--include-repo", "--exclude-repo"}
    IN  ReportFlags({"--time-zone"}, more) @@
            [collect |-> CollectFlags \union more \union {"--progress"}, timeline |-> {"--input", "--format", "--attempt"}]
MCKits == {OldKit, MiddleKit, CurrentKit}

RequestFor(org, runnerType, repos, until, more) ==
    [org |-> org, runnerType |-> runnerType, filters |-> repos, until |-> until,
     force |-> more, billable |-> more, filtered |-> more]
MCRequests ==
    {RequestFor(TRUE, "repo", {"--include-repo"}, FALSE, TRUE), RequestFor(FALSE, "repo", {"--exclude-repo"}, TRUE, FALSE),
     RequestFor(TRUE, "org", {"--include-repo", "--exclude-repo"}, FALSE, FALSE)}

(* The questions alone, while a child without output waits.                  *)
KitInit == StreamInit /\ child = ChildOf("insists", FALSE, <<>>, <<>>) /\ ToolkitInit
KitSpec == KitInit /\ [][ToolkitNext /\ UNCHANGED childVars]_<<kitVars, childVars>>
=============================================================================
