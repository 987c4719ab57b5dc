------------------------------- MODULE Stream -------------------------------
(* One child process of the dashboard and whoever reads its lines            *)
(* (.github/extensions/actions-metrics: lib/process.mjs, and its callers     *)
(* streamCommand of lib/steprows.mjs, collectSharedSnapshot of               *)
(* lib/dataset.mjs and the capped readers of lib/jobs.mjs and jobrows.mjs).  *)
(*                                                                           *)
(* The child writes a text to each of its pipes; the pipes hand them over in *)
(* pieces cut anywhere, each to one run of a handler. A row is spelt "{" and *)
(* a number, a log line its level and what it says, so half of one is not    *)
(* one. The tail of stderr the code keeps (8192 characters) is all of it.    *)
EXTENDS Nothing, Integers, SequencesExt

CONSTANTS
    Outputs,    \* texts on stdout: sequences of "{", "?", numbers and line ends
    Logs,       \* texts on stderr: sequences of "WARN", "Error:", words and line ends
    RowCap      \* lines a capped reader accepts

Written == UNION {Range(text) : text \in Outputs \union Logs}
Endings == {"limited", "superseded", "missing", "malformed", "truncated", "complete", "failed"}

ASSUME StreamAssumption ==
    /\ Outputs \subseteq Seq(Written) /\ Logs \subseteq Seq(Written)
    /\ RowCap \in Nat
    /\ None \notin Endings

VARIABLE child

childVars == <<child>>

Eol == "\n"

(* What the first characters of a text say: the lines that have ended, empty *)
(* ones left out, and what is open. The last line of a text needs no end.    *)
LinesOf(x) == IF x.open = <<>> THEN x.lines ELSE Append(x.lines, x.open)
Scan(text) ==
    LET scan[i \in 0 .. Len(text)] ==
            IF i = 0 THEN [lines |-> <<>>, open |-> <<>>]
            ELSE LET x == scan[i - 1]
                 IN  IF text[i] = Eol THEN [lines |-> LinesOf(x), open |-> <<>>]
                     ELSE [lines |-> x.lines, open |-> Append(x.open, text[i])]
    IN  scan
Said(text) == LinesOf(Scan(text)[Len(text)])

IsRow(line) == Len(line) = 2 /\ line[1] = "{"

(* A collection warning, which the notice of the run cap is not.             *)
IsWarning(line) == Len(line) = 2 /\ line[1] = "WARN" /\ line[2] # "cap"
ReportsRunCapReached(text) == <<"WARN", "cap">> \in Range(Said(text))

(* A call about to be made: by streamCommand, which counts what it cannot    *)
(* read and listens; by collectSharedSnapshot, which insists on rows; or by  *)
(* a reader that stops at a cap. A call that reads a snapshot is not gated.  *)
ChildOf(reader, gated, out, log) ==
    [reader |-> reader, gated |-> gated, phase |-> "asked", out |-> out, log |-> log,
     text |-> out, said |-> log, stderr |-> <<>>, pending |-> <<>>, pendingErr |-> <<>>,
     stopped |-> FALSE, aborted |-> FALSE, streamError |-> FALSE,
     given |-> <<>>, rows |-> <<>>, malformed |-> 0, warnings |-> <<>>, outcome |-> None]

StreamInit ==
    \/ \E gated \in BOOLEAN, out \in Outputs, log \in Logs : child = ChildOf("counts", gated, out, log)
    \/ \E out \in Outputs : child = ChildOf("insists", FALSE, out, <<>>)
    \/ \E out \in Outputs : child = ChildOf("capped", TRUE, out, <<>>)

Listens(s) == s.reader = "counts"

Settle(outcome) == child' = [child EXCEPT !.phase = "settled", !.outcome = outcome]

---------------------------------------------------------------------------
(* The rate gate, then the child: not started for a caller that gave up.     *)
Blocked ==
    /\ child.phase = "asked" /\ child.gated
    /\ Settle("limited")

Start ==
    /\ child.phase = "asked"
    /\ \/ child.aborted /\ Settle("superseded")
       \/ ~child.aborted /\ child' = [child EXCEPT !.phase = "running"]
       \/ ~child.aborted /\ Settle("missing")

Abort ==
    /\ child.phase \in {"asked", "running"}
    /\ child' = [child EXCEPT !.aborted = TRUE, !.stopped = child.phase = "running"]

(* The reader is given a line: it keeps it, counts it, throws or has enough. *)
Keep(s, line) == IF IsRow(line) THEN [s EXCEPT !.rows = Append(@, line)] ELSE [s EXCEPT !.malformed = @ + 1]
Dispatch(s, line) ==
    LET t == [s EXCEPT !.given = Append(@, line)]
    IN  IF s.reader = "insists" /\ ~IsRow(line) THEN [t EXCEPT !.streamError = TRUE, !.stopped = TRUE]
        ELSE IF s.reader = "capped" /\ Len(t.given) > RowCap THEN [t EXCEPT !.stopped = TRUE]
        ELSE Keep(t, line)

(* One character of stdout: a line is handed over at its end, and nothing    *)
(* after the line that made the reader stop.                                 *)
Reads(s, c) ==
    IF s.stopped THEN s
    ELSE IF c # Eol THEN [s EXCEPT !.pending = Append(@, c)]
    ELSE IF s.pending = <<>> THEN s
    ELSE Dispatch([s EXCEPT !.pending = <<>>], s.pending)

Hears(s, line) ==
    IF ~s.streamError /\ IsWarning(line) /\ line[2] \notin Range(s.warnings)
    THEN [s EXCEPT !.warnings = Append(@, line[2])] ELSE s
Overhears(s, c) ==
    IF c = Eol THEN Hears([s EXCEPT !.pendingErr = <<>>], s.pendingErr)
    ELSE [s EXCEPT !.pendingErr = Append(@, c)]

(* A data handler, after each character of the piece it is given.            *)
Takes(pipe, s, c) == IF pipe = "stdout" THEN Reads(s, c) ELSE Overhears(s, c)
Handling(pipe, s, piece) ==
    LET after[i \in 0 .. Len(piece)] == IF i = 0 THEN s ELSE Takes(pipe, after[i - 1], piece[i])
    IN  after

(* The data handlers, on a piece of the first n characters of a pipe.        *)
ReadStdout(n) ==
    /\ child.phase = "running" /\ n <= Len(child.out)
    /\ child' = Handling("stdout", [child EXCEPT !.out = SubSeq(@, n + 1, Len(@))], SubSeq(child.out, 1, n))[n]

ReadStderr(n) ==
    /\ child.phase = "running" /\ n <= Len(child.log)
    /\ LET piece == SubSeq(child.log, 1, n)
           s == [child EXCEPT !.log = SubSeq(@, n + 1, Len(@)), !.stderr = @ \o piece]
       IN  child' = IF Listens(s) THEN Handling("stderr", s, piece)[n] ELSE s

(* Mutant: the last line is forgotten if nothing ends it                     *)
WithoutLastLine(s) == s

(* What has no end when the child has closed its pipes.                      *)
WithLastLine(s) == IF s.pending = <<>> THEN s ELSE Dispatch(s, s.pending)

LimitSaid(s) == <<"Error:", "limit">> \in Range(Said(s.stderr))

(* The pipes are closed: the child wrote and did all it had to, failed, or   *)
(* was killed.                                                               *)
Closes(code) ==
    /\ child.phase = "running"
    /\ code = 0 => child.log = <<>> /\ (child.out = <<>> \/ child.stopped)
    /\ LET heard == IF Listens(child) THEN Hears(child, child.pendingErr) ELSE child
           read == IF heard.stopped THEN heard ELSE WithLastLine(heard)
           outcome ==
               IF read.streamError THEN "malformed"
               ELSE IF read.aborted THEN "superseded"
               ELSE IF heard.stopped THEN "truncated"
               ELSE IF code = 0 THEN "complete"
               ELSE IF read.gated /\ LimitSaid(read) THEN "limited" ELSE "failed"
       IN  child' = [read EXCEPT !.phase = "settled", !.outcome = outcome]

StreamNext ==
    \/ Blocked
    \/ Start
    \/ Abort
    \/ \E n \in 1 .. Len(child.out) : ReadStdout(n)
    \/ \E n \in 1 .. Len(child.log) : ReadStderr(n)
    \/ \E code \in {0, 1} : Closes(code)

StreamSpec == StreamInit /\ [][StreamNext]_childVars

(* streamCommand's answer.                                                   *)
AnswerTruncated == child.outcome = "truncated" \/ ReportsRunCapReached(child.stderr)

---------------------------------------------------------------------------
(* SAFETY *)

(* What the warnings among some lines say.                                   *)
Warned(lines) == {line[2] : line \in {l \in Range(lines) : IsWarning(l)}}

CompleteIsAll ==
    /\ child.given = Said(child.text)
    /\ Len(child.rows) + child.malformed = Len(Said(child.text)) \/ child.reader = "capped"
    /\ Listens(child) =>
         /\ Range(child.warnings) = Warned(Said(child.said))
         /\ IsInjective(child.warnings)
         /\ AnswerTruncated <=> ReportsRunCapReached(child.said)

(* However the text was cut into pieces, a reader is given whole lines, each *)
(* once and in their order (process.mjs:79-93), and an answer says what it   *)
(* is of: a complete one of every line, the unended last one too, with each  *)
(* line a row or counted and each warning kept once; a truncated one of the  *)
(* lines up to the one the reader had enough at; and a stream that was given *)
(* up, however late before its end, is never taken for either (107-126).     *)
StreamsAreExact ==
    /\ \/ IsPrefix(child.given, Said(child.text))
       \/ child.outcome \in {"failed", "limited", "malformed"} /\ IsPrefix(Front(child.given), Said(child.text))
    /\ child.outcome = "complete" => ~child.aborted /\ CompleteIsAll
    /\ child.outcome = "truncated" =>
         /\ ~child.aborted
         /\ child.reader = "capped" /\ Len(child.rows) + child.malformed = RowCap
    /\ child.outcome = "malformed" => child.reader = "insists" /\ ~IsRow(Last(child.given))
=============================================================================
