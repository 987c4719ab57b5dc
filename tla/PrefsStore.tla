---------------------------- MODULE PrefsStore ----------------------------
(***************************************************************************)
(* The dashboard's preferences file                                        *)
(* (.github/extensions/actions-metrics/lib/prefs.mjs): a cache loaded once *)
(* per process, updates merged into it, and a chain of writes that puts    *)
(* every merged value on disk.                                             *)
(*                                                                         *)
(* A value is known by the call that wrote it, and calls are numbered in   *)
(* the order they were made, so the larger of two values is the newer one. *)
(* lastTarget and lastScope, which one call always writes together, are    *)
(* left out; so is the file's spelling. Step settings come from one panel: *)
(* the code does not order two panels on one target.                       *)
(***************************************************************************)
EXTENDS Naturals, Sequences, Nothing

CONSTANTS
    Identities,      \* target identities
    MaxCalls,     \* bound: calls of rememberFilters and rememberStepSettings
    MaxRestarts,  \* bound: ends of the process
    Torn          \* disk: a file that does not parse

ASSUME PrefsAssumption == MaxCalls \in Nat /\ MaxRestarts \in Nat

VARIABLES
    cache,      \* the merged preferences, or None
    loading,    \* the cold read: no, reading or done
    disk,       \* what the file says
    writes,     \* the chain: values to be written, the first perhaps begun
    writing,    \* the first write of the chain has opened the file
    failed,     \* the last write that ended has failed (history)
    save,       \* save[k]: a suspended call
    made,       \* number of calls made so far
    latest,     \* the panel's newest step request (its stepGeneration)
    restarts

prefsVars == <<cache, loading, disk, writes, writing, failed, save, made, latest, restarts>>

Saves == 1 .. MaxCalls
Prefs == [filters : [Identities -> 0 .. MaxCalls], steps : [Identities -> 0 .. MaxCalls]]
Empty == [filters |-> [t \in Identities |-> 0], steps |-> [t \in Identities |-> 0]]

ASSUME PrefsValues == None \notin Prefs /\ Torn \notin Prefs

NoSaves == [k \in Saves |-> [pc |-> "none"]]

(* A first start finds no file, which reads as one that does not parse. *)
PrefsInit ==
    /\ cache = None /\ loading = "no"
    /\ disk = Torn
    /\ writes = <<>> /\ writing = FALSE /\ failed = FALSE
    /\ save = NoSaves
    /\ made = 0 /\ latest = 0
    /\ restarts = 0

(* readPrefs: a file that cannot be read or parsed is an empty one. *)
ReadBack(d) == IF d = Torn THEN Empty ELSE d

---------------------------------------------------------------------------
(* loadPrefs: the first caller to find no cache starts the one cold read.  *)
LoadPrefs ==
    /\ loading = "no"
    /\ loading' = "reading"
    /\ UNCHANGED <<cache, disk, writes, writing, failed, save, made, latest, restarts>>

Ask(kind, t) ==
    /\ made < MaxCalls
    /\ made' = made + 1
    /\ save' = [save EXCEPT ![made + 1] =
                  [pc |-> "load", kind |-> kind, target |-> t, snapshot |-> Empty.filters]]
    /\ latest' = IF kind = "steps" THEN made + 1 ELSE latest
    /\ loading' = IF loading = "no" THEN "reading" ELSE loading
    /\ UNCHANGED <<cache, disk, writes, writing, failed, restarts>>

Loaded ==
    /\ loading = "reading"
    /\ loading' = "done"
    /\ cache' = IF cache = None THEN ReadBack(disk) ELSE cache
    /\ UNCHANGED <<disk, writes, writing, failed, save, made, latest, restarts>>

(* rememberFilters goes on: it reads the map now, and savePrefs awaits     *)
(* loadPrefs once more before it merges.                                   *)
Snapshots(k) ==
    /\ save[k].pc = "load" /\ save[k].kind = "filters"
    /\ cache # None
    /\ save' = [save EXCEPT ![k].pc = "reload", ![k].snapshot = cache.filters]
    /\ UNCHANGED <<cache, loading, disk, writes, writing, failed, made, latest, restarts>>

(* commitPrefs: merge and queue the write, in one synchronous step.        *)
CommitPrefs(k, merged) ==
    /\ cache' = merged
    /\ writes' = Append(writes, merged)
    /\ save' = [save EXCEPT ![k].pc = "saving"]
    /\ UNCHANGED <<loading, disk, writing, failed, made, latest, restarts>>

(* `{ ...current.filtersByTarget, [identity]: filters }` merged over the   *)
(* cache: every entry of the snapshot overrides the cache's, but those the *)
(* snapshot had none of.                                                   *)
SavesFilters(k) ==
    LET update == [save[k].snapshot EXCEPT ![save[k].target] = k] IN
    /\ save[k].pc = "reload"
    /\ CommitPrefs(k, [cache EXCEPT !.filters =
           [t \in Identities |-> IF update[t] # 0 THEN update[t] ELSE cache.filters[t]]])

(* rememberStepSettings goes on: isCurrent() is asked in the step that     *)
(* merges, so a superseded request changes nothing.                        *)
SavesSteps(k) ==
    /\ save[k].pc = "load" /\ save[k].kind = "steps"
    /\ cache # None
    /\ IF latest = k
         THEN CommitPrefs(k, [cache EXCEPT !.steps[save[k].target] = k])
         ELSE /\ save' = [save EXCEPT ![k] = [pc |-> "none"]]
              /\ UNCHANGED <<cache, loading, disk, writes, writing, failed, made, latest, restarts>>

---------------------------------------------------------------------------
(* The chain: one write at a time, in the order they were queued.          *)

(* Mutant: writes are issued in parallel, and any of them may be next. *)
WriteBeginsAny ==
    /\ ~writing /\ writes # <<>>
    /\ \E i \in 1 .. Len(writes) :
         writes' = <<writes[i]>> \o SubSeq(writes, 1, i - 1) \o SubSeq(writes, i + 1, Len(writes))
    /\ writing' = TRUE /\ disk' = Torn
    /\ UNCHANGED <<cache, loading, failed, save, made, latest, restarts>>

(* writeFile truncates the file before it writes. *)
WriteBegins ==
    /\ ~writing /\ writes # <<>>
    /\ writing' = TRUE
    /\ disk' = Torn
    /\ UNCHANGED <<cache, loading, writes, failed, save, made, latest, restarts>>

(* The callers that wait for the write go on, whether it failed or not. *)
Answered(v) ==
    [k \in Saves |->
        IF save[k].pc = "saving" /\ v[save[k].kind][save[k].target] = k
          THEN [pc |-> "none"] ELSE save[k]]

WriteEnds ==
    /\ writing
    /\ disk' = Head(writes)
    /\ writes' = Tail(writes) /\ writing' = FALSE /\ failed' = FALSE
    /\ save' = Answered(Head(writes))
    /\ UNCHANGED <<cache, loading, made, latest, restarts>>

(* Mutant: the caller whose write failed is left waiting. *)
WriteFailsUntold ==
    /\ writes # <<>>
    /\ writes' = Tail(writes) /\ writing' = FALSE /\ failed' = TRUE
    /\ UNCHANGED <<cache, loading, disk, save, made, latest, restarts>>

(* mkdir fails before the file is opened, or the write fails after. *)
WriteFails ==
    /\ writes # <<>>
    /\ writes' = Tail(writes) /\ writing' = FALSE /\ failed' = TRUE
    /\ save' = Answered(Head(writes))
    /\ UNCHANGED <<cache, loading, disk, made, latest, restarts>>

(* The process ends, in the middle of a write or not, and is started       *)
(* again: what was queued is lost, and so is the file that was being       *)
(* written.                                                                *)
Restarts ==
    /\ restarts < MaxRestarts
    /\ restarts' = restarts + 1
    /\ cache' = None /\ loading' = "no"
    /\ writes' = <<>> /\ writing' = FALSE /\ failed' = FALSE
    /\ save' = NoSaves
    /\ UNCHANGED <<disk, made, latest>>

CallStep(k) == Snapshots(k) \/ SavesFilters(k) \/ SavesSteps(k)

PrefsNext ==
    \/ \E kind \in {"filters", "steps"}, t \in Identities : Ask(kind, t)
    \/ LoadPrefs \/ Loaded
    \/ \E k \in Saves : CallStep(k)
    \/ WriteBegins \/ WriteEnds \/ WriteFails
    \/ Restarts

PrefsSafety == PrefsInit /\ [][PrefsNext]_prefsVars

(* The file system answers; nothing has to be asked for, fail or end. *)
PrefsFairness ==
    /\ WF_prefsVars(Loaded)
    /\ \A k \in Saves : WF_prefsVars(CallStep(k))
    /\ WF_prefsVars(WriteBegins)
    /\ WF_prefsVars(WriteEnds \/ (writing /\ WriteFails))

PrefsSpec == PrefsSafety /\ PrefsFairness

---------------------------------------------------------------------------
(* Once the chain is empty the file says what the cache says, so the value *)
(* on disk is never an older one (prefs.mjs:27), also right after a        *)
(* restart that found a torn file.                                         *)
DiskFollowsCache ==
    writes = <<>> /\ cache # None /\ ~failed => ReadBack(disk) = cache

(* A call that waits to be saved is answered, although writes before it or *)
(* its own may fail (prefs.mjs:83).                                        *)
CallsAreAnswered ==
    \A k \in Saves : save[k].pc # "none" ~> save[k].pc = "none"

(* CONTRADICTED by the code: see the run that expects a violation.         *)
(* The comment at prefs.mjs:66: an update for one target does not drop     *)
(* what another call has merged for a different one.                       *)
OthersKeepTheirFilters ==
    [][\A k \in Saves : SavesFilters(k) =>
          \A t \in Identities \ {save[k].target} : cache'.filters[t] = cache.filters[t]]_prefsVars

===========================================================================
