------------------------------- MODULE Query -------------------------------
(***************************************************************************)
(* The query of a panel (.github/extensions/actions-metrics/lib/query.mjs) *)
(* through the calls that change it: opening a canvas cold or again        *)
(* (resolveQuery in extension.mjs), the patches of the toolbar and of the  *)
(* agent (apply in instance.mjs), and the settings remembered per target.  *)
(*                                                                         *)
(* Selectors are sequences of segments, "" is an absent host. Settings     *)
(* that take part in the same identities behave alike: one stands for      *)
(* each such class, with 0 for its default and for what normalises to it.  *)
(* Letter case, and whether times parse, are left out.                     *)
(***************************************************************************)
EXTENDS Naturals, Sequences, Nothing

CONSTANTS
    Inputs,       \* what a canvas may be opened with: patches
    Patches,      \* what toolbar and agent may change
    Workspaces,   \* the repository of the workspace: [nwo, host], or None
    DefaultHost,
    Legacy,       \* settings an older version remembered, by the display form of a target:
                  \* [settings, of], `of` the target they were saved for
    MaxChanges    \* bound: opens, patches and saves

(* What names a target is split into segments.                             *)
Segments == STRING
IsNaming(in) ==
    /\ \A f \in DOMAIN in \cap {"repo", "owner"} : in[f] \in Seq(Segments)
    /\ "host" \in DOMAIN in => in["host"] \in Segments \union {""}

ASSUME QueryAssumption ==
    /\ MaxChanges \in Nat
    /\ DefaultHost \in Segments
    /\ \A in \in Inputs \union Patches : IsNaming(in)
    /\ \A w \in Workspaces \ {None} : w.nwo \in Seq(Segments) /\ w.host \in Segments \union {""}

VARIABLES
    query,      \* the query of the panel, None while it is closed
    stored,     \* the settings remembered since, by target key
    last,       \* lastTarget and lastScope, None at first
    named,      \* history: the target last named
    setFor,     \* history: what the repository patterns and the period filter were set for;
                \* patterns found in Legacy are set for whoever finds them
    input,      \* history: the input the panel was last opened cold with
    changes

queryVars == <<query, stored, last, named, setFor, input, changes>>

---------------------------------------------------------------------------
(* Fields and identities.                                                  *)
TargetFields == {"repo", "owner", "host"}

(* days stands for since, until, event, branch, workflow and maxRuns,      *)
(* patterns for includeRepos and excludeRepos, runnerType for billable.    *)
DatasetFields == TargetFields \union {"days", "patterns", "runnerType"}

(* filter stands for filterFrom and filterTo, groupBy for bucket,          *)
(* selfHostedOnly, targetWait and targetUtilization.                       *)
CollectionFields == DatasetFields \union {"filter", "labels", "groupBy"}

(* jobKind stands for topRunners and maxRows. *)
ProjectionFields == {"jobKind"}
RowFields == TargetFields \union {"days", "patterns", "filter", "labels", "rowBudget"}
PersistedFields == {"days", "patterns", "runnerType", "labels", "groupBy",
                    "jobConcurrency", "jobKind", "rowBudget"}
Fields == CollectionFields \union ProjectionFields \union RowFields \union PersistedFields

Default(f) == CASE f \in {"repo", "owner"} -> <<>> [] f = "host" -> "" [] OTHER -> 0

(* normalizeQuery *)
Normalized(in) == [f \in Fields |-> IF f \in DOMAIN in THEN in[f] ELSE Default(f)]

Pick(q, fields) == [f \in fields |-> q[f]]
DatasetQueryId(q) == Pick(q, DatasetFields)
PersistedOf(q) == Pick(q, PersistedFields)

---------------------------------------------------------------------------
(* Targets.                                                                *)
ScopeOf(q) == IF q.repo = <<>> /\ q.owner # <<>> THEN "org" ELSE "repo"
SelectorField(q) == IF ScopeOf(q) = "org" THEN "owner" ELSE "repo"
Selector(q) == q[SelectorField(q)]
Parts(scope) == IF scope = "org" THEN 1 ELSE 2

(* A host is what stands before the expected number of segments. *)
SplitHost(selector, parts) ==
    IF Len(selector) = parts + 1
      THEN [host |-> Head(selector), path |-> Tail(selector)]
      ELSE [host |-> "", path |-> selector]
SplitOf(q) == SplitHost(Selector(q), Parts(ScopeOf(q)))

HostOr(host, otherwise) == IF host = "" THEN otherwise ELSE host
QueryHost(q) == HostOr(q.host, HostOr(SplitOf(q).host, DefaultHost))

(* formatQuery: the display form. *)
FormatQuery(q) ==
    IF QueryHost(q) = DefaultHost THEN SplitOf(q).path ELSE <<QueryHost(q)>> \o SplitOf(q).path

TargetKey(q) == <<ScopeOf(q), FormatQuery(q)>>

(* ownerKeyOf: the patterns are over the repositories of one owner. *)
OwnerKey(q) == <<QueryHost(q), SubSeq(SplitOf(q).path, 1, 1)>>

(* validateQuery, as far as the target. *)
Valid(q) ==
    /\ q.repo = <<>> \/ q.owner = <<>>
    /\ Selector(q) # <<>>
    /\ Len(SplitOf(q).path) = Parts(ScopeOf(q))
    /\ SplitOf(q).host \in {"", HostOr(q.host, SplitOf(q).host)}

(* Mutant: a selector keeps the host stated in it. *)
CanonicalSelector(q) == [q EXCEPT !.host = IF @ = DefaultHost THEN "" ELSE @]

(* canonicalizeQuery: the host is stated once, the default one not at all. *)
Canonical(q) ==
    LET host == HostOr(SplitOf(q).host, q.host)
    IN  [f \in Fields |-> IF f = "host" THEN IF host = DefaultHost THEN "" ELSE host
                         ELSE IF f = SelectorField(q) THEN SplitOf(q).path ELSE q[f]]

---------------------------------------------------------------------------
(* Patches.                                                                *)

(* An empty selector reads as "not stated". *)
Stated(patch) == {f \in DOMAIN patch : f \in {"repo", "owner"} => patch[f] # <<>>}

(* A new selector takes the other's place, and brings its own host. *)
Retargeted(q, patch) ==
    [f \in Fields |->
        IF f \in Stated(patch) THEN patch[f]
        ELSE IF f = "owner" /\ "repo" \in Stated(patch) THEN <<>>
        ELSE IF f = "repo" /\ "owner" \in Stated(patch) THEN <<>>
        ELSE IF f = "host" /\ Stated(patch) \cap {"repo", "owner"} # {} /\ "host" \notin DOMAIN patch THEN ""
        ELSE q[f]]

(* Repository patterns do not outlive the owner they were written for. *)
PatternsKept(q, next, patch) ==
    IF OwnerKey(next) # OwnerKey(q) /\ "patterns" \notin DOMAIN patch
      THEN [next EXCEPT !.patterns = 0] ELSE next

(* Mutant: a period filter is cleared for another target only. *)
FilterUnlessMoved(q, next, patch) ==
    IF TargetKey(next) # TargetKey(q) /\ "filter" \notin DOMAIN patch
      THEN [next EXCEPT !.filter = 0] ELSE next

(* A period filter does not outlive the dataset it filters. *)
FilterKept(q, next, patch) ==
    IF DatasetQueryId(next) # DatasetQueryId(q) /\ "filter" \notin DOMAIN patch
      THEN [next EXCEPT !.filter = 0] ELSE next

(* applyQueryPatch *)
Patched(q, patch) ==
    LET retargeted == Retargeted(q, patch)
        next == PatternsKept(q, retargeted, patch)
    IN FilterKept(q, next, patch)

(* What is remembered of a target. A repository and an organization on a    *)
(* host may be displayed alike: an older version kept one entry for both.   *)
IsRemembered(q) == TargetKey(q) \in DOMAIN stored \/ FormatQuery(q) \in DOMAIN Legacy

(* Mutant: the display form is looked up first. *)
RecalledByDisplay(q) ==
    IF FormatQuery(q) \in DOMAIN Legacy THEN Legacy[FormatQuery(q)] ELSE stored[TargetKey(q)]

Recalled(q) == IF TargetKey(q) \in DOMAIN stored THEN stored[TargetKey(q)] ELSE Legacy[FormatQuery(q)]

(* The remembered settings an input leaves unstated. *)
Remembered(in, q) ==
    IF IsRemembered(q)
      THEN Pick(Recalled(q).settings, (PersistedFields \cap DOMAIN Recalled(q).settings) \ DOMAIN in)
      ELSE <<>>

(* resolveQuery, opening cold: the input, its target from the workspace or *)
(* the last one used where it states none, and the remembered settings.    *)
Materialized(in, workspace) ==
    LET q == Normalized(in) IN
    IF {"repo", "owner"} \cap Stated(in) # {} THEN q
    ELSE IF workspace # None THEN [q EXCEPT !.repo = workspace.nwo, !.host = workspace.host]
    ELSE IF last = None THEN q
    ELSE IF last.scope = "org" THEN [q EXCEPT !.owner = last.target]
    ELSE [q EXCEPT !.repo = last.target]
Opened(in, workspace) ==
    LET q == Canonical(Materialized(in, workspace)) IN Canonical(Patched(q, Remembered(in, q)))

---------------------------------------------------------------------------
(* History: what is named, and what a pattern or a filter was written for. *)
TargetNamed(in, host, was) ==
    LET Of(scope, selector) ==
            LET split == SplitHost(selector, Parts(scope)) IN
            [scope |-> scope, host |-> HostOr(split.host, HostOr(host, DefaultHost)), path |-> split.path]
    IN IF "repo" \in Stated(in) THEN Of("repo", in.repo)
       ELSE IF "owner" \in Stated(in) THEN Of("org", in.owner)
       ELSE IF "host" \in DOMAIN in THEN [was EXCEPT !.host = HostOr(host, DefaultHost)] ELSE was
HostIn(in) == IF "host" \in DOMAIN in THEN in.host ELSE ""

WrittenFor(was, in, next) ==
    [patterns |-> IF "patterns" \in DOMAIN in THEN OwnerKey(next) ELSE was.patterns,
     filter |-> IF "filter" \in DOMAIN in THEN DatasetQueryId(next) ELSE was.filter]

---------------------------------------------------------------------------
QueryInit ==
    /\ query = None /\ stored = <<>> /\ last = None
    /\ named = None /\ setFor = [patterns |-> None, filter |-> None]
    /\ input = <<>>
    /\ changes = 0

Change == changes < MaxChanges /\ changes' = changes + 1

(* Open a canvas; a query that does not validate is refused. *)
Open(in, workspace) ==
    /\ Change
    /\ query = None
    /\ Valid(Materialized(in, workspace))
    /\ LET base == Canonical(Materialized(in, workspace))
           next == Opened(in, workspace)
           from == IF {"repo", "owner"} \cap Stated(in) # {} THEN TargetNamed(in, HostIn(in), None)
                   ELSE IF workspace # None THEN TargetNamed([repo |-> workspace.nwo], workspace.host, None)
                   ELSE TargetNamed(IF last.scope = "org" THEN [owner |-> last.target]
                                                          ELSE [repo |-> last.target], HostIn(in), None)
       IN /\ query' = next
          /\ named' = from
          /\ setFor' = WrittenFor(
                [setFor EXCEPT !.patterns = IF TargetKey(base) \in DOMAIN stored
                    THEN stored[TargetKey(base)].patterns ELSE OwnerKey(base)], in, next)
    /\ input' = in
    /\ UNCHANGED <<stored, last>>

(* Open it again, or apply a patch: what is in force is patched. *)
ApplyPatch(in) ==
    /\ Change
    /\ query # None
    /\ Valid(Patched(query, in))
    /\ query' = Canonical(Patched(query, in))
    /\ named' = TargetNamed(in, HostIn(in), named)
    /\ setFor' = WrittenFor(setFor, in, query')
    /\ input' = <<>>
    /\ UNCHANGED <<stored, last>>

(* rememberFilters, once a collection is ready. *)
Remember ==
    /\ Change
    /\ query # None
    /\ stored' = [k \in DOMAIN stored \union {TargetKey(query)} |->
                    IF k = TargetKey(query)
                      THEN [settings |-> PersistedOf(query), of |-> named, patterns |-> setFor.patterns]
                      ELSE stored[k]]
    /\ last' = [target |-> FormatQuery(query), scope |-> ScopeOf(query)]
    /\ UNCHANGED <<query, named, setFor, input>>

Close ==
    /\ query # None
    /\ query' = None
    /\ UNCHANGED <<stored, last, named, setFor, input, changes>>

QueryNext ==
    \/ \E in \in Inputs, workspace \in Workspaces : Open(in, workspace)
    \/ \E in \in Inputs \union Patches : ApplyPatch(in)
    \/ Remember
    \/ Close

QuerySpec == QueryInit /\ [][QueryNext]_queryVars

---------------------------------------------------------------------------
(* The panel shows the target last named, whichever way it was spelled,    *)
(* and by one spelling only: what the store keys its entry by.             *)
TargetIsAsNamed ==
    query # None =>
        /\ [scope |-> ScopeOf(query), host |-> QueryHost(query), path |-> SplitOf(query).path] = named
        /\ Valid(query) /\ Canonical(query) = query

(* Settings are kept under the key of a target exactly when they were     *)
(* saved for it (two targets never share a key, nor one two), and a target *)
(* that has been saved finds its own again. Only one that has not may find *)
(* what an older version remembered of another that is displayed alike.    *)
KeysAreOfTheTarget ==
    query # None =>
        /\ \A key \in DOMAIN stored : (key = TargetKey(query)) <=> (stored[key].of = named)
        /\ (\E key \in DOMAIN stored : stored[key].of = named) => Recalled(query).of = named

(* What was written for one target is not in force for another, over any  *)
(* chain of switches, saves and openings: repository patterns belong to    *)
(* the owner and host they were written for, or for which they were found  *)
(* among what an older version remembered; a period filter belongs to the  *)
(* dataset it was set on.                                                  *)
FiltersAreOfTheirTarget ==
    /\ query # None /\ query.patterns # 0 => setFor.patterns = OwnerKey(query)
    /\ query # None /\ query.filter # 0 => setFor.filter = DatasetQueryId(query)

(* Invariant: what is in force and what is remembered belongs to the target. *)
SettingsAreOfTheTarget == KeysAreOfTheTarget /\ FiltersAreOfTheirTarget

(* "applied under the input, so a stored value can neither resurrect a     *)
(* target nor override an explicit one": every setting a cold opening      *)
(* states is in force.                                                     *)
StatedIsInForce ==
    query # None => \A f \in DOMAIN input \ TargetFields : query[f] = input[f]
=============================================================================
