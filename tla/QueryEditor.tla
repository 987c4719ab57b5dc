---------------------------- MODULE QueryEditor ----------------------------
(***************************************************************************)
(* The two editors of the query                                            *)
(* (.github/extensions/actions-metrics/public/query.js with the values of  *)
(* shared/fields.mjs and the periods of shared/period.mjs): drafts that    *)
(* are edited, kept while the live query changed under them, and applied   *)
(* by a post that the panel handles later.                                 *)
(*                                                                         *)
(* One field stands for each kind: days is collected anew, filter is a     *)
(* period of the dataset, jobKind reads it another way. The collection     *)
(* editor holds days, the display editor the others.                       *)
(***************************************************************************)
EXTENDS Integers, FiniteSets, Nothing

CONSTANTS
    Addresses,
    Values,        \* what days and jobKind may be
    Presets,       \* the windows the presets request
    Coverages,     \* the windows a collection may cover
    MaxEdits,      \* bound: edits and applications of drafts
    MaxChanged     \* bound: changes from elsewhere

Windows == Presets \union Coverages
ASSUME EditorAssumption ==
    /\ \A w \in Windows : w.from \in Nat /\ w.to \in Nat /\ w.from < w.to
    /\ MaxEdits \in Nat /\ MaxChanged \in Nat

VARIABLES
    live,     \* the panel: target, filters, coverage (None while it collects)
    tab,      \* the panel state the browser holds
    draft,    \* draft[e]: edited, baseline, conflicts, preset, and (history) seen
    post,     \* post[e]: the application of a draft under way
    edits, changed

editorVars == <<live, tab, draft, post, edits, changed>>

Editors == {"collection", "display"}
FieldsOf(e) == IF e = "collection" THEN {"days"} ELSE {"filter", "jobKind"}

---------------------------------------------------------------------------
(* Periods.                                                                *)
Inside(w, coverage) == coverage.from <= w.from /\ w.to <= coverage.to

Higher(a, b) == IF a > b THEN a ELSE b
Lower(a, b) == IF a < b THEN a ELSE b

(* periodPreset: what is collected of the window asked for. *)
PresetWindow(w, coverage) == [from |-> Higher(w.from, coverage.from), to |-> Lower(w.to, coverage.to)]

Available(w, coverage) == PresetWindow(w, coverage).from < PresetWindow(w, coverage).to

(* filteredWindow, through apply(): a filter stays within the dataset. *)
Accepted(patch) ==
    "filter" \in DOMAIN patch /\ patch.filter # None =>
        live.coverage # None /\ Inside(patch.filter, live.coverage)

---------------------------------------------------------------------------
(* Drafts.                                                                 *)
Dropped(f, names) == [n \in DOMAIN f \ names |-> f[n]]
With(f, n, v) == [m \in DOMAIN f \union {n} |-> IF m = n THEN v ELSE f[m]]

Clean == [edited |-> <<>>, baseline |-> <<>>, conflicts |-> {}, preset |-> None, seen |-> <<>>]

(* recordValue: the first edit of a field keeps the value it started from. *)
Recorded(d, f, value) ==
    IF value = tab.filters[f]
      THEN [d EXCEPT !.edited = Dropped(@, {f}), !.baseline = Dropped(@, {f}), !.conflicts = @ \ {f}]
      ELSE [d EXCEPT !.edited = With(@, f, value),
                     !.baseline = IF f \in DOMAIN @ THEN @ ELSE With(@, f, tab.filters[f]),
                     !.seen = IF f \in DOMAIN d.edited THEN @ ELSE With(@, f, tab.filters[f])]

(* Mutant: a conflict is a live value that changed just now. *)
ConflictsNew(d, s) ==
    {f \in DOMAIN d.edited : s.filters[f] \notin {d.edited[f], tab.filters[f]}}
Conflicts(d, s) ==
    {f \in DOMAIN d.edited : s.filters[f] \notin {d.edited[f], d.baseline[f]}}

(* render(), one editor: another target discards the draft, and a draft    *)
(* that the live query has come to agree with is none.                     *)
Rendered(d, s) ==
    IF s.target # tab.target THEN Clean
    ELSE LET settled == {f \in DOMAIN d.edited : d.edited[f] = s.filters[f]}
             kept == [d EXCEPT !.edited = Dropped(@, settled), !.baseline = Dropped(@, settled)]
             shown == IF "filter" \in DOMAIN kept.edited THEN kept.edited.filter ELSE s.filters.filter
         IN [kept EXCEPT !.conflicts = Conflicts(kept, s), !.preset = IF @ = None THEN None ELSE IF @.values = shown THEN @ ELSE None]

TakeState(s) == tab' = s /\ draft' = [e \in Editors |-> Rendered(draft[e], s)]

Edit == edits < MaxEdits /\ edits' = edits + 1
Applying == \E e \in Editors : post[e] # None
CoverageUnavailable(s) == s.coverage = None

(* A period that is typed is not the preset chosen before. *)
Unset(d, f) == [d EXCEPT !.preset = IF f = "filter" THEN None ELSE @]

(* A control is edited; those of an editor that is applying are disabled. *)
EditField(e, f, value) ==
    /\ Edit
    /\ post[e] = None
    /\ e = "display" => ~CoverageUnavailable(tab)
    /\ draft' = [draft EXCEPT ![e] = Rendered(Unset(Recorded(@, f, value), f), tab)]
    /\ UNCHANGED <<live, tab, post, changed>>

(* A preset of the dataset fills the draft with what is collected of it. *)
ChoosePreset(w) ==
    /\ Edit
    /\ post.display = None
    /\ tab.coverage # None /\ Available(w, tab.coverage)
    /\ LET window == PresetWindow(w, tab.coverage) IN
       draft' = [draft EXCEPT !.display = Rendered([Recorded(@, "filter", window) EXCEPT
                    !.preset = [values |-> window, coverage |-> tab.coverage]], tab)]
    /\ UNCHANGED <<live, tab, post, changed>>

Reset(e) ==
    /\ post[e] = None /\ DOMAIN draft[e].edited # {}
    /\ draft' = [draft EXCEPT ![e] = Clean]
    /\ UNCHANGED <<live, tab, post, edits, changed>>

(* The form is submitted: the draft is the patch. *)
Submit(e) ==
    /\ Edit
    /\ ~Applying
    /\ DOMAIN draft[e].edited # {}
    /\ e = "display" => ~CoverageUnavailable(tab)
    /\ post' = [post EXCEPT ![e] = [pc |-> "sent", patch |-> draft[e].edited, answer |-> None,
                                   target |-> tab.target,
                                   preset |-> draft[e].preset]]
    /\ UNCHANGED <<live, tab, draft, changed>>

(* POST /api/filters: new days are another dataset, without its filter.    *)
PatchedLive(patch) ==
    LET moved == "days" \in DOMAIN patch /\ patch.days # live.filters.days
        filters == [f \in DOMAIN live.filters |->
                      IF f \in DOMAIN patch THEN patch[f]
                      ELSE IF f = "filter" /\ moved THEN None ELSE live.filters[f]]
    IN [live EXCEPT !.filters = filters, !.coverage = IF moved THEN None ELSE @]

Handle(e) ==
    /\ post[e] # None /\ post[e].pc = "sent"
    /\ LET accepted == Accepted(post[e].patch) IN
       /\ live' = IF accepted THEN PatchedLive(post[e].patch) ELSE live
       /\ post' = [post EXCEPT ![e].pc = IF accepted THEN "applied" ELSE "refused", ![e].answer = live']
    /\ UNCHANGED <<tab, draft, edits, changed>>

(* Its reply: the state is taken, the draft has been applied and closes;   *)
(* a refused one stays.                                                    *)
SeeReply(e) ==
    /\ post[e] # None /\ post[e].answer # None
    /\ IF post[e].pc = "applied"
         THEN /\ tab' = post[e].answer
              /\ draft' = [[g \in Editors |-> Rendered(draft[g], post[e].answer)] EXCEPT
                             ![e] = [Clean EXCEPT !.preset = Rendered(draft[e], post[e].answer).preset]]
         ELSE UNCHANGED <<tab, draft>>
    /\ post' = [post EXCEPT ![e] = None]
    /\ UNCHANGED <<live, edits, changed>>

(* A frame of the event stream. *)
SeeFrame ==
    /\ tab # live
    /\ TakeState(live)
    /\ UNCHANGED <<live, post, edits, changed>>

ChangeElsewhere == changed < MaxChanged /\ changed' = changed + 1

(* Another panel, or the agent, changed the query or the target; a         *)
(* collection arrives.                                                     *)
Elsewhere(patch) ==
    /\ ChangeElsewhere
    /\ Accepted(patch)
    /\ live' = PatchedLive(patch)
    /\ UNCHANGED <<tab, draft, post, edits>>
MoveTo(t) ==
    /\ ChangeElsewhere
    /\ t # live.target
    /\ live' = [live EXCEPT !.target = t, !.filters.filter = None, !.coverage = None]
    /\ UNCHANGED <<tab, draft, post, edits>>
Collected(coverage) ==
    /\ live.coverage = None
    /\ live' = [live EXCEPT !.coverage = coverage]
    /\ UNCHANGED <<tab, draft, post, edits, changed>>

FirstState == [target |-> CHOOSE t \in Addresses : TRUE, coverage |-> None,
               filters |-> [days |-> 0, filter |-> None, jobKind |-> 0]]

EditorInit ==
    /\ live = FirstState /\ tab = FirstState
    /\ draft = [e \in Editors |-> Clean]
    /\ post = [e \in Editors |-> None]
    /\ edits = 0 /\ changed = 0

Typed ==
    \/ \E v \in Values : EditField("collection", "days", v) \/ EditField("display", "jobKind", v)
    \/ \E w \in Windows \union {None} : EditField("display", "filter", w)
Moved ==
    \/ \E v \in Values : Elsewhere([days |-> v])
    \/ \E w \in Coverages \union {None} : Elsewhere([filter |-> w])
    \/ \E t \in Addresses : MoveTo(t)
    \/ \E w \in Coverages : Collected(w)

EditorNext ==
    \/ Typed
    \/ \E w \in Presets : ChoosePreset(w)
    \/ \E e \in Editors : Reset(e) \/ Submit(e) \/ Handle(e) \/ SeeReply(e)
    \/ SeeFrame
    \/ Moved

EditorSpec == EditorInit /\ [][EditorNext]_editorVars

---------------------------------------------------------------------------
(* A field of a draft is shown as changed elsewhere exactly when its live  *)
(* value is no longer the one the reader started from: nothing is          *)
(* overwritten unannounced, over any run of edits and states.              *)
OverwritesAreAnnounced ==
    \A e \in Editors : \A f \in DOMAIN draft[e].edited :
        (f \in draft[e].conflicts) <=> (tab.filters[f] # draft[e].seen[f])

=============================================================================
