----------------------------- MODULE RunnerTable -----------------------------
(* The table of every runner a projection observed                           *)
(* (.github/extensions/actions-metrics: runnerFilterCard() and               *)
(* requestRunnerPage() of public/app.js, runnerPage() of lib/instance.mjs    *)
(* and shared/sort.mjs).                                                     *)
(*                                                                           *)
(* The ranking stays in the extension, under the identity of its projection; *)
(* the browser shows a page of it, and asks for another when the search, the *)
(* order, the page or the projection changes. A ranking is a sequence of     *)
(* rows, by the names of their runners (r = 1, 2, ...) in it.                *)
EXTENDS Nothing, Integers, FiniteSetsExt, SequencesExt

CONSTANTS
    Rankings,       \* rankings a projection may have
    Needles,        \* searches: sets of the runners whose name contains the text
    SortColumns,    \* columns the table is sorted by
    PageSize,
    MaxProjections, MaxRequests  \* bounds: projections, requests

RankedRows == UNION {Range(ranking) : ranking \in Rankings}
Value(row, key) == IF key = "runner" THEN row.r ELSE row[key]
Criteria == [key : SortColumns, down : BOOLEAN]
Pages ==
    [projection : Nat, search : SUBSET Int, sorts : Seq(Criteria), offset : Nat, matched : Nat, rows : Seq(RankedRows)]

(* A ranking has each runner once, with a number in every column; one may    *)
(* sort by the time, as the browser does at first.                           *)
ASSUME TableAssumption ==
    /\ Rankings \subseteq Seq(RankedRows)
    /\ \A row \in RankedRows : row.r \in Int /\ \A key \in SortColumns : Value(row, key) \in Int
    /\ \A ranking \in Rankings : IsInjective([i \in DOMAIN ranking |-> ranking[i].r])
    /\ Needles \subseteq SUBSET Int
    /\ IsFiniteSet(SortColumns) /\ "time" \in SortColumns
    /\ PageSize \in Nat \ {0} /\ MaxProjections \in Nat /\ MaxRequests \in Nat
    /\ None \notin Nat \union Rankings \union Pages

VARIABLES
    ranked,     \* the extension's projection and its ranking, or None
    table,      \* the browser's table
    requests,   \* requests and answers under way
    debounce    \* the request the timer will send, or None

tableVars == <<ranked, table, requests, debounce>>

Everyone == {row.r : row \in RankedRows}

TableInit ==
    /\ ranked = [id |-> 0, rows |-> None]
    /\ table = [projection |-> None, search |-> Everyone, sorts |-> <<[key |-> "time", down |-> TRUE]>>,
                offset |-> 0, seq |-> 0, page |-> None, error |-> FALSE]
    /\ requests = {} /\ debounce = None

---------------------------------------------------------------------------
(* shared/sort.mjs. A click on a heading sorts by it, the other way when it  *)
(* is the first criterion already; with the key held it joins the criteria,  *)
(* is turned, and leaves them at the third.                                  *)
Turned(criterion, first) == [criterion EXCEPT !.down = ~first]
ToggleSort(sorts, key, first, append) ==
    LET at == SelectInSeq(sorts, LAMBDA c : c.key = key)
        fresh == [key |-> key, down |-> first]
    IN  IF at = 0 THEN IF append THEN Append(sorts, fresh) ELSE <<fresh>>
        ELSE IF ~append THEN IF at = 1 /\ sorts[1].down = first THEN <<Turned(sorts[1], first)>> ELSE <<fresh>>
        ELSE IF sorts[at].down = first THEN ReplaceAt(sorts, at, Turned(sorts[at], first))
        ELSE RemoveAt(sorts, at)

(* validateSorts: every column at most once.                                 *)
ValidSorts(sorts) == Len(sorts) <= Cardinality(SortColumns) /\ IsInjective([i \in DOMAIN sorts |-> sorts[i].key])

(* The first criterion that tells two rows apart, then their names.          *)
Earlier(a, b, sorts) ==
    LET Tells(i) == Value(a, sorts[i].key) # Value(b, sorts[i].key)
    IN  \/ \E i \in DOMAIN sorts :
              /\ Tells(i) /\ \A j \in 1 .. i - 1 : ~Tells(j)
              /\ IF sorts[i].down THEN Value(a, sorts[i].key) > Value(b, sorts[i].key)
                 ELSE Value(a, sorts[i].key) < Value(b, sorts[i].key)
        \/ a.r < b.r /\ \A i \in DOMAIN sorts : ~Tells(i)
SortedBy(found, sorts) ==
    CHOOSE s \in [1 .. Cardinality(found) -> found] : \A i, j \in DOMAIN s : i < j => Earlier(s[i], s[j], sorts)

(* runnerPage(): search, then sort, then cut. A page of a projection that    *)
(* was replaced is refused.                                                  *)
RunnerPage(rows, q) ==
    LET sorted == SortedBy({row \in Range(rows) : row.r \in q.search}, q.sorts)
    IN  [projection |-> q.projection, search |-> q.search, sorts |-> q.sorts, offset |-> q.offset,
         matched |-> Len(sorted), rows |-> SubSeq(sorted, q.offset + 1, Min({q.offset + PageSize, Len(sorted)}))]

(* The extension: a projection is made, or the one there was is dropped.     *)
ProjectRunners ==
    /\ ranked.id < MaxProjections
    /\ \E rows \in Rankings : ranked' = [id |-> ranked.id + 1, rows |-> rows]
    /\ UNCHANGED <<table, requests, debounce>>

DropProjection ==
    /\ ranked.rows # None
    /\ ranked' = [ranked EXCEPT !.rows = None]
    /\ UNCHANGED <<table, requests, debounce>>

Serve(q) ==
    /\ ~q.served
    /\ requests' = (requests \ {q}) \union {[q EXCEPT !.served = TRUE, !.page =
           IF ranked.rows = None \/ ranked.id # q.projection \/ ~ValidSorts(q.sorts) THEN None
           ELSE RunnerPage(ranked.rows, q)]}
    /\ UNCHANGED <<ranked, table, debounce>>

---------------------------------------------------------------------------
(* requestRunnerPage(): the requests before this one are aborted, and count  *)
(* no more from here on, not from when the timer fires.                      *)
Asked(t) == [seq |-> t.seq, projection |-> t.projection, search |-> t.search, sorts |-> t.sorts,
             offset |-> t.offset, served |-> FALSE, page |-> None]
RequestNow(t) ==
    LET t1 == [t EXCEPT !.seq = @ + 1]
    IN  /\ table' = t1 /\ debounce' = None
        /\ requests' = IF t.projection = None THEN requests ELSE requests \union {Asked(t1)}

(* Mutant: a keystroke counts from when its timer fires.                     *)
RequestWhenFired(t) ==
    /\ table' = t /\ debounce' = t.seq
    /\ UNCHANGED requests

RequestLater(t) ==
    /\ table' = [t EXCEPT !.seq = @ + 1] /\ debounce' = t.seq + 1
    /\ UNCHANGED requests

TimerFires ==
    /\ debounce # None
    /\ debounce' = None
    /\ requests' = IF debounce # table.seq \/ table.projection = None THEN requests ELSE requests \union {Asked(table)}
    /\ UNCHANGED <<ranked, table>>

Acts == table.seq < MaxRequests /\ UNCHANGED ranked
OnScreen == table.projection # None

(* A frame, of the projection in force or of one that is no longer, shows    *)
(* the card.                                                                 *)
ShowProjection ==
    /\ Acts
    /\ \E id \in (IF OnScreen THEN table.projection + 1 ELSE 1) .. ranked.id :
           RequestNow([table EXCEPT !.projection = id, !.page = None, !.offset = 0, !.error = FALSE])

SearchFor(needle) ==
    /\ Acts /\ OnScreen
    /\ RequestLater([table EXCEPT !.search = needle, !.offset = 0])

ClearSearch ==
    /\ Acts /\ OnScreen /\ table.search # Everyone
    /\ RequestNow([table EXCEPT !.search = Everyone, !.offset = 0])

SortTable(key, first, append) ==
    /\ Acts /\ table.page # None
    /\ RequestNow([table EXCEPT !.sorts = ToggleSort(table.sorts, key, first, append), !.offset = 0])

(* Previous and Next are drawn from the page that is shown, and count from   *)
(* the one that was asked for last.                                          *)
TurnPage ==
    /\ Acts /\ table.page # None /\ table.page.rows # <<>>
    /\ \/ /\ table.page.offset > 0
          /\ RequestNow([table EXCEPT !.offset = Max({0, @ - PageSize})])
       \/ /\ table.page.offset + Len(table.page.rows) < table.page.matched
          /\ RequestNow([table EXCEPT !.offset = @ + PageSize])

(* An answer: only that of the last request and of the projection shown. An  *)
(* aborted request may still be answered, or not be.                         *)
Receive(q) ==
    /\ q.served
    /\ requests' = requests \ {q}
    /\ table' = IF q.seq # table.seq THEN table
                ELSE IF q.page = None THEN [table EXCEPT !.page = None, !.error = TRUE]
                ELSE IF q.projection = table.projection THEN [table EXCEPT !.page = q.page, !.error = FALSE]
                ELSE table
    /\ UNCHANGED <<ranked, debounce>>

TableNext ==
    \/ ProjectRunners \/ DropProjection \/ ShowProjection
    \/ \E needle \in Needles : SearchFor(needle)
    \/ ClearSearch
    \/ \E key \in SortColumns, first, append \in BOOLEAN : SortTable(key, first, append)
    \/ TurnPage
    \/ TimerFires
    \/ \E q \in requests : Serve(q) \/ Receive(q)

TableSpec == TableInit /\ [][TableNext]_tableVars

---------------------------------------------------------------------------
(* SAFETY *)

Quiet == debounce = None /\ requests = {}
OfRanking == {row.r : row \in {r \in Range(ranked.rows) : r.r \in table.search}}

(* Once nothing is under way, a table of the projection in force shows the   *)
(* page its fields say - so many rows of the runners found, in their order,  *)
(* none that comes before one that was left out - and is never an error: no  *)
(* answer overtook a later one, nor came from another projection, nor landed *)
(* under a text typed since (app.js:2085-2139).                              *)
TableIsOfItsRequest ==
    /\ table.page # None => table.page.projection = table.projection
    /\ Quiet /\ ranked.rows # None /\ table.projection = ranked.id =>
         /\ ~table.error /\ table.page # None
         /\ table.page.search = table.search /\ table.page.sorts = table.sorts /\ table.page.offset = table.offset
         /\ table.page.matched = Cardinality(OfRanking)
         /\ LET shown == {row.r : row \in Range(table.page.rows)}
                Of(r) == CHOOSE row \in Range(ranked.rows) : row.r = r
                key == Head(table.sorts).key
            IN  /\ shown \subseteq OfRanking
                /\ Cardinality(shown) = Min({PageSize, Max({0, Cardinality(OfRanking) - table.offset})})
                /\ table.offset = 0 /\ table.sorts # <<>> /\ key # "runner" =>
                     \A r \in shown, other \in OfRanking \ shown :
                         IF Head(table.sorts).down THEN Of(r)[key] >= Of(other)[key] ELSE Of(r)[key] <= Of(other)[key]
=============================================================================
