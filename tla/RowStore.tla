----------------------------- MODULE RowStore -----------------------------
(***************************************************************************)
(* The registry of job-row snapshots                                       *)
(* (.github/extensions/actions-metrics/lib/rowstore.mjs) and the panels    *)
(* that read it (requestRows and rowPayload of instance.mjs).              *)
(*                                                                         *)
(* An entry object is created when a signature is first asked for and may  *)
(* be evicted later; a new object for the same signature gets a new id.    *)
(* Rows are known by the collection that read them. Progress lines and the *)
(* counters of a snapshot are left out. A panel subscribes in the same     *)
(* step in which it asks, so this model has no request without a reader.   *)
(***************************************************************************)
EXTENDS Integers, Sequences, FiniteSets, Nothing

CONSTANTS
    Panels,
    Signatures,
    MaxEntries,    \* MAX_ENTRIES
    MaxObjects,    \* bound: entry objects created
    MaxColls,      \* bound: collections started
    MaxRowTokens      \* bound: credential changes

ASSUME RowAssumption ==
    /\ MaxEntries \in Nat \ {0}
    /\ MaxObjects \in Nat /\ MaxColls \in Nat /\ MaxRowTokens \in Nat
    /\ None \notin Signatures

VARIABLES
    object,     \* object[e]: the entry objects created so far, numbered
    held,       \* this.entries: held[e] is e's place in the order of lastAccess
    coll,       \* coll[c]: a collection, numbered in the order they started
    panel,      \* panel[p]: the signature it subscribes to, and the rows it has drawn
    rowToken

rowVars == <<object, held, coll, panel, rowToken>>

Objects == 1 .. Len(object)
Held == DOMAIN held
HasObject(s) == \E e \in Held : object[e].signature = s

RowInit ==
    /\ object = <<>> /\ held = <<>> /\ coll = <<>>
    /\ panel = [p \in Panels |-> [signature |-> None, id |-> 0, revision |-> 0, rows |-> 0]]
    /\ rowToken = 0

---------------------------------------------------------------------------
(* A collection protects its entry while it runs, a panel while it reads.  *)

(* Mutant: what is on screen is not protected. *)
EvictableOffScreen(e, objects, subscribed) == objects[e].inflight = 0

Evictable(e, objects, subscribed) ==
    objects[e].inflight = 0 /\ objects[e].signature \notin subscribed

(* evict(): while the map is too large, the least recently accessed entry  *)
(* that nobody needs goes; with `over` too many, that many of them.        *)
Evicted(map, objects, subscribed) ==
    LET loose == {e \in DOMAIN map : Evictable(e, objects, subscribed)}
        over == Cardinality(DOMAIN map) - MaxEntries
        gone == {e \in loose : Cardinality({f \in loose : map[f] < map[e]}) < over} IN
    [e \in DOMAIN map \ gone |-> map[e]]

Subscriptions(panels) == {panels[p].signature : p \in Panels} \ {None}

(* lastAccess = now: e comes last, the others keep their order.            *)
Touched(map, e) ==
    LET others == DOMAIN map \ {e} IN
    [f \in others \union {e} |-> Cardinality({g \in others : f = e \/ map[g] < map[f]})]

NewEntry(s) ==
    [id |-> Len(object) + 1, signature |-> s, revision |-> 0, status |-> "idle",
     generation |-> 0, inflight |-> 0, payload |-> 0]

(* requestRows: a panel whose query has changed leaves the old signature,  *)
(* which may evict, and subscribes to the new one; then request() finds or *)
(* makes the entry, evicts, and collects unless the rows are there or on   *)
(* their way. A forced request aborts the collection it replaces.          *)
Request(p, s, force) ==
    LET moved == panel[p].signature # s
        left == [panel EXCEPT ![p].signature = IF moved THEN None ELSE @]
        map == IF moved /\ panel[p].signature # None
                     /\ panel[p].signature \notin Subscriptions(left)
                 THEN Evicted(held, object, Subscriptions(left)) ELSE held
        joined == [panel EXCEPT ![p].signature = s]
        known == \E e \in DOMAIN map : object[e].signature = s
        e == IF known THEN CHOOSE f \in DOMAIN map : object[f].signature = s
               ELSE Len(object) + 1
        objects == IF known THEN object ELSE Append(object, NewEntry(s))
        kept == Evicted(Touched(map, e), objects, Subscriptions(joined))
        answered == ~force /\ (objects[e].inflight # 0
                              \/ (objects[e].status = "ready" /\ objects[e].payload # 0))
        c == Len(coll) + 1
        generation == objects[e].generation + 1 IN
    /\ e <= MaxObjects
    /\ panel' = joined
    /\ held' = kept
    /\ IF answered
         THEN object' = objects /\ UNCHANGED coll
         ELSE /\ c <= MaxColls
              /\ object' = [objects EXCEPT ![e].status = "loading", ![e].inflight = c,
                                           ![e].generation = generation]
              /\ coll' = Append([b \in DOMAIN coll |->
                                   IF b = objects[e].inflight
                                     THEN [coll[b] EXCEPT !.pc = "aborted"] ELSE coll[b]],
                                [pc |-> "running", of |-> e, generation |-> generation,
                                 token |-> rowToken])
    /\ UNCHANGED rowToken

(* The panel is closed or pointed at another target.                       *)
Leave(p) ==
    /\ panel[p].signature # None
    /\ panel' = [panel EXCEPT ![p] = [signature |-> None, id |-> 0, revision |-> 0, rows |-> 0]]
    /\ held' = IF panel[p].signature \in Subscriptions(panel') THEN held
                 ELSE Evicted(held, object, Subscriptions(panel'))
    /\ UNCHANGED <<object, coll, rowToken>>

Current(c) == coll[c].generation = object[coll[c].of].generation

Stops(c) == coll' = [coll EXCEPT ![c].pc = "done"]

(* Mutant: the collection that has ended stays in flight. *)
FinallyInFlight(c, updated) ==
    /\ object' = updated
    /\ held' = Evicted(held, object', Subscriptions(panel))

(* The finally block of the current collection.                            *)
Finally(c, updated) ==
    /\ object' = [updated EXCEPT ![coll[c].of].inflight = 0]
    /\ held' = Evicted(held, object', Subscriptions(panel))

(* Mutant: a snapshot is replaced under the revision of the old one. *)
CommitsSameRevision(c) ==
    /\ coll[c].pc # "done"
    /\ IF Current(c)
         THEN Finally(c, [object EXCEPT ![coll[c].of].payload = c,
                                        ![coll[c].of].status = "ready"])
         ELSE UNCHANGED <<object, held>>
    /\ Stops(c)
    /\ UNCHANGED <<panel, rowToken>>

(* The rows are there: the current collection commits them under the next  *)
(* revision, a superseded one returns.                                     *)
Commits(c) ==
    /\ coll[c].pc # "done"
    /\ IF Current(c)
         THEN Finally(c, [object EXCEPT ![coll[c].of].payload = c,
                                        ![coll[c].of].revision = @ + 1,
                                        ![coll[c].of].status = "ready"])
         ELSE UNCHANGED <<object, held>>
    /\ Stops(c)
    /\ UNCHANGED <<panel, rowToken>>

CollFails(c) ==
    /\ coll[c].pc # "done"
    /\ IF Current(c)
         THEN Finally(c, IF coll[c].pc = "aborted" THEN object
                           ELSE [object EXCEPT ![coll[c].of].status = "error"])
         ELSE UNCHANGED <<object, held>>
    /\ Stops(c)
    /\ UNCHANGED <<panel, rowToken>>

(* Mutant: collections under way are aborted but not superseded. *)
InvalidateKeepsGeneration ==
    /\ rowToken < MaxRowTokens
    /\ rowToken' = rowToken + 1
    /\ object' = [e \in Objects |->
                   IF e \in Held
                     THEN [object[e] EXCEPT !.revision = @ + 1,
                             !.inflight = 0, !.payload = 0, !.status = "idle"]
                     ELSE object[e]]
    /\ UNCHANGED <<held, coll, panel>>

(* invalidateAll: every entry in the map is emptied and superseded.        *)
InvalidateAll ==
    /\ rowToken < MaxRowTokens
    /\ rowToken' = rowToken + 1
    /\ object' = [e \in Objects |->
                   IF e \in Held
                     THEN [object[e] EXCEPT !.generation = @ + 1, !.revision = @ + 1,
                             !.inflight = 0, !.payload = 0, !.status = "idle"]
                     ELSE object[e]]
    /\ coll' = [c \in DOMAIN coll |->
                 IF \E e \in Held : object[e].inflight = c
                   THEN [coll[c] EXCEPT !.pc = "aborted"] ELSE coll[c]]
    /\ UNCHANGED <<held, panel>>

(* payload(id, revision), asked with what describe() told the panel last:  *)
(* the rows of that very revision, or nothing.                             *)
Answers(id, revision) ==
    {object[e].payload : e \in {f \in Held : /\ object[f].id = id
                                             /\ object[f].revision = revision
                                             /\ object[f].payload # 0}}

Fetch(p) ==
    /\ panel[p].signature # None
    /\ \E e \in Held :
         /\ object[e].signature = panel[p].signature
         /\ object[e].payload # 0
         /\ panel' = [panel EXCEPT ![p].id = object[e].id, ![p].revision = object[e].revision,
                                   ![p].rows = object[e].payload]
         /\ held' = Touched(held, e)
    /\ UNCHANGED <<object, coll, rowToken>>

(* The iframe reloads and asks again for what it had drawn. *)
Refetch(p) ==
    \E e \in Held :
        /\ object[e].id = panel[p].id
        /\ held' = Touched(held, e)
        /\ UNCHANGED <<object, coll, panel, rowToken>>

RowNext ==
    \/ \E p \in Panels :
         \/ \E s \in Signatures, force \in BOOLEAN : Request(p, s, force)
         \/ Leave(p) \/ Fetch(p) \/ Refetch(p)
    \/ \E c \in DOMAIN coll : Commits(c) \/ CollFails(c)
    \/ InvalidateAll

RowSafety == RowInit /\ [][RowNext]_rowVars

(* A collection ends: the CLI ends or is killed by the abort.              *)
RowFairness ==
    \A c \in 1 .. MaxColls : WF_rowVars(c \in DOMAIN coll /\ (Commits(c) \/ CollFails(c)))

RowSpec == RowSafety /\ RowFairness

---------------------------------------------------------------------------
(* An identity that a panel has drawn never names other rows: neither a    *)
(* new revision nor an entry that was evicted and came back                *)
(* (rowstore.mjs:147).                                                     *)
IdentityNamesItsRows ==
    \A p \in Panels : panel[p].rows # 0 =>
        Answers(panel[p].id, panel[p].revision) \subseteq {panel[p].rows}

(* No rows are handed out that were read with a replaced credential, or    *)
(* still collected for it (rowstore.mjs:292).                              *)
RowsAreOfTheToken ==
    \A e \in Held : object[e].payload # 0 => coll[object[e].payload].token = rowToken

(* The registry keeps what is needed and, beyond its bound, nothing else:  *)
(* a snapshot on screen stays, and whichever of its last reader leaving    *)
(* and its collection ending came last released the others (rowstore.mjs:  *)
(* 72, 97, 274).                                                           *)
OnlyTheNeededIsKept ==
    /\ \A p \in Panels : panel[p].signature # None => HasObject(panel[p].signature)
    /\ Cardinality(Held) > MaxEntries =>
         \A e \in Held : Evictable(e, object, Subscriptions(panel)) => object[e].payload = 0

(* LIVENESS: rows that were asked for arrive, fail or are given up.        *)
RowsArrive ==
    \A c \in 1 .. MaxColls :
        (c \in DOMAIN coll /\ coll[c].pc # "done")
            ~> (c \in DOMAIN coll /\ coll[c].pc = "done"
                /\ \A e \in Objects : object[e].inflight # c)

===========================================================================
