--------------------------- MODULE SharedDataset ---------------------------
(***************************************************************************)
(* Reference counting of the snapshot files the metrics dashboard reads    *)
(* (.github/extensions/actions-metrics/lib/dataset.mjs).                   *)
(*                                                                         *)
(* A collection produces a root dataset that owns a temporary directory.   *)
(* Reading it produces a view: a filtered view owns a rewritten file in a  *)
(* directory of its own, an unfiltered one reads the root's file; either   *)
(* way the view holds one reference on its root until it has been let go.  *)
(* Owners (collections and store entries) create, move and retire views,   *)
(* readers borrow them.                                                    *)
(*                                                                         *)
(* The program keeps only the counters. Who will call release() next is    *)
(* implicit in its suspended functions; `holds` makes that explicit, so    *)
(* that the counters can be compared with it. No guard reads `holds` but   *)
(* to say which JavaScript reference a caller has in hand.                 *)
(***************************************************************************)
EXTENDS Naturals, FiniteSets

CONSTANTS
    Readers,    \* callers of withDataset, which release what they acquired
    Owners,     \* collections and store entries, which retire views
    Datasets,   \* SharedDataset objects
    None        \* "holds nothing"

Clients == Readers \union Owners
Holders == Clients \union Datasets

ASSUME ConstantsAssumption ==
    /\ IsFiniteSet(Readers) /\ IsFiniteSet(Owners) /\ IsFiniteSet(Datasets)
    /\ Readers \intersect Owners = {}
    /\ Clients \intersect Datasets = {}
    /\ None \notin Datasets

VARIABLES
    refs,       \* refs[d]: this.references
    retired,    \* retired[d]: this.retired
    directory,  \* directory[d]: d owns a directory of its own
    life,       \* life[d]: unborn, live, removing (rm awaited) or gone
    holds       \* holds[h]: the dataset h will release, or None

datasetVars == <<refs, retired, directory, life, holds>>

Lives == {"unborn", "live", "removing", "gone"}

(* TYPE: counters are never negative, whatever order releases come in.      *)
TypeOK ==
    /\ refs \in [Datasets -> Nat]
    /\ retired \in [Datasets -> BOOLEAN]
    /\ directory \in [Datasets -> BOOLEAN]
    /\ life \in [Datasets -> Lives]
    /\ holds \in [Holders -> Datasets \union {None}]

DatasetInit ==
    /\ refs = [d \in Datasets |-> 0]
    /\ retired = [d \in Datasets |-> FALSE]
    /\ directory = [d \in Datasets |-> FALSE]
    /\ life = [d \in Datasets |-> "unborn"]
    /\ holds = [h \in Holders |-> None]

IsRoot(d) == holds[d] = None

(* The file reports are run on: an unfiltered view shares its root's. *)
InputOf(d) == IF directory[d] THEN d ELSE holds[d]

(* The input of d is a file that nobody has started to remove. *)
Readable(d) ==
    /\ life[d] = "live"
    /\ InputOf(d) \in Datasets
    /\ directory[InputOf(d)]
    /\ life[InputOf(d)] = "live"

---------------------------------------------------------------------------
(* release() by h: the counter of what h holds drops by one. A dataset     *)
(* whose counter reaches zero starts to remove its directory; one without  *)
(* a directory has nothing to remove and releases its root in the same     *)
(* synchronous step. Freed(h) is who has let go of something at its end.   *)
Freed(h) ==
    IF refs[holds[h]] = 1 /\ ~directory[holds[h]] THEN {h, holds[h]} ELSE {h}

LosesOne(d, freed) == \E h \in freed : holds[h] = d

Cleared(freed) == [h \in Holders |-> IF h \in freed THEN None ELSE holds[h]]

Counted(freed) ==
    [d \in Datasets |-> IF LosesOne(d, freed) THEN refs[d] - 1 ELSE refs[d]]

Settled(freed) ==
    [d \in Datasets |->
        IF LosesOne(d, freed) /\ refs[d] = 1
          THEN IF directory[d] THEN "removing" ELSE "gone"
          ELSE life[d]]

LetGo(h) ==
    /\ refs' = Counted(Freed(h))
    /\ life' = Settled(Freed(h))
    /\ holds' = Cleared(Freed(h))
    /\ UNCHANGED directory

---------------------------------------------------------------------------
(* collectSharedSnapshot, after the collect command: a root dataset with   *)
(* one reference, owned by the collection that made it.                    *)
CreateRoot(o, d) ==
    /\ holds[o] = None
    /\ life[d] = "unborn"
    /\ life' = [life EXCEPT ![d] = "live"]
    /\ refs' = [refs EXCEPT ![d] = 1]
    /\ directory' = [directory EXCEPT ![d] = TRUE]
    /\ holds' = [holds EXCEPT ![o] = d]
    /\ UNCHANGED retired

(* this.references++ on behalf of c. *)
Take(c, d) ==
    /\ refs' = [refs EXCEPT ![d] = @ + 1]
    /\ holds' = [holds EXCEPT ![c] = d]
    /\ UNCHANGED <<retired, directory, life>>

(* Mutant: acquire() without its check of the retired flag. *)
AcquireRetired(c, d) ==
    /\ holds[c] = None
    /\ ~IsRoot(d)
    /\ Take(c, d)

(* acquire(): the one guard the code has is the retired flag. c may have   *)
(* read `entry.dataset` long ago, so d is any view made so far.            *)
Acquire(c, d) ==
    /\ holds[c] = None
    /\ ~IsRoot(d)
    /\ ~retired[d]
    /\ Take(c, d)

(* (retained.base ?? retained).acquire(): a collection that re-reads       *)
(* retained data takes a reference on the root of the view in hand.        *)
AcquireRoot(o, v) ==
    /\ holds[o] = None
    /\ ~IsRoot(v)
    /\ ~retired[holds[v]]
    /\ Take(o, holds[v])

(* datasetView: the collection's reference on the root becomes the view's, *)
(* and the view's initial reference the collection's.                      *)
CreateView(o, v, filtered) ==
    /\ holds[o] # None /\ IsRoot(holds[o])
    /\ life[v] = "unborn"
    /\ life' = [life EXCEPT ![v] = "live"]
    /\ refs' = [refs EXCEPT ![v] = 1]
    /\ directory' = [directory EXCEPT ![v] = filtered]
    /\ holds' = [holds EXCEPT ![v] = holds[o], ![o] = v]
    /\ UNCHANGED retired

(* readDataset's catch: the view could not be built, the root is let go.   *)
DropRoot(o) ==
    /\ holds[o] # None /\ IsRoot(holds[o])
    /\ LetGo(o)
    /\ UNCHANGED retired

(* retire(): the owner forbids further acquires and gives up its own       *)
(* reference; readers keep the file until the last of them releases it.    *)
Retire(o) ==
    /\ holds[o] # None /\ ~IsRoot(holds[o])
    /\ retired' = [retired EXCEPT ![holds[o]] = TRUE]
    /\ LetGo(o)

(* refresh's commit: entry.dataset = snapshot.dataset, and the view it     *)
(* replaces, if any, is retired before the first await.                    *)
Commit(o, s) ==
    /\ o # s
    /\ holds[o] # None /\ ~IsRoot(holds[o])
    /\ IF holds[s] = None
         THEN /\ holds' = [holds EXCEPT ![s] = holds[o], ![o] = None]
              /\ UNCHANGED <<refs, retired, directory, life>>
         ELSE /\ ~IsRoot(holds[s])
              /\ retired' = [retired EXCEPT ![holds[s]] = TRUE]
              /\ refs' = Counted(Freed(s))
              /\ life' = Settled(Freed(s))
              /\ holds' = [Cleared(Freed(s)) EXCEPT ![s] = holds[o], ![o] = None]
              /\ UNCHANGED directory

(* withDataset's finally: a reader returns what it borrowed.               *)
ReleaseReader(r) ==
    /\ holds[r] # None
    /\ LetGo(r)
    /\ UNCHANGED retired

(* The rm a release awaits has ended, well or not (`finally`): a view lets *)
(* go of its root only now.                                                *)
Removed(d) ==
    /\ life[d] = "removing"
    /\ refs' = Counted({d})
    /\ life' = [Settled({d}) EXCEPT ![d] = "gone"]
    /\ holds' = Cleared({d})
    /\ UNCHANGED <<retired, directory>>

OwnerStep(o) ==
    \/ \E d \in Datasets : CreateRoot(o, d)
    \/ \E v \in Datasets : AcquireRoot(o, v)
    \/ \E v \in Datasets, filtered \in BOOLEAN : CreateView(o, v, filtered)
    \/ DropRoot(o)
    \/ Retire(o)
    \/ \E s \in Owners : Commit(o, s)

ReaderStep(r) ==
    \/ \E d \in Datasets : Acquire(r, d)
    \/ ReleaseReader(r)

DatasetNext ==
    \/ \E o \in Owners : OwnerStep(o)
    \/ \E r \in Readers : ReaderStep(r)
    \/ \E d \in Datasets : Removed(d)

DatasetSafety == DatasetInit /\ [][DatasetNext]_datasetVars

---------------------------------------------------------------------------
(* SAFETY *)

(* Every counter is the number of functions that will call release() on    *)
(* the dataset: none is released twice (dataset.mjs:25) nor forgotten.     *)
HeldBy(d) == {h \in Holders : holds[h] = d}

RefsMatchHolders == \A d \in Datasets : refs[d] = Cardinality(HeldBy(d))

(* Whoever holds a dataset can read its input: the file has not been       *)
(* removed, and nobody has started to, whoever else retires or releases.   *)
HeldIsReadable == \A c \in Clients : holds[c] # None => Readable(holds[c])

(* How the counters, the flags and the references hang together; with the  *)
(* two above, the inductive invariant of SharedDatasetProofs.              *)
LifeFollowsRefs == \A d \in Datasets : refs[d] > 0 <=> life[d] = "live"

TwoLevels ==
    \A d \in Datasets :
        /\ life[d] \in {"live", "removing"} /\ IsRoot(d) => directory[d]
        /\ ~IsRoot(d) =>
             /\ life[d] \in {"live", "removing"}
             /\ IsRoot(holds[d])
             /\ directory[holds[d]]

UnretiredIsOwned ==
    \A d \in Datasets :
        ~IsRoot(d) /\ ~retired[d] => \E o \in Owners : holds[o] = d

DatasetInv ==
    TypeOK /\ RefsMatchHolders /\ LifeFollowsRefs /\ TwoLevels /\ UnretiredIsOwned

(* LIVENESS *)

===========================================================================
