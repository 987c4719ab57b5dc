------------------------ MODULE DashboardStoreProofs ------------------------
(* Proofs, for any collections, readers, sources and windows, that the     *)
(* store of lib/store.mjs uses datasets as SharedDataset allows, that what *)
(* it commits and hands out is what was asked for under the token in       *)
(* force, and that its retry timer is neither dead nor resumes another     *)
(* window.                                                                 *)
EXTENDS DashboardStore, SharedDatasetProofs

---------------------------------------------------------------------------
(* The types of the store's variables. A collection that has not started   *)
(* and one that is done keep fewer fields.                                 *)
Suspended ==
    {"probe", "collect", "limited", "view", "fleet", "retiring", "remember", "failed"}

Optional(S) == S \union {None}

EntryType ==
    [query : Queries, status : {"idle", "loading", "ready", "error"},
     limited : Optional(Colls), generation : Nat, inflight : Optional(Colls),
     dataset : Optional(Datasets), source : Optional(Sources), metrics : Optional(Colls),
     until : Optional(Colls), retry : Nat, overtaken : BOOLEAN]

NewColl == [pc : {"new"}]

SuspendedColl ==
    [pc : Suspended, generation : Nat, source : Sources, query : Queries,
     interrupted : Optional(Colls), until : Optional(Colls), origin : Colls, token : Nat]

DoneColl ==
    [pc : {"done"}, query : Queries, until : Optional(Colls), origin : Colls, token : Nat]

ReaderType ==
    [pc : {"idle"}]
    \union [pc : {"waiting"}, query : Queries, awaits : Optional(Colls)]
    \union [pc : {"reading"}, query : Queries, token : Nat]

DisposalType == [pc : {"no", "waiting", "retiring", "done"}, awaits : Optional(Colls)]

StoreTypeOK ==
    /\ entry \in EntryType
    /\ coll \in [Colls -> NewColl \union SuspendedColl \union DoneColl]
    /\ reader \in [Readers -> ReaderType]
    /\ token \in Nat /\ listeners \in Nat
    /\ disposal \in DisposalType

(* What collection c was asked for is settled: its query is not read again. *)
Settles(c) == coll[c].pc \notin {"new", "probe"}

(* A dataset whose collection, and the one whose root it reads, are known. *)
Known(d) ==
    /\ d \in {"root", "view"} \X Colls
    /\ Settles(CollOf(d))
    /\ Settles(coll[CollOf(d)].origin)

(* What a step may never do to the collections it is not the start of.     *)
KeepsSettled ==
    \A b \in Colls : Settles(b) =>
        /\ Settles(b)'
        /\ coll'[b].query = coll[b].query
        /\ coll'[b].until = coll[b].until
        /\ coll'[b].origin = coll[b].origin
        /\ coll'[b].token = coll[b].token

---------------------------------------------------------------------------
LEMMA StoreConstants ==
    /\ Colls \subseteq Owners /\ Entry \in Owners /\ Entry \notin Colls
    /\ Owners \subseteq Clients /\ Readers \subseteq Clients /\ Clients \subseteq Holders
    /\ Datasets \subseteq Holders /\ Datasets = {"root", "view"} \X Colls
    /\ None \notin Datasets /\ None \notin Colls
    /\ \A c \in Colls : RootOf(c) \in Datasets /\ ViewOf(c) \in Datasets /\ CollOf(ViewOf(c)) = c
    /\ \A k \in Clients : k \notin Datasets
    /\ \A r \in Readers : r \notin Owners
BY StoreAssumption, ConstantsAssumption DEF Clients, Holders, RootOf, ViewOf, CollOf

(* The fields of a collection, by how far it is. *)
LEMMA CollFields ==
    ASSUME StoreTypeOK, NEW c \in Colls
    PROVE  /\ coll[c].pc \in Suspended \union {"new", "done"}
           /\ coll[c].pc # "new" =>
                /\ coll[c].query \in Queries /\ coll[c].until \in Optional(Colls)
                /\ coll[c].origin \in Colls /\ coll[c].token \in Nat
           /\ coll[c].pc \notin {"new", "done"} => coll[c] \in SuspendedColl
<1>1. coll[c] \in NewColl \union SuspendedColl \union DoneColl
  BY DEF StoreTypeOK
<1> QED BY <1>1 DEF NewColl, SuspendedColl, DoneColl, Suspended

(* Going on to the next await changes nothing but the place.               *)
LEMMA StepFrame ==
    ASSUME StoreTypeOK, NEW c \in Colls, NEW from \in Suspended, NEW to \in Suspended,
           Step(c, from, to)
    PROVE  /\ coll' \in [Colls -> NewColl \union SuspendedColl \union DoneColl]
           /\ \A b \in Colls \ {c} : coll'[b] = coll[b]
           /\ coll[c].pc = from /\ coll[c] \in SuspendedColl
           /\ coll'[c] \in SuspendedColl /\ coll'[c].pc = to
           /\ coll'[c].generation = coll[c].generation /\ coll'[c].source = coll[c].source
           /\ coll'[c].query = coll[c].query /\ coll'[c].interrupted = coll[c].interrupted
           /\ coll'[c].until = coll[c].until /\ coll'[c].origin = coll[c].origin
           /\ coll'[c].token = coll[c].token
<1>1. coll[c].pc = from /\ coll' = [coll EXCEPT ![c] = [@ EXCEPT !.pc = to]]
  BY DEF Step
<1>2. coll[c] \in SuspendedColl
  BY <1>1, CollFields DEF Suspended
<1> DEFINE now == [coll[c] EXCEPT !.pc = to]
<1>3. /\ now \in SuspendedColl /\ now.pc = to
      /\ now.generation = coll[c].generation /\ now.source = coll[c].source
      /\ now.query = coll[c].query /\ now.interrupted = coll[c].interrupted
      /\ now.until = coll[c].until /\ now.origin = coll[c].origin
      /\ now.token = coll[c].token
  BY <1>2 DEF SuspendedColl
<1>4. coll' = [coll EXCEPT ![c] = now]
  BY <1>1
<1> HIDE DEF now
<1>5. coll'[c] = now /\ \A b \in Colls \ {c} : coll'[b] = coll[b]
  BY <1>4 DEF StoreTypeOK
<1>6. coll' \in [Colls -> NewColl \union SuspendedColl \union DoneColl]
  BY <1>3, <1>4 DEF StoreTypeOK
<1> QED BY <1>1, <1>2, <1>3, <1>5, <1>6

(* The end of a collection keeps what it left behind.                      *)
LEMMA EndsFrame ==
    ASSUME StoreTypeOK, NEW c \in Colls, NEW from \in Suspended, Ends(c, from)
    PROVE  /\ coll' \in [Colls -> NewColl \union SuspendedColl \union DoneColl]
           /\ \A b \in Colls \ {c} : coll'[b] = coll[b]
           /\ coll[c].pc = from /\ coll[c] \in SuspendedColl
           /\ coll'[c].pc = "done"
           /\ coll'[c].query = coll[c].query /\ coll'[c].until = coll[c].until
           /\ coll'[c].origin = coll[c].origin /\ coll'[c].token = coll[c].token
<1> DEFINE now == [pc |-> "done", query |-> coll[c].query, until |-> coll[c].until,
                   origin |-> coll[c].origin, token |-> coll[c].token]
<1>1. coll[c].pc = from /\ coll' = [coll EXCEPT ![c] = now]
  BY DEF Ends
<1>2. coll[c] \in SuspendedColl
  BY <1>1, CollFields DEF Suspended
<1>3. now \in DoneColl
  BY <1>2 DEF SuspendedColl, DoneColl
<1>4. /\ now.pc = "done" /\ now.query = coll[c].query /\ now.until = coll[c].until
      /\ now.origin = coll[c].origin /\ now.token = coll[c].token
  OBVIOUS
<1> HIDE DEF now
<1> QED BY <1>1, <1>2, <1>3, <1>4 DEF StoreTypeOK

(* The start of a collection, field by field. *)
LEMMA StartFrame ==
    ASSUME StoreTypeOK, entry.dataset # None => Known(entry.dataset),
           NEW c \in Colls, NEW q \in Queries, NEW force \in BOOLEAN, NEW bypass \in BOOLEAN,
           NEW resume \in BOOLEAN, StartCollection(c, q, force, bypass, resume)
    PROVE  LET kept == Retains(q, force, bypass)
               until == Until(c, q, force, bypass, resume) IN
           /\ entry' \in EntryType
           /\ coll' \in [Colls -> NewColl \union SuspendedColl \union DoneColl]
           /\ until \in Optional(Colls) /\ q.source \in Sources
           /\ coll[c].pc = "new" /\ ~Disposed
           /\ \A b \in Colls \ {c} : coll'[b] = coll[b]
           /\ coll'[c].pc = (IF kept THEN "view" ELSE "probe")
           /\ coll'[c].generation = entry.generation + 1
           /\ coll'[c].source = q.source /\ coll'[c].query = q
           /\ coll'[c].interrupted = (IF kept THEN entry.limited ELSE None)
           /\ coll'[c].until = (IF kept THEN None ELSE until)
           /\ coll'[c].origin = (IF kept THEN coll[CollOf(entry.dataset)].origin ELSE c)
           /\ coll'[c].token = token
           /\ entry'.query = q /\ entry'.limited = None
           /\ entry'.generation = entry.generation + 1 /\ entry'.inflight = c
           /\ entry'.dataset = entry.dataset /\ entry'.source = entry.source
           /\ entry'.until = until /\ entry'.retry = 0
           /\ entry'.overtaken = (kept /\ entry.overtaken)
           /\ kept => entry.dataset # None /\ entry.source = q.source
<1> DEFINE kept == Retains(q, force, bypass)
           until == Until(c, q, force, bypass, resume)
           now == [pc |-> IF kept THEN "view" ELSE "probe",
                   generation |-> entry.generation + 1,
                   source |-> q.source, query |-> q,
                   interrupted |-> IF kept THEN entry.limited ELSE None,
                   until |-> IF kept THEN None ELSE until,
                   origin |-> IF kept THEN coll[CollOf(entry.dataset)].origin ELSE c,
                   token |-> token]
<1>1. kept \in BOOLEAN /\ (kept => entry.dataset # None /\ entry.source = q.source)
  BY DEF Retains
<1>2. until \in Optional(Colls)
  BY DEF Until, StoreTypeOK, EntryType, Optional
<1>3. q.source \in Sources
  BY DEF Queries
<1>4. kept => coll[CollOf(entry.dataset)].origin \in Colls
  BY <1>1, CollFields DEF Known, Settles, CollOf
<1>5. entry.generation + 1 \in Nat /\ entry.limited \in Optional(Colls) /\ token \in Nat
  BY DEF StoreTypeOK, EntryType
<1>6. /\ coll[c].pc = "new" /\ ~Disposed
      /\ coll' = [coll EXCEPT ![c] = now]
      /\ entry' = [entry EXCEPT
                   !.query = q, !.status = "loading", !.limited = None,
                   !.generation = @ + 1, !.inflight = c, !.until = until,
                   !.retry = 0, !.overtaken = kept /\ @]
  BY DEF StartCollection
<1> HIDE DEF kept, until
<1>7. now \in SuspendedColl
  BY <1>1, <1>2, <1>3, <1>4, <1>5 DEF SuspendedColl, Suspended, Optional
<1>8. /\ coll' \in [Colls -> NewColl \union SuspendedColl \union DoneColl]
      /\ coll'[c] = now
      /\ \A b \in Colls \ {c} : coll'[b] = coll[b]
  <2> HIDE DEF now
  <2> QED BY <1>6, <1>7 DEF StoreTypeOK
<1>9. /\ entry' \in EntryType
      /\ entry'.query = q /\ entry'.limited = None
      /\ entry'.generation = entry.generation + 1 /\ entry'.inflight = c
      /\ entry'.dataset = entry.dataset /\ entry'.source = entry.source
      /\ entry'.until = until /\ entry'.retry = 0
      /\ entry'.overtaken = (kept /\ entry.overtaken)
  <2> HIDE DEF now
  <2> QED BY <1>1, <1>2, <1>5, <1>6 DEF StoreTypeOK, EntryType, Optional
<1> QED BY <1>1, <1>2, <1>3, <1>6, <1>8, <1>9 DEF kept, until

---------------------------------------------------------------------------
(* How an entry is changed by the helpers of the model. *)
LEMMA ReportedFrame ==
    ASSUME StoreTypeOK, NEW e \in EntryType, NEW c \in Colls, coll[c] \in SuspendedColl
    PROVE  /\ Reported(e, c) \in EntryType
           /\ Reported(e, c).query = e.query /\ Reported(e, c).generation = e.generation
           /\ Reported(e, c).inflight = e.inflight /\ Reported(e, c).dataset = e.dataset
           /\ Reported(e, c).source = e.source /\ Reported(e, c).until = e.until
           /\ Reported(e, c).retry = e.retry
           /\ coll[c].interrupted = None =>
                Reported(e, c).limited = e.limited /\ Reported(e, c).overtaken = e.overtaken
           /\ coll[c].interrupted # None =>
                /\ Reported(e, c).limited = coll[c].interrupted
                /\ Reported(e, c).overtaken = (e.overtaken \/ ~Current(c))
<1>1. coll[c].interrupted \in Optional(Colls)
  BY DEF SuspendedColl
<1>2. CASE coll[c].interrupted = None
  BY <1>2 DEF Reported, EntryType
<1>3. CASE coll[c].interrupted # None
  <2>1. Current(c) \in BOOLEAN
    BY DEF Current
  <2> QED BY <1>1, <1>3, <2>1 DEF Reported, EntryType
<1> QED BY <1>2, <1>3

LEMMA ScheduleFrame ==
    ASSUME StoreTypeOK, NEW e \in EntryType, NEW n \in Nat
    PROVE  /\ ScheduleRetry(e, n) \in EntryType
           /\ ScheduleRetry(e, n).query = e.query
           /\ ScheduleRetry(e, n).limited = e.limited
           /\ ScheduleRetry(e, n).generation = e.generation
           /\ ScheduleRetry(e, n).inflight = e.inflight
           /\ ScheduleRetry(e, n).dataset = e.dataset
           /\ ScheduleRetry(e, n).source = e.source
           /\ ScheduleRetry(e, n).until = e.until
           /\ ScheduleRetry(e, n).overtaken = e.overtaken
           /\ ScheduleRetry(e, n).retry = (IF MayRetry(e, n) THEN e.generation ELSE e.retry)
<1>1. MayRetry(e, n) \in BOOLEAN
  BY DEF MayRetry
<1> QED BY <1>1 DEF ScheduleRetry, EntryType

(* The finally block of the current collection. *)
LEMMA EndedFrame ==
    ASSUME StoreTypeOK, NEW e \in EntryType
    PROVE  /\ Ended(e) \in EntryType
           /\ Ended(e).query = e.query /\ Ended(e).limited = e.limited
           /\ Ended(e).generation = e.generation /\ Ended(e).inflight = None
           /\ Ended(e).dataset = e.dataset /\ Ended(e).source = e.source
           /\ Ended(e).until = e.until /\ Ended(e).overtaken = e.overtaken
           /\ \/ Ended(e).retry = e.retry
              \/ /\ Ended(e).retry = e.generation
                 /\ ~Disposed /\ listeners > 0 /\ e.limited # None /\ UntilSupported
<1> DEFINE freed == [e EXCEPT !.inflight = None]
<1>1. /\ freed \in EntryType /\ freed.query = e.query /\ freed.limited = e.limited
      /\ freed.generation = e.generation /\ freed.inflight = None
      /\ freed.dataset = e.dataset /\ freed.source = e.source
      /\ freed.until = e.until /\ freed.overtaken = e.overtaken /\ freed.retry = e.retry
  BY DEF EntryType, Optional
<1>2. Ended(e) = ScheduleRetry(freed, listeners) /\ listeners \in Nat
  BY DEF Ended, StoreTypeOK
<1> HIDE DEF freed
<1> QED BY <1>1, <1>2, ScheduleFrame DEF MayRetry

(* The entry as it is committed, and as a failure leaves it. *)
LEMMA CommittedFrame ==
    ASSUME StoreTypeOK, NEW c \in Colls, NEW source \in Sources
    PROVE  LET e == [entry EXCEPT !.metrics = c, !.dataset = ViewOf(c), !.source = source] IN
           /\ e \in EntryType /\ e.query = entry.query /\ e.limited = entry.limited
           /\ e.generation = entry.generation /\ e.inflight = entry.inflight
           /\ e.dataset = ViewOf(c) /\ e.source = source /\ e.until = entry.until
           /\ e.retry = entry.retry /\ e.overtaken = entry.overtaken
<1>1. ViewOf(c) \in Datasets
  BY StoreConstants
<1> QED BY <1>1 DEF StoreTypeOK, EntryType, Optional

LEMMA FailedFrame ==
    ASSUME StoreTypeOK, NEW limited \in Optional(Colls)
    PROVE  LET e == [entry EXCEPT !.status = "error", !.overtaken = FALSE,
                                  !.limited = limited] IN
           /\ e \in EntryType /\ e.query = entry.query /\ e.limited = limited
           /\ e.generation = entry.generation /\ e.inflight = entry.inflight
           /\ e.dataset = entry.dataset /\ e.source = entry.source /\ e.until = entry.until
           /\ e.retry = entry.retry /\ e.overtaken = FALSE
BY DEF StoreTypeOK, EntryType

---------------------------------------------------------------------------
(* The inductive invariant. *)

CommittedIsKnown == entry.dataset # None => Known(entry.dataset)

(* What reader r was given, while it reads and only then.                  *)
ReaderInv(r) ==
    /\ holds[r] # None => reader[r].pc = "reading"
    /\ reader[r].pc = "reading" =>
         /\ holds[r] # None /\ Known(holds[r])
         /\ SourceRead(holds[r]) = reader[r].query.source
         /\ TokenRead(holds[r]) = reader[r].token

(* A collection owns a dataset between two of its awaits only, the entry   *)
(* until dispose() has waited for the collection in flight.                *)
HoldersInv ==
    /\ \A c \in Colls : holds[c] # None => coll[c].pc \in {"view", "fleet"}
    /\ holds[Entry] # None => disposal.pc \in {"no", "waiting"}

(* Generations only grow, so that at most one collection is current: the   *)
(* one in flight, which dispose() waits for.                               *)
GenerationsGrow == \A c \in Running : coll[c].generation <= entry.generation

CurrentIsInFlight == \A c \in Running : Current(c) => entry.inflight = c

DisposalWaits ==
    \A c \in Running : Current(c) /\ Disposed =>
        disposal.pc = "waiting" /\ disposal.awaits = c

(* What is read from another collection's root was read for this source.   *)
OriginsAreKnown ==
    \A c \in Running : coll[c].origin # c =>
        Settles(coll[c].origin) /\ coll[coll[c].origin].query.source = coll[c].source

(* The entry's query and token have not changed since the current          *)
(* collection started.                                                     *)
CurrentIsAsAsked ==
    \A c \in Running : Current(c) =>
        /\ coll[c].query = entry.query
        /\ coll[c].source = entry.query.source
        /\ coll[coll[c].origin].token = token

(* The window that is frozen is that of the rate limit on the entry, which *)
(* may be set aside while the current collection reads retained data.      *)
IsFrozen(c) == Settles(c) /\ entry.until # None /\ coll[c].until = entry.until

WindowIsFrozen ==
    UntilSupported =>
        /\ entry.limited # None /\ ~entry.overtaken => IsFrozen(entry.limited)
        /\ \A c \in Running : Current(c) =>
             /\ coll[c].interrupted # None /\ ~entry.overtaken => IsFrozen(coll[c].interrupted)
             /\ coll[c].pc \in {"probe", "collect", "limited"} =>
                  entry.until # None /\ coll[c].until = entry.until

CollectionInv ==
    /\ CommittedIsKnown /\ CommittedDataIsCurrent
    /\ GenerationsGrow /\ CurrentIsInFlight /\ DisposalWaits
    /\ OriginsAreKnown /\ CurrentIsAsAsked

(* All of it, beside the invariant of the datasets.                        *)
StoreOwnInv ==
    /\ StoreTypeOK /\ CollectionInv /\ WindowIsFrozen /\ ArmedTimerIsLive
    /\ HoldersInv /\ \A r \in Readers : ReaderInv(r)

StoreInv == StoreOwnInv /\ DatasetInv

---------------------------------------------------------------------------
(* The effect of a step of collection c on the collections...              *)
Moves(c) ==
    /\ \A b \in Colls \ {c} : coll'[b] = coll[b]
    /\ coll[c] \in SuspendedColl
    /\ coll'[c].pc \notin {"new", "probe"}
    /\ coll'[c].pc \in {"collect", "limited"} => coll[c].pc \in {"probe", "collect"}
    /\ coll'[c].query = coll[c].query \/ (coll[c].pc = "probe" /\ coll'[c].query = entry.query)
    /\ coll[c].pc # "probe" \/ UntilSupported => coll'[c].until = coll[c].until
    /\ coll'[c].origin = coll[c].origin
    /\ coll'[c].token = coll[c].token
    /\ coll'[c].pc # "done" =>
         /\ coll'[c].generation = coll[c].generation
         /\ coll'[c].source = coll[c].source
         /\ coll'[c].interrupted = coll[c].interrupted

(* ...and on the entry: its query and generation stay; the rest is what    *)
(* one of the cases says.                                                  *)
InFlightAfter(c) ==
    \/ entry'.inflight = entry.inflight
    \/ entry'.inflight = None /\ Current(c) /\ coll'[c].pc = "done"

DatasetAfter(c) ==
    \/ entry'.dataset = entry.dataset /\ entry'.source = entry.source
    \/ /\ Current(c) /\ coll[c].pc = "fleet" /\ coll'[c].pc # "done"
       /\ entry'.dataset = ViewOf(c) /\ entry'.source = coll[c].source

LimitAfter(c) ==
    \/ entry'.limited = entry.limited /\ entry'.overtaken = entry.overtaken
    \/ /\ coll[c].interrupted # None /\ entry'.limited = coll[c].interrupted
       /\ entry'.overtaken = (entry.overtaken \/ ~Current(c))
    \/ /\ Current(c) /\ coll'[c].pc = "done"
       /\ entry'.limited = None \/ (entry'.limited = c /\ coll[c].pc = "limited")

RetryAfter(c) ==
    \/ entry'.retry = entry.retry
    \/ /\ entry'.retry = entry.generation /\ ~Disposed /\ entry'.inflight = None
       /\ listeners > 0 /\ entry'.limited # None /\ UntilSupported

Continues(c) ==
    /\ Moves(c)
    /\ coll' \in [Colls -> NewColl \union SuspendedColl \union DoneColl]
    /\ entry' \in EntryType
    /\ entry'.query = entry.query /\ entry'.generation = entry.generation
    /\ UntilSupported => entry'.until = entry.until
    /\ InFlightAfter(c) /\ DatasetAfter(c) /\ LimitAfter(c) /\ RetryAfter(c)
    /\ Rest

LEMMA ContinuesKeepsSettled ==
    ASSUME NEW c \in Colls, Continues(c) PROVE KeepsSettled
BY DEF Continues, Moves, KeepsSettled, Settles

LEMMA KnownStaysKnown ==
    ASSUME StoreTypeOK, KeepsSettled, NEW d, Known(d)
    PROVE  Known(d)' /\ SourceRead(d)' = SourceRead(d) /\ TokenRead(d)' = TokenRead(d)
<1>1. CollOf(d) \in Colls /\ Settles(CollOf(d))
  BY DEF Known, CollOf
<1>2. coll[CollOf(d)].origin \in Colls /\ Settles(coll[CollOf(d)].origin)
  BY <1>1, CollFields DEF Known, Settles
<1>3. /\ Settles(CollOf(d))' /\ coll'[CollOf(d)].origin = coll[CollOf(d)].origin
      /\ Settles(coll[CollOf(d)].origin)'
      /\ coll'[coll[CollOf(d)].origin].query = coll[coll[CollOf(d)].origin].query
      /\ coll'[coll[CollOf(d)].origin].token = coll[coll[CollOf(d)].origin].token
  BY <1>1, <1>2 DEF KeepsSettled, Settles
<1>4. CollOf(d)' = CollOf(d)
  BY DEF CollOf
<1> QED BY <1>1, <1>2, <1>3, <1>4 DEF Known, SourceRead, TokenRead, Settles

(* Who runs after a step of c, and who is current.                         *)
LEMMA RunningAfter ==
    ASSUME StoreTypeOK, NEW c \in Colls, Continues(c)
    PROVE  /\ c \in Running
           /\ \A b \in Running' :
                /\ b \in Running /\ b \in Colls
                /\ coll'[b].generation = coll[b].generation
                /\ coll'[b].source = coll[b].source
                /\ coll'[b].interrupted = coll[b].interrupted
                /\ coll'[b].origin = coll[b].origin
                /\ coll[b].origin \in Colls
                /\ Current(b)' <=> Current(b)
<1>1. c \in Running
  BY DEF Running, Continues, Moves, SuspendedColl, Suspended
<1>2. ASSUME NEW b \in Running'
      PROVE  /\ b \in Running /\ b \in Colls
             /\ coll'[b].generation = coll[b].generation
             /\ coll'[b].source = coll[b].source
             /\ coll'[b].interrupted = coll[b].interrupted
             /\ coll'[b].origin = coll[b].origin
  BY <1>1 DEF Running, Continues, Moves
<1>3. \A b \in Running' : coll[b].origin \in Colls
  BY <1>2, CollFields DEF Running
<1>4. \A b \in Running' : Current(b)' <=> Current(b)
  BY <1>2 DEF Current, Continues
<1> QED BY <1>1, <1>2, <1>3, <1>4

(* What the current collection commits is of the source and the token that *)
(* the entry says.                                                         *)
LEMMA CommitsWhatWasAsked ==
    ASSUME StoreTypeOK, CollectionInv, NEW c \in Colls, Continues(c),
           Current(c), coll[c].pc = "fleet"
    PROVE  Known(ViewOf(c))' /\ SourceRead(ViewOf(c))' = coll[c].source
           /\ TokenRead(ViewOf(c))' = token
<1> PICK o \in Colls : o = coll[c].origin
  BY CollFields
<1>1. c \in Running /\ CollOf(ViewOf(c)) = c
  BY StoreConstants DEF Running
<1>2. Settles(c) /\ Settles(c)' /\ coll'[c].origin = o
  BY DEF Settles, Continues, Moves
<1>3. /\ coll[c].source = entry.query.source /\ coll[c].query = entry.query
      /\ coll[o].token = token
  BY <1>1 DEF CollectionInv, CurrentIsAsAsked
<1>4. Settles(o) /\ coll[o].query.source = coll[c].source
  BY <1>1, <1>2, <1>3 DEF CollectionInv, OriginsAreKnown
<1>5. Settles(o)' /\ coll'[o].query = coll[o].query /\ coll'[o].token = coll[o].token
  BY <1>4, ContinuesKeepsSettled DEF KeepsSettled
<1>6. ViewOf(c) \in {"root", "view"} \X Colls
  BY DEF ViewOf
<1> QED BY <1>1, <1>2, <1>3, <1>4, <1>5, <1>6 DEF Known, Settles, SourceRead, TokenRead, CollOf, ViewOf

LEMMA ContinuesPreserves ==
    ASSUME StoreTypeOK, CollectionInv, NEW c \in Colls, Continues(c)
    PROVE  CollectionInv'
<1> USE DEF CollectionInv
<1>1. KeepsSettled
  BY ContinuesKeepsSettled
<1>2. /\ entry'.query = entry.query /\ entry'.generation = entry.generation
      /\ token' = token /\ disposal' = disposal
  BY DEF Continues, Rest
<1>3. CommittedIsKnown' /\ CommittedDataIsCurrent'
  <2>1. CASE entry'.dataset = entry.dataset /\ entry'.source = entry.source
    BY <1>1, <1>2, <2>1, KnownStaysKnown DEF CommittedIsKnown, CommittedDataIsCurrent
  <2>2. CASE /\ Current(c) /\ coll[c].pc = "fleet"
             /\ entry'.dataset = ViewOf(c) /\ entry'.source = coll[c].source
    BY <1>2, <2>2, CommitsWhatWasAsked DEF CommittedIsKnown, CommittedDataIsCurrent
  <2> QED BY <2>1, <2>2 DEF Continues, DatasetAfter
<1>4. GenerationsGrow'
  BY <1>2, RunningAfter DEF GenerationsGrow
<1>5. CurrentIsInFlight'
  <2> SUFFICES ASSUME NEW b \in Running', Current(b)' PROVE entry'.inflight = b
    BY DEF CurrentIsInFlight
  <2>1. b \in Running /\ Current(b) /\ entry.inflight = b
    BY RunningAfter DEF CurrentIsInFlight
  <2>2. CASE entry'.inflight = entry.inflight
    BY <2>1, <2>2
  <2>3. CASE Current(c) /\ coll'[c].pc = "done"
    <3>1. entry.inflight = c /\ b # c
      BY <2>3, RunningAfter DEF CurrentIsInFlight, Running
    <3> QED BY <3>1, <2>1
  <2> QED BY <2>2, <2>3 DEF Continues, InFlightAfter
<1>6. DisposalWaits'
  BY <1>2, RunningAfter DEF DisposalWaits, Disposed
<1>7. OriginsAreKnown'
  <2> SUFFICES ASSUME NEW b \in Running', coll'[b].origin # b
               PROVE  /\ coll'[coll'[b].origin].pc \notin {"new", "probe"}
                      /\ coll'[coll'[b].origin].query.source = coll'[b].source
    BY DEF OriginsAreKnown, Settles
  <2>1. /\ b \in Running /\ coll'[b].origin = coll[b].origin /\ coll'[b].source = coll[b].source
        /\ coll[b].origin \in Colls
    BY RunningAfter
  <2> QED BY <1>1, <2>1 DEF OriginsAreKnown, KeepsSettled, Settles
<1>8. CurrentIsAsAsked'
  <2> SUFFICES ASSUME NEW b \in Running', Current(b)'
               PROVE  /\ coll'[b].query = entry'.query
                      /\ coll'[b].source = entry'.query.source
                      /\ coll'[coll'[b].origin].token = token'
    BY DEF CurrentIsAsAsked
  <2>1. /\ b \in Running /\ b \in Colls /\ coll'[b].origin = coll[b].origin
        /\ coll'[b].source = coll[b].source /\ Current(b) /\ coll[b].origin \in Colls
    BY RunningAfter
  <2>2. /\ coll[b].query = entry.query /\ coll[b].source = entry.query.source
        /\ coll[coll[b].origin].token = token
    BY <2>1 DEF CurrentIsAsAsked
  <2>3. coll'[b].query = entry.query
    BY <2>1, <2>2 DEF Continues, Moves
  <2>4. coll'[coll[b].origin].token = coll[coll[b].origin].token
    BY <2>1 DEF Continues, Moves
  <2> QED BY <1>2, <2>1, <2>2, <2>3, <2>4
<1> QED BY <1>3, <1>4, <1>5, <1>6, <1>7, <1>8

(* A frozen window stays frozen, the timer armed only while it can fire.   *)
LEMMA ContinuesKeepsWindow ==
    ASSUME StoreTypeOK, CollectionInv, WindowIsFrozen, NEW c \in Colls, Continues(c)
    PROVE  WindowIsFrozen'
<1> SUFFICES ASSUME UntilSupported
             PROVE  /\ entry'.limited # None /\ ~entry'.overtaken => IsFrozen(entry.limited)'
                    /\ \A b \in Running' : Current(b)' =>
                         /\ coll'[b].interrupted # None /\ ~entry'.overtaken
                              => IsFrozen(coll[b].interrupted)'
                         /\ coll'[b].pc \in {"probe", "collect", "limited"} =>
                              entry'.until # None /\ coll'[b].until = entry'.until
  BY DEF WindowIsFrozen
<1>1. entry'.until = entry.until
  BY DEF Continues
<1>2. \A b \in Colls : IsFrozen(b) =>
          Settles(b)' /\ entry'.until # None /\ coll'[b].until = entry'.until
  BY <1>1, ContinuesKeepsSettled DEF IsFrozen, KeepsSettled
<1>3. c \in Running /\ coll[c].interrupted \in Optional(Colls) /\ entry.limited \in Optional(Colls)
  BY RunningAfter DEF Continues, Moves, SuspendedColl, StoreTypeOK, EntryType
<1>4. ASSUME entry'.limited # None, ~entry'.overtaken PROVE IsFrozen(entry.limited)'
  <2>1. CASE entry'.limited = entry.limited /\ entry'.overtaken = entry.overtaken
    BY <1>2, <1>3, <1>4, <2>1 DEF WindowIsFrozen, IsFrozen, Settles, Optional
  <2>2. CASE /\ coll[c].interrupted # None /\ entry'.limited = coll[c].interrupted
             /\ entry'.overtaken = (entry.overtaken \/ ~Current(c))
    <3>1. IsFrozen(coll[c].interrupted)
      BY <1>3, <1>4, <2>2 DEF WindowIsFrozen
    <3> QED BY <1>2, <1>3, <2>2, <3>1 DEF IsFrozen, Settles, Optional
  <2>3. CASE Current(c) /\ coll'[c].pc = "done" /\ entry'.limited = c /\ coll[c].pc = "limited"
    <3>1. IsFrozen(c)
      BY <1>3, <2>3 DEF WindowIsFrozen, IsFrozen, Settles
    <3> QED BY <1>2, <2>3, <3>1 DEF IsFrozen, Settles
  <2> QED BY <1>4, <2>1, <2>2, <2>3 DEF Continues, LimitAfter
<1>5. ASSUME NEW b \in Running', Current(b)'
      PROVE  /\ coll'[b].interrupted # None /\ ~entry'.overtaken
                  => IsFrozen(coll[b].interrupted)'
             /\ coll'[b].pc \in {"probe", "collect", "limited"} =>
                  entry'.until # None /\ coll'[b].until = entry'.until
  <2>1. /\ b \in Running /\ b \in Colls /\ Current(b)
        /\ coll'[b].interrupted = coll[b].interrupted
    BY <1>5, RunningAfter
  <2>2. coll[b].interrupted \in Optional(Colls)
    BY <2>1, CollFields DEF Running, SuspendedColl
  <2>3. ~entry'.overtaken => ~entry.overtaken
    <3>1. CASE Current(c) /\ coll'[c].pc = "done"
      <4>1. b # c /\ entry.inflight = c /\ entry.inflight = b
        BY <1>3, <2>1, <3>1, <1>5 DEF CollectionInv, CurrentIsInFlight, Running
      <4> QED BY <4>1
    <3> QED BY <3>1 DEF Continues, LimitAfter
  <2>4. coll[b].interrupted # None /\ ~entry'.overtaken => IsFrozen(coll[b].interrupted)
    BY <2>1, <2>3 DEF WindowIsFrozen
  <2>5. coll'[b].pc \in {"probe", "collect", "limited"} =>
          /\ coll[b].pc \in {"probe", "collect", "limited"}
          /\ coll'[b].until = coll[b].until
    BY <2>1 DEF Continues, Moves
  <2> QED BY <1>1, <1>2, <2>1, <2>2, <2>4, <2>5 DEF WindowIsFrozen, IsFrozen, Settles, Optional
<1> QED BY <1>4, <1>5

LEMMA ContinuesKeepsTimer ==
    ASSUME StoreTypeOK, CollectionInv, ArmedTimerIsLive, NEW c \in Colls, Continues(c)
    PROVE  ArmedTimerIsLive'
<1> SUFFICES ASSUME entry'.retry # 0
             PROVE  /\ entry'.retry = entry'.generation
                    /\ ~Disposed' /\ entry'.inflight = None /\ listeners' > 0
                    /\ entry'.limited # None /\ UntilSupported
  BY DEF ArmedTimerIsLive, MayRetry
<1>1. /\ entry'.generation = entry.generation /\ listeners' = listeners
      /\ Disposed' = Disposed
  BY DEF Continues, Rest, Disposed
<1>2. CASE entry'.retry = entry.retry
  <2>1. /\ entry.retry = entry.generation /\ ~Disposed /\ entry.inflight = None
        /\ listeners > 0 /\ entry.limited # None /\ UntilSupported
    BY <1>2 DEF ArmedTimerIsLive, MayRetry
  <2>2. ~Current(c)
    BY <2>1, RunningAfter, StoreConstants DEF CollectionInv, CurrentIsInFlight
  <2>3. entry'.inflight = None /\ entry'.limited # None
    BY <2>1, <2>2 DEF Continues, InFlightAfter, LimitAfter
  <2> QED BY <1>1, <1>2, <2>1, <2>3
<1>3. CASE entry'.retry # entry.retry
  BY <1>1, <1>3 DEF Continues, RetryAfter
<1> QED BY <1>2, <1>3

LEMMA ContinuesKeepsTypes ==
    ASSUME StoreTypeOK, NEW c \in Colls, Continues(c) PROVE StoreTypeOK'
BY DEF StoreTypeOK, Continues, Rest

---------------------------------------------------------------------------
(* Every step of a collection but its start is one of these.               *)
LEMMA ProbedContinues ==
    ASSUME StoreTypeOK, NEW c \in Colls, Probed(c) PROVE Continues(c)
<1>1. coll[c] \in SuspendedColl /\ coll[c].pc = "probe"
  BY CollFields DEF Probed, Suspended
<1> DEFINE now == [coll[c] EXCEPT !.pc = "collect", !.query = entry.query,
                                  !.until = IF UntilSupported THEN @ ELSE None]
<1>2. /\ now \in SuspendedColl /\ now.pc = "collect" /\ now.query = entry.query
      /\ now.generation = coll[c].generation /\ now.source = coll[c].source
      /\ now.interrupted = coll[c].interrupted
      /\ UntilSupported => now.until = coll[c].until
      /\ now.origin = coll[c].origin /\ now.token = coll[c].token
  BY <1>1 DEF SuspendedColl, Suspended, StoreTypeOK, EntryType, Optional
<1>3. coll' = [coll EXCEPT ![c] = now]
  BY DEF Probed
<1> HIDE DEF now
<1>4. /\ coll'[c] = now /\ \A b \in Colls \ {c} : coll'[b] = coll[b]
      /\ coll' \in [Colls -> NewColl \union SuspendedColl \union DoneColl]
  BY <1>2, <1>3 DEF StoreTypeOK
<1>5. Moves(c)
  BY <1>1, <1>2, <1>4 DEF Moves
<1>6. /\ entry' \in EntryType
      /\ entry'.query = entry.query /\ entry'.generation = entry.generation
      /\ UntilSupported => entry'.until = entry.until
      /\ entry'.inflight = entry.inflight /\ entry'.dataset = entry.dataset
      /\ entry'.source = entry.source /\ entry'.limited = entry.limited
      /\ entry'.overtaken = entry.overtaken /\ entry'.retry = entry.retry
  BY DEF Probed, StoreTypeOK, EntryType, Optional
<1> QED BY <1>4, <1>5, <1>6
        DEF Continues, Probed, InFlightAfter, DatasetAfter, LimitAfter, RetryAfter

(* A step that leaves the entry alone. *)
LEMMA StepContinues ==
    ASSUME StoreTypeOK, NEW c \in Colls, NEW from \in Suspended, NEW to \in Suspended,
           Step(c, from, to), to # "probe",
           to \in {"collect", "limited"} => from = "collect",
           entry' = entry, Rest
    PROVE  Continues(c)
<1>1. Moves(c)
  BY StepFrame DEF Moves, Suspended
<1>2. coll' \in [Colls -> NewColl \union SuspendedColl \union DoneColl]
  BY StepFrame
<1> QED BY <1>1, <1>2
        DEF Continues, InFlightAfter, DatasetAfter, LimitAfter, RetryAfter, StoreTypeOK

(* An end that leaves the entry alone. *)
LEMMA EndsMoves ==
    ASSUME StoreTypeOK, NEW c \in Colls, NEW from \in Suspended, Ends(c, from)
    PROVE  /\ Moves(c) /\ coll'[c].pc = "done" /\ coll[c].pc = from
           /\ coll[c] \in SuspendedColl
           /\ coll' \in [Colls -> NewColl \union SuspendedColl \union DoneColl]
BY EndsFrame DEF Moves, Suspended

LEMMA EndsContinues ==
    ASSUME StoreTypeOK, NEW c \in Colls, NEW from \in Suspended, Ends(c, from),
           entry' = entry, Rest
    PROVE  Continues(c)
BY EndsMoves DEF Continues, InFlightAfter, DatasetAfter, LimitAfter, RetryAfter, StoreTypeOK

LEMMA CommitsContinues ==
    ASSUME StoreTypeOK, NEW c \in Colls, Commits(c) PROVE Continues(c)
<1> DEFINE to == IF entry.dataset = None THEN "remember" ELSE "retiring"
           committed == [entry EXCEPT !.metrics = c, !.dataset = ViewOf(c),
                                      !.source = coll[c].source]
<1>1. /\ Step(c, "fleet", to) /\ Current(c) /\ Rest
      /\ entry' = IF entry.dataset = None THEN Reported(committed, c) ELSE committed
  BY DEF Commits
<1>2. to \in Suspended /\ to \notin {"probe", "collect", "limited"}
  BY DEF Suspended
<1> HIDE DEF to
<1>3. /\ Moves(c) /\ coll[c] \in SuspendedColl /\ coll[c].pc = "fleet" /\ coll'[c].pc # "done"
      /\ coll' \in [Colls -> NewColl \union SuspendedColl \union DoneColl]
  BY <1>1, <1>2, StepFrame DEF Moves, Suspended
<1>4. /\ committed \in EntryType /\ committed.query = entry.query
      /\ committed.limited = entry.limited
      /\ committed.generation = entry.generation /\ committed.inflight = entry.inflight
      /\ committed.dataset = ViewOf(c) /\ committed.source = coll[c].source
      /\ committed.until = entry.until
      /\ committed.retry = entry.retry /\ committed.overtaken = entry.overtaken
  <2>1. coll[c].source \in Sources
    BY <1>3 DEF SuspendedColl
  <2> QED BY <2>1, CommittedFrame
<1> HIDE DEF committed
<1>5. /\ entry' \in EntryType
      /\ entry'.query = entry.query /\ entry'.generation = entry.generation
      /\ entry'.until = entry.until /\ entry'.inflight = entry.inflight
      /\ entry'.dataset = ViewOf(c) /\ entry'.source = coll[c].source
      /\ entry'.retry = entry.retry
      /\ LimitAfter(c)
  BY <1>1, <1>3, <1>4, ReportedFrame DEF LimitAfter
<1> QED BY <1>1, <1>3, <1>5 DEF Continues, InFlightAfter, DatasetAfter, RetryAfter

LEMMA ReportsContinues ==
    ASSUME StoreTypeOK, NEW c \in Colls, Reports(c) PROVE Continues(c)
<1>1. /\ Moves(c) /\ coll[c] \in SuspendedColl
      /\ coll' \in [Colls -> NewColl \union SuspendedColl \union DoneColl]
  BY StepFrame DEF Reports, Moves, Suspended
<1>2. entry \in EntryType /\ entry' = Reported(entry, c) /\ Rest
  BY DEF Reports, StoreTypeOK
<1> QED BY <1>1, <1>2, ReportedFrame
        DEF Continues, InFlightAfter, DatasetAfter, LimitAfter, RetryAfter

LEMMA FinishesContinues ==
    ASSUME StoreTypeOK, NEW c \in Colls, Finishes(c) PROVE Continues(c)
<1>1. /\ Moves(c) /\ coll'[c].pc = "done" /\ Rest
      /\ coll' \in [Colls -> NewColl \union SuspendedColl \union DoneColl]
  BY EndsMoves DEF Finishes, Suspended
<1>2. CASE Current(c)
  <2>1. entry \in EntryType /\ entry' = Ended(entry)
    BY <1>2 DEF Finishes, StoreTypeOK
  <2> QED BY <1>1, <1>2, <2>1, EndedFrame
          DEF Continues, InFlightAfter, DatasetAfter, LimitAfter, RetryAfter
<1>3. CASE ~Current(c)
  <2>1. entry' = entry
    BY <1>3 DEF Finishes
  <2> QED BY <1>1, <2>1
          DEF Continues, InFlightAfter, DatasetAfter, LimitAfter, RetryAfter, StoreTypeOK
<1> QED BY <1>2, <1>3

LEMMA CatchesContinues ==
    ASSUME StoreTypeOK, NEW c \in Colls, Catches(c) PROVE Continues(c)
<1>1. /\ Moves(c) /\ coll'[c].pc = "done" /\ Rest
      /\ coll' \in [Colls -> NewColl \union SuspendedColl \union DoneColl]
  BY EndsMoves DEF Catches, Suspended
<1>2. CASE Current(c)
  <2> DEFINE limited == IF coll[c].pc = "limited" THEN c ELSE None
             shown == [entry EXCEPT !.status = "error", !.overtaken = FALSE,
                                    !.limited = limited]
  <2>1. limited \in Optional(Colls) /\ (limited = None \/ (limited = c /\ coll[c].pc = "limited"))
    BY DEF Optional
  <2>2. entry' = Ended(shown)
    BY <1>2 DEF Catches
  <2> HIDE DEF limited
  <2>3. /\ shown \in EntryType /\ shown.query = entry.query /\ shown.limited = limited
        /\ shown.generation = entry.generation /\ shown.inflight = entry.inflight
        /\ shown.dataset = entry.dataset /\ shown.source = entry.source
        /\ shown.until = entry.until /\ shown.retry = entry.retry /\ shown.overtaken = FALSE
    BY <2>1, FailedFrame DEF Optional
  <2> HIDE DEF shown
  <2> QED BY <1>1, <1>2, <2>1, <2>2, <2>3, EndedFrame
          DEF Continues, InFlightAfter, DatasetAfter, LimitAfter, RetryAfter
<1>3. CASE ~Current(c)
  <2>1. entry' = entry
    BY <1>3 DEF Catches
  <2> QED BY <1>1, <2>1
          DEF Continues, InFlightAfter, DatasetAfter, LimitAfter, RetryAfter, StoreTypeOK
<1> QED BY <1>2, <1>3

LEMMA CollectionStepContinues ==
    ASSUME StoreTypeOK, NEW c \in Colls, CollectionStep(c) PROVE Continues(c)
<1>1. CASE Probed(c)
  BY <1>1, ProbedContinues
<1>2. CASE Collected(c) \/ Viewed(c) \/ Throws(c)
  BY <1>2, StepContinues DEF Collected, Viewed, Throws, Rest, Suspended
<1>3. CASE Discards(c)
  BY <1>3, EndsContinues DEF Discards, Rest, Suspended
<1>4. CASE Commits(c) \/ Reports(c) \/ Finishes(c) \/ Catches(c)
  BY <1>4, CommitsContinues, ReportsContinues, FinishesContinues, CatchesContinues
<1> QED BY <1>1, <1>2, <1>3, <1>4 DEF CollectionStep, Succeeds

---------------------------------------------------------------------------
(* The start of a collection: every other one is superseded.               *)
Starts(c) ==
    \E q \in Queries, force, bypass, resume \in BOOLEAN :
        StartCollection(c, q, force, bypass, resume)

LEMMA StartKeepsSettled ==
    ASSUME StoreTypeOK, CommittedIsKnown, NEW c \in Colls, Starts(c)
    PROVE  KeepsSettled /\ (\A b \in Colls \ {c} : coll'[b] = coll[b]) /\ coll[c].pc = "new"
BY StartFrame DEF Starts, KeepsSettled, Settles, CommittedIsKnown

LEMMA RunningAfterStart ==
    ASSUME StoreTypeOK, CollectionInv, NEW c \in Colls, Starts(c)
    PROVE  /\ coll'[c].generation = entry'.generation
           /\ entry'.generation = entry.generation + 1 /\ entry.generation \in Nat
           /\ \A b \in Running' \ {c} :
                /\ b \in Running /\ coll'[b] = coll[b]
                /\ coll[b].origin \in Colls /\ coll[b].generation \in Nat
                /\ ~Current(b)'
<1>1. PICK q \in Queries, force \in BOOLEAN, bypass \in BOOLEAN, resume \in BOOLEAN :
        StartCollection(c, q, force, bypass, resume)
  BY DEF Starts
<1>2. /\ coll'[c].generation = entry'.generation
      /\ entry'.generation = entry.generation + 1 /\ entry.generation \in Nat
      /\ \A b \in Colls \ {c} : coll'[b] = coll[b]
  BY <1>1, StartFrame DEF CollectionInv, CommittedIsKnown, StoreTypeOK, EntryType
<1>3. ASSUME NEW b \in Running', b # c
      PROVE  /\ b \in Running /\ coll'[b] = coll[b]
             /\ coll[b].origin \in Colls /\ coll[b].generation \in Nat
  BY <1>2, <1>3, CollFields DEF Running, SuspendedColl
<1>4. \A b \in Running' \ {c} : ~Current(b)'
  BY <1>2, <1>3 DEF Current, CollectionInv, GenerationsGrow
<1> QED BY <1>2, <1>3, <1>4

LEMMA StartPreserves ==
    ASSUME StoreTypeOK, CollectionInv, WindowIsFrozen, NEW c \in Colls, Starts(c),
           token' = token, disposal' = disposal
    PROVE  CollectionInv' /\ WindowIsFrozen' /\ ArmedTimerIsLive'
<1> USE DEF CollectionInv
<1>1. PICK q \in Queries, force \in BOOLEAN, bypass \in BOOLEAN, resume \in BOOLEAN :
        StartCollection(c, q, force, bypass, resume)
  BY DEF Starts
<1> DEFINE kept == Retains(q, force, bypass)
           until == Until(c, q, force, bypass, resume)
<1>2. /\ until \in Optional(Colls)
      /\ coll[c].pc = "new" /\ ~Disposed
      /\ coll'[c].pc = (IF kept THEN "view" ELSE "probe")
      /\ coll'[c].source = q.source /\ coll'[c].query = q
      /\ coll'[c].interrupted = (IF kept THEN entry.limited ELSE None)
      /\ coll'[c].until = (IF kept THEN None ELSE until)
      /\ coll'[c].origin = (IF kept THEN coll[CollOf(entry.dataset)].origin ELSE c)
      /\ coll'[c].token = token
      /\ entry'.query = q /\ entry'.limited = None /\ entry'.inflight = c
      /\ entry'.dataset = entry.dataset /\ entry'.source = entry.source
      /\ entry'.until = until /\ entry'.retry = 0
      /\ entry'.overtaken = (kept /\ entry.overtaken)
      /\ kept => entry.dataset # None /\ entry.source = q.source
  BY <1>1, StartFrame DEF CommittedIsKnown
<1>3. kept => until = entry.until
  BY DEF Until
<1>4. ~kept => until # None
  BY StoreConstants DEF Until
<1> HIDE DEF kept, until
<1>5. KeepsSettled
  BY StartKeepsSettled
<1>6. CommittedIsKnown' /\ CommittedDataIsCurrent'
  BY <1>2, <1>5, KnownStaysKnown DEF CommittedIsKnown, CommittedDataIsCurrent
<1>7. GenerationsGrow'
  BY RunningAfterStart DEF GenerationsGrow
<1>8. CurrentIsInFlight'
  BY <1>2, RunningAfterStart DEF CurrentIsInFlight
<1>9. DisposalWaits'
  BY <1>2 DEF DisposalWaits, Disposed
<1>10. PICK o \in Colls : /\ coll'[c].origin = o
                          /\ coll'[o].token = token
                          /\ o # c => coll'[o].pc \notin {"new", "probe"}
                                      /\ coll'[o].query.source = q.source
  <2>1. CASE kept
    <3>1. /\ Known(entry.dataset) /\ SourceRead(entry.dataset) = q.source
          /\ TokenRead(entry.dataset) = token
      BY <1>2, <2>1 DEF CommittedIsKnown, CommittedDataIsCurrent
    <3>2. PICK b \in Colls : b = CollOf(entry.dataset) /\ Settles(b)
      BY <3>1 DEF Known, CollOf
    <3>3. PICK o \in Colls : o = coll[b].origin /\ Settles(o)
      BY <3>1, <3>2, CollFields DEF Known, Settles
    <3>4. coll[o].query.source = q.source /\ coll[o].token = token
      BY <3>1, <3>2, <3>3 DEF SourceRead, TokenRead
    <3>5. coll'[c].origin = o
      BY <1>2, <2>1, <3>2, <3>3
    <3> QED BY <1>5, <3>3, <3>4, <3>5 DEF KeepsSettled, Settles
  <2>2. CASE ~kept
    BY <1>2, <2>2
  <2> QED BY <2>1, <2>2
<1>11. OriginsAreKnown'
  <2> SUFFICES ASSUME NEW b \in Running', coll'[b].origin # b
               PROVE  /\ coll'[coll'[b].origin].pc \notin {"new", "probe"}
                      /\ coll'[coll'[b].origin].query.source = coll'[b].source
    BY DEF OriginsAreKnown, Settles
  <2>1. CASE b = c
    BY <1>2, <1>10, <2>1
  <2>2. CASE b # c
    BY <1>5, <2>2, RunningAfterStart DEF OriginsAreKnown, KeepsSettled, Settles
  <2> QED BY <2>1, <2>2
<1>12. CurrentIsAsAsked'
  <2> SUFFICES ASSUME NEW b \in Running', Current(b)'
               PROVE  /\ coll'[b].query = entry'.query
                      /\ coll'[b].source = entry'.query.source
                      /\ coll'[coll'[b].origin].token = token'
    BY DEF CurrentIsAsAsked
  <2>1. b = c
    BY RunningAfterStart
  <2> QED BY <1>2, <1>10, <2>1
<1>13. WindowIsFrozen'
  <2> SUFFICES ASSUME UntilSupported, NEW b \in Running', Current(b)'
               PROVE  /\ coll'[b].interrupted # None /\ ~entry'.overtaken
                           => IsFrozen(coll[b].interrupted)'
                      /\ coll'[b].pc \in {"probe", "collect", "limited"} =>
                           entry'.until # None /\ coll'[b].until = entry'.until
    BY <1>2 DEF WindowIsFrozen
  <2>1. b = c
    BY RunningAfterStart
  <2>2. ASSUME coll'[c].interrupted # None, ~entry'.overtaken
        PROVE  IsFrozen(coll[c].interrupted)'
    <3>1. kept /\ entry.limited # None /\ ~entry.overtaken /\ coll'[c].interrupted = entry.limited
      BY <1>2, <2>2
    <3>2. PICK a \in Colls : a = entry.limited
      BY <3>1 DEF StoreTypeOK, EntryType, Optional
    <3>3. IsFrozen(a)
      BY <3>1, <3>2 DEF WindowIsFrozen
    <3> QED BY <1>2, <1>3, <1>5, <3>1, <3>2, <3>3 DEF IsFrozen, KeepsSettled, Settles
  <2> QED BY <1>2, <1>4, <2>1, <2>2
<1>14. ArmedTimerIsLive'
  BY <1>2 DEF ArmedTimerIsLive
<1> QED BY <1>6, <1>7, <1>8, <1>9, <1>11, <1>12, <1>13, <1>14

---------------------------------------------------------------------------
(* Steps that leave the collections alone. *)
LEMMA StillSettled ==
    ASSUME coll' = coll PROVE KeepsSettled
BY DEF KeepsSettled, Settles

LEMMA InvalidatePreserves ==
    ASSUME StoreTypeOK, CollectionInv, InvalidateAuth
    PROVE  /\ CollectionInv' /\ WindowIsFrozen' /\ ArmedTimerIsLive' /\ StoreTypeOK'
<1>1. /\ entry' \in EntryType /\ entry'.generation = entry.generation + 1
      /\ entry'.dataset = None /\ entry'.limited = None /\ entry'.retry = 0
      /\ entry.generation \in Nat
  <2>1. entry \in EntryType /\ entry.generation \in Nat /\ entry.generation + 1 \in Nat
    BY DEF StoreTypeOK, EntryType
  <2> DEFINE now == entry.generation + 1
  <2>2. entry' = [entry EXCEPT
                   !.status = "idle", !.limited = None, !.generation = now,
                   !.inflight = None, !.dataset = None, !.metrics = None,
                   !.until = None, !.retry = 0, !.overtaken = FALSE]
    BY DEF InvalidateAuth
  <2>3. now \in Nat
    BY <2>1
  <2> HIDE DEF now
  <2>4. /\ entry' \in EntryType /\ entry'.generation = now
        /\ entry'.dataset = None /\ entry'.limited = None /\ entry'.retry = 0
    BY <2>1, <2>2, <2>3 DEF EntryType, Optional
  <2> QED BY <2>1, <2>4 DEF now
<1>2. coll' = coll /\ disposal' = disposal /\ reader' = reader /\ listeners' = listeners
      /\ token' = token + 1
  BY DEF InvalidateAuth
<1>3. \A b \in Running' : b \in Running /\ coll[b].generation \in Nat
  BY <1>2, CollFields DEF Running, SuspendedColl
<1>4. \A b \in Running' : ~Current(b)'
  BY <1>1, <1>2, <1>3 DEF Current, CollectionInv, GenerationsGrow
<1>5. GenerationsGrow'
  BY <1>1, <1>2, <1>3 DEF GenerationsGrow, CollectionInv
<1>6. OriginsAreKnown'
  BY <1>2, <1>3 DEF OriginsAreKnown, CollectionInv, Settles
<1>7. CollectionInv'
  BY <1>1, <1>4, <1>5, <1>6
     DEF CollectionInv, CommittedIsKnown, CommittedDataIsCurrent, CurrentIsInFlight,
         DisposalWaits, CurrentIsAsAsked
<1>8. WindowIsFrozen' /\ ArmedTimerIsLive'
  BY <1>1, <1>4 DEF WindowIsFrozen, ArmedTimerIsLive
<1>9. StoreTypeOK'
  BY <1>1, <1>2 DEF StoreTypeOK
<1> QED BY <1>7, <1>8, <1>9

(* The panels that come and go, and dispose(), keep what collections rely  *)
(* on.                                                                     *)
EntryKept ==
    /\ entry' \in EntryType
    /\ entry'.query = entry.query /\ entry'.generation = entry.generation
    /\ entry'.inflight = entry.inflight /\ entry'.source = entry.source
    /\ entry'.limited = entry.limited /\ entry'.overtaken = entry.overtaken
    /\ entry'.until = entry.until
    /\ entry'.dataset = entry.dataset \/ entry'.dataset = None
    /\ UNCHANGED <<coll, reader, token>>

LEMMA KeptPreserves ==
    ASSUME StoreTypeOK, CollectionInv, WindowIsFrozen, EntryKept, DisposalWaits',
           listeners' \in Nat, disposal' \in DisposalType
    PROVE  CollectionInv' /\ WindowIsFrozen' /\ StoreTypeOK'
<1>1. KeepsSettled
  BY StillSettled DEF EntryKept
<1>2. CommittedIsKnown' /\ CommittedDataIsCurrent'
  BY <1>1, KnownStaysKnown
     DEF CollectionInv, EntryKept, CommittedIsKnown, CommittedDataIsCurrent
<1>3. GenerationsGrow' /\ CurrentIsInFlight' /\ OriginsAreKnown' /\ CurrentIsAsAsked'
  BY DEF CollectionInv, EntryKept, GenerationsGrow, CurrentIsInFlight, OriginsAreKnown,
         CurrentIsAsAsked, Running, Current, Settles
<1>4. WindowIsFrozen'
  BY DEF EntryKept, WindowIsFrozen, IsFrozen, Running, Current, Settles
<1>5. StoreTypeOK'
  BY DEF EntryKept, StoreTypeOK
<1> QED BY <1>2, <1>3, <1>4, <1>5 DEF CollectionInv

LEMMA SubscribersPreserve ==
    ASSUME StoreTypeOK, CollectionInv, WindowIsFrozen, ArmedTimerIsLive,
           Subscribe \/ Unsubscribe
    PROVE  CollectionInv' /\ WindowIsFrozen' /\ ArmedTimerIsLive' /\ StoreTypeOK'
<1>1. disposal' = disposal /\ listeners' \in Nat /\ entry \in EntryType
  BY DEF Subscribe, Unsubscribe, StoreTypeOK
<1>2. CASE Subscribe
  <2>1. listeners + 1 \in Nat /\ listeners' = listeners + 1
    BY <1>2 DEF Subscribe, StoreTypeOK
  <2>2. CASE entry.inflight = None /\ entry.retry = 0
    <3>1. entry' = ScheduleRetry(entry, listeners + 1)
      BY <1>2, <2>2 DEF Subscribe
    <3>2. EntryKept
      BY <1>1, <1>2, <2>1, <3>1, ScheduleFrame DEF EntryKept, Subscribe
    <3>3. /\ entry'.retry = (IF MayRetry(entry, listeners + 1) THEN entry.generation ELSE entry.retry)
          /\ entry'.generation = entry.generation /\ entry'.inflight = entry.inflight
          /\ entry'.limited = entry.limited
      BY <1>1, <2>1, <3>1, ScheduleFrame
    <3>4. ArmedTimerIsLive'
      BY <1>1, <2>1, <2>2, <3>3 DEF ArmedTimerIsLive, MayRetry, Disposed
    <3> QED BY <1>1, <3>2, <3>4, KeptPreserves
            DEF CollectionInv, DisposalWaits, Running, Current, Disposed, EntryKept, StoreTypeOK
  <2>3. CASE ~(entry.inflight = None /\ entry.retry = 0)
    <3>1. entry' = entry /\ UNCHANGED <<coll, reader, token>>
      BY <1>2, <2>3 DEF Subscribe
    <3>2. ArmedTimerIsLive'
      BY <1>1, <2>1, <3>1 DEF ArmedTimerIsLive, MayRetry, Disposed, StoreTypeOK
    <3> QED BY <1>1, <3>1, <3>2, KeptPreserves
            DEF CollectionInv, DisposalWaits, Running, Current, Disposed, EntryKept, StoreTypeOK
  <2> QED BY <2>2, <2>3
<1>3. CASE Unsubscribe
  <2>1. EntryKept
    BY <1>1, <1>3 DEF EntryKept, Unsubscribe, EntryType
  <2>2. ArmedTimerIsLive'
    <3>1. CASE listeners = 1
      BY <1>1, <1>3, <3>1 DEF Unsubscribe, ArmedTimerIsLive, EntryType
    <3>2. CASE listeners # 1
      <4>1. entry' = entry /\ listeners' > 0
        BY <1>3, <3>2 DEF Unsubscribe, StoreTypeOK
      <4> QED BY <1>1, <4>1 DEF ArmedTimerIsLive, MayRetry, Disposed
    <3> QED BY <3>1, <3>2
  <2> QED BY <1>1, <2>1, <2>2, KeptPreserves
          DEF CollectionInv, DisposalWaits, Running, Current, Disposed, EntryKept, StoreTypeOK
<1> QED BY <1>2, <1>3

LEMMA DisposalPreserves ==
    ASSUME StoreTypeOK, CollectionInv, WindowIsFrozen, ArmedTimerIsLive,
           Dispose \/ DisposeRetires \/ DisposeEnds
    PROVE  CollectionInv' /\ WindowIsFrozen' /\ ArmedTimerIsLive' /\ StoreTypeOK'
<1>1. CASE Dispose
  <2>1. EntryKept /\ entry'.retry = 0 /\ listeners' \in Nat
    BY <1>1 DEF EntryKept, Dispose, StoreTypeOK, EntryType
  <2>2. disposal' = [pc |-> "waiting", awaits |-> entry.inflight] /\ disposal' \in DisposalType
    BY <1>1 DEF Dispose, DisposalType, StoreTypeOK, EntryType
  <2>3. DisposalWaits'
    BY <2>1, <2>2 DEF DisposalWaits, EntryKept, Running, Current, CollectionInv, CurrentIsInFlight
  <2> QED BY <2>1, <2>2, <2>3, KeptPreserves DEF ArmedTimerIsLive
<1>2. CASE DisposeRetires
  <2>1. EntryKept /\ entry' = entry /\ listeners' = listeners
    BY <1>2 DEF EntryKept, DisposeRetires, StoreTypeOK
  <2>2. /\ disposal' \in DisposalType /\ Disposed /\ Disposed'
        /\ disposal.awaits # None => coll[disposal.awaits].pc = "done"
    BY <1>2 DEF DisposeRetires, DisposalType, StoreTypeOK, Disposed
  <2>3. DisposalWaits'
    BY <2>1, <2>2, StoreConstants DEF DisposalWaits, EntryKept, Running, Current, CollectionInv
  <2>4. ArmedTimerIsLive'
    BY <2>1, <2>2 DEF ArmedTimerIsLive, MayRetry
  <2> QED BY <2>1, <2>2, <2>3, <2>4, KeptPreserves DEF StoreTypeOK
<1>3. CASE DisposeEnds
  <2>1. EntryKept /\ entry'.retry = entry.retry /\ listeners' = listeners
    BY <1>3 DEF EntryKept, DisposeEnds, StoreTypeOK, EntryType, Optional
  <2>2. disposal' \in DisposalType /\ disposal.pc = "retiring" /\ Disposed
    BY <1>3 DEF DisposeEnds, DisposalType, StoreTypeOK, Disposed
  <2>3. DisposalWaits'
    BY <2>1, <2>2 DEF DisposalWaits, EntryKept, Running, Current, CollectionInv
  <2>4. ArmedTimerIsLive'
    BY <2>1, <2>2 DEF ArmedTimerIsLive, MayRetry
  <2> QED BY <2>1, <2>2, <2>3, <2>4, KeptPreserves DEF StoreTypeOK
<1> QED BY <1>1, <1>2, <1>3

---------------------------------------------------------------------------
(* What a step of the datasets does to what its clients hold. *)
LEMMA LetGoHolds ==
    ASSUME TypeOK, NEW h \in Clients, holds[h] # None, LetGo(h)
    PROVE  holds'[h] = None /\ \A k \in Clients \ {h} : holds'[k] = holds[k]
<1>1. holds[h] \in Datasets /\ h \in Holders /\ Clients \subseteq Holders
  BY StoreConstants DEF TypeOK
<1>2. \A k \in Clients \ {h} : k \notin Freed(h)
  BY <1>1, StoreConstants DEF Freed
<1>3. h \in Freed(h)
  BY DEF Freed
<1> QED BY <1>1, <1>2, <1>3 DEF LetGo, Cleared

LEMMA TakenHolds ==
    ASSUME TypeOK, NEW k \in Clients, NEW o \in Clients, o # k,
           \E d \in Datasets : CreateRoot(o, d) \/ AcquireRoot(o, d) \/ Acquire(o, d)
    PROVE  holds'[k] = holds[k]
<1>1. k \notin Datasets /\ k \in Holders
  BY StoreConstants
<1> QED BY <1>1 DEF TypeOK, CreateRoot, AcquireRoot, Acquire, Take

LEMMA GivenHolds ==
    ASSUME TypeOK, NEW o \in Clients, DropRoot(o) \/ Retire(o) \/ ReleaseReader(o)
    PROVE  holds'[o] = None /\ \A k \in Clients \ {o} : holds'[k] = holds[k]
BY LetGoHolds DEF DropRoot, Retire, ReleaseReader

LEMMA CommitHolds ==
    ASSUME TypeOK, NEW o \in Clients, NEW s \in Clients, Commit(o, s)
    PROVE  holds'[o] = None /\ \A k \in Clients \ {o, s} : holds'[k] = holds[k]
<1>1. o \in Holders /\ s \in Holders /\ Clients \subseteq Holders /\ o # s
  BY StoreConstants DEF Commit
<1>2. CASE holds[s] = None
  BY <1>1, <1>2 DEF Commit, TypeOK
<1>3. CASE holds[s] # None
  <2>1. holds' = [Cleared(Freed(s)) EXCEPT ![s] = holds[o], ![o] = None]
    BY <1>3 DEF Commit
  <2>2. Cleared(Freed(s)) \in [Holders -> Datasets \union {None}]
    BY DEF Cleared, TypeOK
  <2>3. \A k \in Clients \ {s} : k \notin Freed(s)
    BY <1>1, <1>3, StoreConstants DEF Freed, TypeOK
  <2>4. \A k \in Clients \ {o, s} : Cleared(Freed(s))[k] = holds[k]
    BY <1>1, <2>3 DEF Cleared
  <2> DEFINE before == Cleared(Freed(s))
  <2> HIDE DEF before
  <2> QED BY <1>1, <2>1, <2>2, <2>4 DEF before
<1> QED BY <1>2, <1>3

LEMMA RemovedHolds ==
    ASSUME TypeOK, NEW d \in Datasets, Removed(d)
    PROVE  \A k \in Clients : holds'[k] = holds[k]
BY StoreConstants DEF Removed, Cleared, TypeOK

(* The credential has changed, or dispose() goes on: the entry gives up    *)
(* what it holds, if anything.                                             *)
LEMMA EntryHolds ==
    ASSUME TypeOK, IF holds[Entry] = None THEN UNCHANGED datasetVars ELSE Retire(Entry)
    PROVE  holds'[Entry] = None /\ \A k \in Clients \ {Entry} : holds'[k] = holds[k]
BY StoreConstants, GivenHolds DEF datasetVars

---------------------------------------------------------------------------
(* Every step of the store is a step of the datasets, or leaves them alone. *)
LEMMA CollectionUsesDatasets ==
    ASSUME NEW c \in Colls, CollectionStep(c)
    PROVE  OwnerStep(c) \/ UNCHANGED datasetVars
<1>1. CASE Succeeds(c)
  <2>1. RootOf(c) \in Datasets /\ ViewOf(c) \in Datasets /\ Entry \in Owners
    BY StoreConstants
  <2>2. (coll[c].query.window \in Filtered) \in BOOLEAN
    OBVIOUS
  <2> QED BY <1>1, <2>1, <2>2
          DEF Succeeds, Probed, Collected, Viewed, Discards, Commits, Reports, Finishes, OwnerStep
<1>2. CASE Throws(c)
  BY <1>2 DEF Throws, OwnerStep
<1>3. CASE Catches(c)
  BY <1>3 DEF Catches
<1> QED BY <1>1, <1>2, <1>3 DEF CollectionStep

LEMMA StartUsesDatasets ==
    ASSUME StoreTypeOK, NEW c \in Colls, Starts(c)
    PROVE  (\E v \in Datasets : AcquireRoot(c, v)) \/ UNCHANGED datasetVars
<1>1. PICK q \in Queries, force \in BOOLEAN, bypass \in BOOLEAN, resume \in BOOLEAN :
        StartCollection(c, q, force, bypass, resume)
  BY DEF Starts
<1>2. Retains(q, force, bypass) => entry.dataset \in Datasets
  BY DEF Retains, StoreTypeOK, EntryType, Optional
<1> QED BY <1>1, <1>2 DEF StartCollection

LEMMA ReadsUseDatasets ==
    ASSUME StoreTypeOK, NEW r \in Readers, Reads(r)
    PROVE  entry.dataset \in Datasets /\ Acquire(r, entry.dataset)
BY DEF Reads, MayRead, StoreTypeOK, EntryType, Optional

(* The starts of a collection, among the steps of the store. *)
LEMMA StartsAreStarts ==
    /\ \A c \in Colls, q \in Queries, force, bypass \in BOOLEAN :
         Refresh(c, q, force, bypass) => Starts(c)
    /\ StoreTypeOK => \A c \in Colls : RetryFires(c) => Starts(c)
<1>1. StoreTypeOK => entry.query \in Queries
  BY DEF StoreTypeOK, EntryType
<1> QED BY <1>1 DEF Refresh, RetryFires, Starts

---------------------------------------------------------------------------
(* Readers, and what they hold. *)
LEMMA ReaderStays ==
    ASSUME StoreTypeOK, TypeOK, KeepsSettled, NEW r \in Readers, ReaderInv(r),
           reader'[r] = reader[r], holds'[r] = holds[r]
    PROVE  ReaderInv(r)'
<1>1. CASE reader[r].pc = "reading"
  <2>1. PICK d : d = holds[r]
    OBVIOUS
  <2>2. Known(d) /\ d # None /\ SourceRead(d) = reader[r].query.source /\ TokenRead(d) = reader[r].token
    BY <1>1, <2>1 DEF ReaderInv
  <2>3. Known(d)' /\ SourceRead(d)' = SourceRead(d) /\ TokenRead(d)' = TokenRead(d)
    BY <2>2, KnownStaysKnown
  <2>4. holds'[r] = d
    BY <2>1
  <2> QED BY <1>1, <2>2, <2>3, <2>4 DEF ReaderInv, Known, SourceRead, TokenRead, Settles
<1>2. CASE reader[r].pc # "reading"
  BY <1>2 DEF ReaderInv
<1> QED BY <1>1, <1>2

LEMMA ReadersStay ==
    ASSUME StoreTypeOK, TypeOK, KeepsSettled, \A r \in Readers : ReaderInv(r),
           \A r \in Readers : reader'[r] = reader[r] /\ holds'[r] = holds[r]
    PROVE  \A r \in Readers : ReaderInv(r)'
BY ReaderStays

(* A caller of withDataset, whatever it does, is what it was or is given   *)
(* the dataset in hand.                                                    *)
LEMMA WaitingFrame ==
    ASSUME StoreTypeOK, NEW r \in Readers, NEW q \in Queries, NEW c \in Optional(Colls),
           reader' = Waiting(r, q, c)
    PROVE  /\ reader' \in [Readers -> ReaderType]
           /\ reader'[r].pc = "waiting"
           /\ \A p \in Readers \ {r} : reader'[p] = reader[p]
<1> DEFINE now == [pc |-> "waiting", query |-> q, awaits |-> c]
<1>1. now \in ReaderType /\ now.pc = "waiting"
  BY DEF ReaderType
<1>2. reader' = [reader EXCEPT ![r] = now]
  BY DEF Waiting
<1> HIDE DEF now
<1> QED BY <1>1, <1>2 DEF StoreTypeOK

LEMMA ReadingFrame ==
    ASSUME StoreTypeOK, NEW r \in Readers, Reads(r)
    PROVE  /\ reader' \in [Readers -> ReaderType]
           /\ reader'[r].pc = "reading" /\ reader'[r].query = reader[r].query
           /\ reader'[r].token = token
           /\ \A p \in Readers \ {r} : reader'[p] = reader[p]
<1> DEFINE now == [pc |-> "reading", query |-> reader[r].query, token |-> token]
<1>1. reader[r].query \in Queries
  BY DEF StoreTypeOK, ReaderType, Reads
<1>2. now \in ReaderType /\ now.pc = "reading" /\ now.query = reader[r].query /\ now.token = token
  BY <1>1 DEF ReaderType, StoreTypeOK
<1>3. reader' = [reader EXCEPT ![r] = now]
  BY DEF Reads
<1> HIDE DEF now
<1> QED BY <1>2, <1>3 DEF StoreTypeOK

LEMMA IdleFrame ==
    ASSUME StoreTypeOK, NEW r \in Readers, reader' = [reader EXCEPT ![r] = [pc |-> "idle"]]
    PROVE  /\ reader' \in [Readers -> ReaderType]
           /\ reader'[r].pc = "idle"
           /\ \A p \in Readers \ {r} : reader'[p] = reader[p]
<1> DEFINE now == [pc |-> "idle"]
<1>1. now \in ReaderType /\ now.pc = "idle"
  BY DEF ReaderType
<1> HIDE DEF now
<1> QED BY <1>1 DEF StoreTypeOK, now

(* Reading begins with a dataset of the source asked for and of the token  *)
(* in force, because that is what is committed.                            *)
LEMMA ReadsGives ==
    ASSUME StoreTypeOK, TypeOK, CollectionInv, NEW r \in Readers, Reads(r)
    PROVE  ReaderInv(r)'
<1>1. PICK d \in Datasets : d = entry.dataset
  BY ReadsUseDatasets
<1>2. Known(d) /\ SourceRead(d) = entry.source /\ TokenRead(d) = token /\ d # None
  BY <1>1, StoreConstants DEF CollectionInv, CommittedIsKnown, CommittedDataIsCurrent
<1>3. entry.source = reader[r].query.source
  BY DEF Reads, MayRead
<1>4. KeepsSettled
  BY StillSettled DEF Reads
<1>5. Known(d)' /\ SourceRead(d)' = SourceRead(d) /\ TokenRead(d)' = TokenRead(d)
  BY <1>2, <1>4, KnownStaysKnown
<1>6. holds'[r] = d
  BY <1>1, StoreConstants DEF Reads, Acquire, Take, TypeOK
<1>7. /\ reader'[r].pc = "reading" /\ reader'[r].query = reader[r].query
      /\ reader'[r].token = token
  BY ReadingFrame
<1> QED BY <1>2, <1>3, <1>5, <1>6, <1>7 DEF ReaderInv, Known, SourceRead, TokenRead, Settles

---------------------------------------------------------------------------
(* Collections and the entry, and what they hold. *)
LEMMA CollectionHolds ==
    ASSUME StoreTypeOK, TypeOK, HoldersInv, CollectionInv, NEW c \in Colls, CollectionStep(c)
    PROVE  /\ \A k \in Clients \ {c, Entry} : holds'[k] = holds[k]
           /\ holds'[c] # None => coll'[c].pc \in {"view", "fleet"}
           /\ holds'[Entry] # None => disposal.pc \in {"no", "waiting"}
<1>1. /\ c \in Clients /\ Entry \in Clients /\ c # Entry
      /\ RootOf(c) \in Datasets /\ ViewOf(c) \in Datasets
  BY StoreConstants
<1>2. Continues(c)
  BY CollectionStepContinues
<1> USE DEF HoldersInv
<1>3. ASSUME \A k \in Clients : holds'[k] = holds[k], coll[c].pc \notin {"view", "fleet"}
      PROVE  /\ \A k \in Clients \ {c, Entry} : holds'[k] = holds[k]
             /\ holds'[c] = None
             /\ holds'[Entry] # None => disposal.pc \in {"no", "waiting"}
  BY <1>1, <1>3
<1>4. CASE Probed(c) \/ Reports(c) \/ Finishes(c) \/ Catches(c)
  <2>1. coll[c].pc \notin {"view", "fleet"}
    BY <1>4 DEF Probed, Reports, Finishes, Catches, Step, Ends
  <2>2. \A k \in Clients : holds'[k] = holds[k]
    BY <1>4 DEF Probed, Reports, Finishes, Catches, datasetVars
  <2> QED BY <1>3, <2>1, <2>2
<1>5. CASE Collected(c)
  <2>1. coll'[c].pc = "view"
    BY <1>5, StepFrame DEF Collected, Suspended
  <2>2. CreateRoot(c, RootOf(c))
    BY <1>5 DEF Collected
  <2> QED BY <1>1, <2>1, <2>2, TakenHolds
<1>6. CASE Viewed(c)
  <2>1. coll'[c].pc = "fleet"
    BY <1>6, StepFrame DEF Viewed, Suspended
  <2>2. \A k \in Clients \ {c} : holds'[k] = holds[k]
    BY <1>1, <1>6, StoreConstants DEF Viewed, CreateView, TypeOK
  <2> QED BY <1>1, <2>1, <2>2
<1>7. CASE Discards(c)
  BY <1>1, <1>7, GivenHolds DEF Discards
<1>8. CASE Commits(c)
  <2>1. disposal.pc \in {"no", "waiting"}
    <3>1. c \in Running /\ Current(c)
      BY <1>2, <1>8, RunningAfter DEF Commits
    <3> QED BY <3>1 DEF CollectionInv, DisposalWaits, Disposed
  <2> QED BY <1>1, <1>8, <2>1, CommitHolds DEF Commits
<1>9. CASE Throws(c)
  <2>1. CASE DropRoot(c) \/ Retire(c)
    BY <1>1, <2>1, GivenHolds
  <2>2. CASE /\ UNCHANGED datasetVars
             /\ \/ Step(c, "probe", "failed") \/ Step(c, "collect", "failed")
                \/ Step(c, "collect", "limited") \/ Step(c, "retiring", "failed")
    BY <1>3, <2>2 DEF datasetVars, Step
  <2> QED BY <1>9, <2>1, <2>2 DEF Throws
<1> QED BY <1>4, <1>5, <1>6, <1>7, <1>8, <1>9 DEF CollectionStep, Succeeds

LEMMA CollectionKeepsHolders ==
    ASSUME StoreTypeOK, TypeOK, HoldersInv, CollectionInv, NEW c \in Colls, CollectionStep(c)
    PROVE  HoldersInv'
<1>1. Continues(c)
  BY CollectionStepContinues
<1>2. disposal' = disposal /\ \A b \in Colls \ {c} : coll'[b] = coll[b]
  BY <1>1 DEF Continues, Moves, Rest
<1>3. \A b \in Colls : b \in Clients /\ b # Entry
  BY StoreConstants
<1> QED BY <1>2, <1>3, CollectionHolds DEF HoldersInv

LEMMA StartHolds ==
    ASSUME StoreTypeOK, TypeOK, NEW c \in Colls, Starts(c)
    PROVE  \A k \in Clients \ {c} : holds'[k] = holds[k]
BY StartUsesDatasets, TakenHolds, StoreConstants DEF datasetVars

LEMMA StartKeepsHolders ==
    ASSUME StoreTypeOK, TypeOK, HoldersInv, CollectionInv, NEW c \in Colls, Starts(c),
           disposal' = disposal
    PROVE  HoldersInv'
<1>1. PICK q \in Queries, force \in BOOLEAN, bypass \in BOOLEAN, resume \in BOOLEAN :
        StartCollection(c, q, force, bypass, resume)
  BY DEF Starts
<1>2. /\ coll'[c].pc = (IF Retains(q, force, bypass) THEN "view" ELSE "probe")
      /\ coll[c].pc = "new" /\ \A b \in Colls \ {c} : coll'[b] = coll[b]
  BY <1>1, StartFrame DEF CollectionInv, CommittedIsKnown
<1>3. ~Retains(q, force, bypass) => holds' = holds
  BY <1>1 DEF StartCollection, datasetVars
<1>4. \A b \in Colls : b \in Clients /\ b # Entry /\ Entry \in Clients
  BY StoreConstants
<1> QED BY <1>2, <1>3, <1>4, StartHolds DEF HoldersInv

LEMMA OthersKeepHolders ==
    ASSUME TypeOK, HoldersInv, coll' = coll, disposal' = disposal,
           \A k \in Clients \ Readers : holds'[k] = holds[k] \/ holds'[k] = None
    PROVE  HoldersInv'
BY StoreConstants, ConstantsAssumption DEF HoldersInv

---------------------------------------------------------------------------
(* Every action of the store preserves its part of the invariant.          *)
LEMMA CollectionStepPreserves ==
    ASSUME StoreOwnInv, TypeOK, NEW c \in Colls, CollectionStep(c)
    PROVE  StoreOwnInv'
<1> USE DEF StoreOwnInv
<1>1. Continues(c)
  BY CollectionStepContinues
<1>2. StoreTypeOK' /\ CollectionInv' /\ WindowIsFrozen' /\ ArmedTimerIsLive'
  BY <1>1, ContinuesKeepsTypes, ContinuesPreserves, ContinuesKeepsWindow, ContinuesKeepsTimer
<1>3. HoldersInv'
  BY CollectionKeepsHolders
<1>4. \A r \in Readers : reader'[r] = reader[r] /\ holds'[r] = holds[r]
  BY <1>1, CollectionHolds, StoreConstants DEF Continues, Rest
<1>5. \A r \in Readers : ReaderInv(r)'
  BY <1>1, <1>4, ContinuesKeepsSettled, ReadersStay
<1> QED BY <1>2, <1>3, <1>5

LEMMA StartStepPreserves ==
    ASSUME StoreOwnInv, TypeOK, NEW c \in Colls, Starts(c), reader' \in [Readers -> ReaderType],
           \A r \in Readers : reader'[r] = reader[r]
                              \/ (reader[r].pc = "idle" /\ reader'[r].pc = "waiting")
    PROVE  StoreOwnInv'
<1> USE DEF StoreOwnInv
<1>1. UNCHANGED <<token, listeners, disposal>>
  BY DEF Starts, StartCollection
<1>2. CollectionInv' /\ WindowIsFrozen' /\ ArmedTimerIsLive' /\ HoldersInv'
  BY <1>1, StartPreserves, StartKeepsHolders
<1>3. StoreTypeOK'
  BY <1>1, StartFrame DEF Starts, StoreTypeOK, CollectionInv, CommittedIsKnown
<1>4. KeepsSettled
  BY StartKeepsSettled DEF CollectionInv
<1>5. ASSUME NEW r \in Readers PROVE ReaderInv(r)'
  <2>1. holds'[r] = holds[r]
    BY StartHolds, StoreConstants
  <2>2. CASE reader'[r] = reader[r]
    BY <1>4, <2>1, <2>2, ReaderStays
  <2>3. CASE reader[r].pc = "idle" /\ reader'[r].pc = "waiting"
    BY <2>1, <2>3 DEF ReaderInv
  <2> QED BY <2>2, <2>3
<1> QED BY <1>2, <1>3, <1>5

(* A step of reader r that starts no collection. *)
LEMMA ReaderStepPreserves ==
    ASSUME StoreOwnInv, TypeOK, NEW r \in Readers,
           UNCHANGED <<entry, coll, token, listeners, disposal>>,
           reader' \in [Readers -> ReaderType], ReaderInv(r)',
           \A p \in Readers \ {r} : reader'[p] = reader[p],
           \A k \in Clients \ {r} : holds'[k] = holds[k]
    PROVE  StoreOwnInv'
<1> USE DEF StoreOwnInv
<1>1. KeepsSettled
  BY StillSettled
<1>2. \A p \in Readers : ReaderInv(p)'
  BY <1>1, ReaderStays, StoreConstants
<1>3. HoldersInv'
  BY OthersKeepHolders
<1>4. CollectionInv' /\ WindowIsFrozen' /\ ArmedTimerIsLive'
  BY DEF CollectionInv, CommittedIsKnown, CommittedDataIsCurrent, GenerationsGrow,
         CurrentIsInFlight, DisposalWaits, OriginsAreKnown, CurrentIsAsAsked, WindowIsFrozen,
         ArmedTimerIsLive, MayRetry, Known, SourceRead, TokenRead, Settles, IsFrozen, Running,
         Current, Disposed
<1>5. StoreTypeOK'
  BY DEF StoreTypeOK
<1> QED BY <1>2, <1>3, <1>4, <1>5

LEMMA AsksPreserves ==
    ASSUME StoreOwnInv, TypeOK, NEW r \in Readers, NEW q \in Queries, Asks(r, q)
    PROVE  StoreOwnInv'
<1> USE DEF StoreOwnInv
<1>1. reader[r].pc = "idle" /\ holds[r] = None
  BY DEF Asks, ReaderInv
<1>2. ASSUME NEW c \in Optional(Colls), reader' = Waiting(r, q, c),
             UNCHANGED <<entry, coll, token, listeners, disposal, datasetVars>>
      PROVE  StoreOwnInv'
  <2>1. /\ reader' \in [Readers -> ReaderType] /\ reader'[r].pc = "waiting"
        /\ \A p \in Readers \ {r} : reader'[p] = reader[p]
    BY <1>2, WaitingFrame
  <2>2. holds' = holds
    BY <1>2 DEF datasetVars
  <2>3. ReaderInv(r)'
    BY <1>1, <2>1, <2>2 DEF ReaderInv
  <2> QED BY <1>2, <2>1, <2>2, <2>3, ReaderStepPreserves
<1>3. ASSUME NEW c \in Colls, StartCollection(c, q, FALSE, FALSE, FALSE),
             reader' = Waiting(r, q, c)
      PROVE  StoreOwnInv'
  <2>1. /\ reader' \in [Readers -> ReaderType] /\ reader'[r].pc = "waiting"
        /\ \A p \in Readers \ {r} : reader'[p] = reader[p]
    BY <1>3, WaitingFrame DEF Optional
  <2>2. Starts(c)
    BY <1>3 DEF Starts
  <2> QED BY <1>1, <2>1, <2>2, StartStepPreserves
<1>4. entry.inflight \in Optional(Colls) /\ None \in Optional(Colls)
  BY DEF StoreTypeOK, EntryType, Optional
<1> QED BY <1>2, <1>3, <1>4 DEF Asks

LEMMA ReadsPreserves ==
    ASSUME StoreOwnInv, TypeOK, NEW r \in Readers, Reads(r)
    PROVE  StoreOwnInv'
<1> USE DEF StoreOwnInv
<1>1. /\ reader' \in [Readers -> ReaderType] /\ ReaderInv(r)'
      /\ \A p \in Readers \ {r} : reader'[p] = reader[p]
  BY ReadingFrame, ReadsGives
<1>2. \A k \in Clients \ {r} : holds'[k] = holds[k]
  BY ReadsUseDatasets, TakenHolds, StoreConstants
<1> QED BY <1>1, <1>2, ReaderStepPreserves DEF Reads

LEMMA LeavesPreserves ==
    ASSUME StoreOwnInv, TypeOK, NEW r \in Readers, Refused(r) \/ Returns(r)
    PROVE  StoreOwnInv'
<1> USE DEF StoreOwnInv
<1>1. /\ reader' \in [Readers -> ReaderType] /\ reader'[r].pc = "idle"
      /\ \A p \in Readers \ {r} : reader'[p] = reader[p]
  BY IdleFrame DEF Refused, Returns
<1>2. holds'[r] = None /\ \A k \in Clients \ {r} : holds'[k] = holds[k]
  <2>1. CASE Refused(r)
    BY <2>1 DEF Refused, datasetVars, ReaderInv
  <2>2. CASE Returns(r)
    BY <2>2, GivenHolds, StoreConstants DEF Returns
  <2> QED BY <2>1, <2>2
<1>3. ReaderInv(r)'
  BY <1>1, <1>2 DEF ReaderInv
<1> QED BY <1>1, <1>2, <1>3, ReaderStepPreserves DEF Refused, Returns

LEMMA EntryStepPreserves ==
    ASSUME StoreOwnInv, TypeOK,
           InvalidateAuth \/ Subscribe \/ Unsubscribe \/ Dispose \/ DisposeRetires \/ DisposeEnds
    PROVE  StoreOwnInv'
<1> USE DEF StoreOwnInv
<1>1. StoreTypeOK' /\ CollectionInv' /\ WindowIsFrozen' /\ ArmedTimerIsLive'
  BY InvalidatePreserves, SubscribersPreserve, DisposalPreserves
<1>2. coll' = coll /\ reader' = reader
  BY DEF InvalidateAuth, Subscribe, Unsubscribe, Dispose, DisposeRetires, DisposeEnds
<1>3. /\ \A k \in Clients \ {Entry} : holds'[k] = holds[k]
      /\ holds'[Entry] # None => disposal'.pc \in {"no", "waiting"}
  <2>1. CASE InvalidateAuth \/ DisposeRetires
    BY <2>1, EntryHolds DEF InvalidateAuth, DisposeRetires
  <2>2. CASE Subscribe \/ Unsubscribe
    BY <2>2 DEF Subscribe, Unsubscribe, datasetVars, HoldersInv
  <2>3. CASE Dispose
    BY <2>3 DEF Dispose, datasetVars
  <2>4. CASE DisposeEnds
    BY <2>4 DEF DisposeEnds, datasetVars, HoldersInv
  <2> QED BY <2>1, <2>2, <2>3, <2>4
<1>4. HoldersInv'
  BY <1>2, <1>3, StoreConstants DEF HoldersInv
<1>5. \A r \in Readers : ReaderInv(r)'
  BY <1>2, <1>3, StillSettled, ReadersStay, StoreConstants
<1> QED BY <1>1, <1>4, <1>5

LEMMA UnchangedPreserves ==
    ASSUME StoreOwnInv, UNCHANGED storeVars, \A k \in Clients : holds'[k] = holds[k]
    PROVE  StoreOwnInv'
<1> USE DEF StoreOwnInv
<1>1. /\ entry' = entry /\ coll' = coll /\ reader' = reader /\ token' = token
      /\ listeners' = listeners /\ disposal' = disposal
  BY DEF storeVars
<1>2. StoreTypeOK' /\ CollectionInv' /\ WindowIsFrozen' /\ ArmedTimerIsLive'
  BY <1>1 DEF StoreTypeOK, CollectionInv, CommittedIsKnown, CommittedDataIsCurrent,
         GenerationsGrow, CurrentIsInFlight, DisposalWaits, OriginsAreKnown, CurrentIsAsAsked,
         WindowIsFrozen, ArmedTimerIsLive, MayRetry, Known, SourceRead, TokenRead, Settles,
         IsFrozen, Running, Current, Disposed
<1>3. HoldersInv'
  BY <1>1, StoreConstants DEF HoldersInv
<1>4. \A r \in Readers : ReaderInv(r)'
  BY <1>1, StoreConstants DEF ReaderInv, Known, SourceRead, TokenRead, Settles
<1> QED BY <1>2, <1>3, <1>4

LEMMA StoreStepPreserves ==
    ASSUME StoreOwnInv, TypeOK, [StoreNext]_vars PROVE StoreOwnInv'
<1>1. ASSUME NEW c \in Colls, Starts(c), reader' = reader PROVE StoreOwnInv'
  BY <1>1, StartStepPreserves DEF StoreOwnInv, StoreTypeOK
<1>2. ASSUME NEW c \in Colls, NEW q \in Queries, NEW force \in BOOLEAN, NEW bypass \in BOOLEAN,
             Refresh(c, q, force, bypass)
      PROVE  StoreOwnInv'
  BY <1>1, <1>2, StartsAreStarts DEF Refresh
<1>3. ASSUME NEW c \in Colls, RetryFires(c) PROVE StoreOwnInv'
  BY <1>1, <1>3, StartsAreStarts DEF RetryFires, StoreOwnInv
<1>4. ASSUME NEW c \in Colls, CollectionStep(c) PROVE StoreOwnInv'
  BY <1>4, CollectionStepPreserves
<1>5. ASSUME NEW r \in Readers, NEW q \in Queries, Asks(r, q) PROVE StoreOwnInv'
  BY <1>5, AsksPreserves
<1>6. ASSUME NEW r \in Readers, Reads(r) \/ Refused(r) \/ Returns(r) PROVE StoreOwnInv'
  BY <1>6, ReadsPreserves, LeavesPreserves
<1>7. ASSUME NEW d \in Datasets, Removed(d), UNCHANGED storeVars PROVE StoreOwnInv'
  BY <1>7, RemovedHolds, UnchangedPreserves
<1>8. CASE InvalidateAuth \/ Subscribe \/ Unsubscribe \/ Dispose \/ DisposeRetires \/ DisposeEnds
  BY <1>8, EntryStepPreserves
<1>9. CASE UNCHANGED vars
  BY <1>9, UnchangedPreserves DEF vars, datasetVars
<1> QED BY <1>2, <1>3, <1>4, <1>5, <1>6, <1>7, <1>8, <1>9 DEF StoreNext

(* Every step of the store is a step of the datasets or leaves them alone. *)
LEMMA StoreStepsAreDatasetSteps ==
    ASSUME StoreTypeOK, [StoreNext]_vars PROVE [DatasetNext]_datasetVars
<1>1. ASSUME NEW c \in Colls, Starts(c) PROVE [DatasetNext]_datasetVars
  BY <1>1, StartUsesDatasets, StoreConstants DEF DatasetNext, OwnerStep
<1>2. ASSUME NEW c \in Colls, NEW q \in Queries, NEW force \in BOOLEAN, NEW bypass \in BOOLEAN,
             Refresh(c, q, force, bypass)
      PROVE  [DatasetNext]_datasetVars
  BY <1>1, <1>2, StartsAreStarts
<1>3. ASSUME NEW c \in Colls, RetryFires(c) PROVE [DatasetNext]_datasetVars
  BY <1>1, <1>3, StartsAreStarts
<1>4. ASSUME NEW c \in Colls, CollectionStep(c) PROVE [DatasetNext]_datasetVars
  BY <1>4, CollectionUsesDatasets, StoreConstants DEF DatasetNext
<1>5. ASSUME NEW r \in Readers, NEW q \in Queries, Asks(r, q)
      PROVE  [DatasetNext]_datasetVars
  BY <1>1, <1>5 DEF Asks, Starts
<1>6. ASSUME NEW r \in Readers, Reads(r) \/ Refused(r) \/ Returns(r)
      PROVE  [DatasetNext]_datasetVars
  BY <1>6, ReadsUseDatasets DEF Refused, Returns, DatasetNext, ReaderStep
<1>7. ASSUME NEW d \in Datasets, Removed(d) PROVE [DatasetNext]_datasetVars
  BY <1>7 DEF DatasetNext
<1>8. CASE InvalidateAuth \/ Subscribe \/ Unsubscribe \/ Dispose \/ DisposeRetires \/ DisposeEnds
  BY <1>8, StoreConstants DEF InvalidateAuth, Subscribe, Unsubscribe, Dispose, DisposeRetires,
         DisposeEnds, DatasetNext, OwnerStep
<1>9. CASE UNCHANGED vars
  BY <1>9 DEF vars
<1> QED BY <1>2, <1>3, <1>4, <1>5, <1>6, <1>7, <1>8, <1>9 DEF StoreNext

LEMMA StoreNextPreserves == StoreInv /\ [StoreNext]_vars => StoreInv'
BY StoreStepPreserves, StoreStepsAreDatasetSteps, NextPreserves
   DEF StoreInv, StoreOwnInv, DatasetInv

LEMMA StoreInitEstablishes == StoreInit => StoreInv
<1> SUFFICES ASSUME StoreInit PROVE StoreInv
  OBVIOUS
<1>1. DatasetInv
  BY InitEstablishes DEF StoreInit
<1>2. /\ Running = {} /\ \A k \in Clients : holds[k] = None
      /\ \A r \in Readers : reader[r].pc = "idle"
  BY StoreConstants DEF StoreInit, DatasetInit, Running
<1>3. /\ entry \in EntryType /\ entry.dataset = None /\ entry.limited = None /\ entry.retry = 0
  BY DEF StoreInit, EntryType, Optional
<1>4. StoreTypeOK
  <2>1. coll \in [Colls -> NewColl \union SuspendedColl \union DoneColl]
    BY DEF StoreInit, NewColl
  <2>2. reader \in [Readers -> ReaderType]
    BY DEF StoreInit, ReaderType
  <2> QED BY <1>3, <2>1, <2>2 DEF StoreInit, StoreTypeOK, DisposalType, Optional
<1>5. CollectionInv
  BY <1>2, <1>3 DEF CollectionInv, CommittedIsKnown, CommittedDataIsCurrent, GenerationsGrow,
         CurrentIsInFlight, DisposalWaits, OriginsAreKnown, CurrentIsAsAsked
<1>6. WindowIsFrozen /\ ArmedTimerIsLive
  BY <1>2, <1>3 DEF WindowIsFrozen, ArmedTimerIsLive
<1>7. HoldersInv /\ \A r \in Readers : ReaderInv(r)
  BY <1>2, StoreConstants DEF HoldersInv, ReaderInv
<1> QED BY <1>1, <1>4, <1>5, <1>6, <1>7 DEF StoreInv, StoreOwnInv

---------------------------------------------------------------------------
(* The inductive invariant of the store and its datasets. *)
THEOREM StoreInvariant == StoreSafety => []StoreInv
BY StoreInitEstablishes, StoreNextPreserves, PTL DEF StoreSafety

(* The types of the store's variables: a generation is a number, a pc one  *)
(* of the awaits of the code, a dataset in hand a dataset.                 *)
THEOREM StoreTypesAreCorrect == StoreSafety => []StoreTypeOK
<1>1. StoreInv => StoreTypeOK
  BY DEF StoreInv, StoreOwnInv
<1> QED BY <1>1, StoreInvariant, PTL

(* lib/store.mjs uses lib/dataset.mjs as its counters require: every run   *)
(* of the store, whatever it commits, re-reads or disposes of, is a run of *)
(* SharedDataset.                                                          *)
THEOREM StoreImplementsSharedDataset == StoreSafety => DatasetSafety
<1>1. StoreInit => DatasetInit
  BY DEF StoreInit
<1>2. StoreInv /\ [StoreNext]_vars => [DatasetNext]_datasetVars
  BY StoreStepsAreDatasetSteps DEF StoreInv, StoreOwnInv
<1> QED BY <1>1, <1>2, StoreInvariant, PTL DEF StoreSafety, DatasetSafety

(* What is committed was collected from the source its signature names and *)
(* under the token now in force (store.mjs:385).                           *)
THEOREM CommittedIsCurrent == StoreSafety => []CommittedDataIsCurrent
<1>1. StoreInv => CommittedDataIsCurrent
  BY DEF StoreInv, StoreOwnInv, CollectionInv
<1> QED BY <1>1, StoreInvariant, PTL

(* A reader is given the source it asked for, read under the token in      *)
(* force when it was given, and keeps it (store.mjs:225).                  *)
THEOREM ReadersHaveTheirSource == StoreSafety => []ReadersGetTheirSource
<1>1. StoreInv => ReadersGetTheirSource
  BY DEF StoreInv, StoreOwnInv, ReaderInv, ReadersGetTheirSource
<1> QED BY <1>1, StoreInvariant, PTL

(* No collection, reader or entry ends with a dataset it still owns, so    *)
(* that every snapshot has somebody left to let it go (store.mjs:386).     *)
THEOREM OwnersStayActive == StoreSafety => []OwnersAreActive
<1>1. StoreInv => OwnersAreActive
  BY DEF StoreInv, StoreOwnInv, HoldersInv, ReaderInv, OwnersAreActive, Running
<1> QED BY <1>1, StoreInvariant, PTL

(* The retry timer is armed only while it would start a collection when it *)
(* fired (store.mjs:199).                                                  *)
THEOREM TimersAreLive == StoreSafety => []ArmedTimerIsLive
<1>1. StoreInv => ArmedTimerIsLive
  BY DEF StoreInv, StoreOwnInv
<1> QED BY <1>1, StoreInvariant, PTL

(* Whatever the store does meanwhile, the file of a dataset in use is      *)
(* there to be read (store.mjs:237, dataset.mjs:25).                       *)
THEOREM StoreHoldsReadableDatasets == StoreSafety => []HeldIsReadable
BY StoreImplementsSharedDataset, HeldDatasetsAreReadable, PTL

(* Every counter of the datasets the store uses is exact.                  *)
THEOREM StoreCountsAreExact == StoreSafety => []RefsMatchHolders
BY StoreImplementsSharedDataset, RefsAreExact, PTL

(* An automatic retry resumes the window that was interrupted, or the rate *)
(* limit on the entry is one a superseded collection has put back          *)
(* (store.mjs:312).                                                        *)
THEOREM RetriesKeepTheirWindow == StoreSafety => RetryKeepsWindow
<1>1. ASSUME StoreInv, NEW c \in Colls, RetryFires(c), ~entry.overtaken
      PROVE  coll'[c].until = coll[entry.limited].until
  <2> USE DEF StoreInv, StoreOwnInv
  <2>1. entry.query \in Queries /\ UntilSupported /\ entry.limited # None
    BY <1>1 DEF StoreTypeOK, EntryType, RetryFires, ArmedTimerIsLive, MayRetry
  <2>2. entry.until # None /\ coll[entry.limited].until = entry.until
    BY <1>1, <2>1 DEF WindowIsFrozen, IsFrozen
  <2>3. PICK q \in Queries : q = entry.query
    BY <2>1
  <2>4. StartCollection(c, q, TRUE, FALSE, TRUE)
    BY <1>1, <2>3 DEF RetryFires
  <2>5. ~Retains(q, TRUE, FALSE) /\ Until(c, q, TRUE, FALSE, TRUE) = entry.until
    BY <2>2 DEF Until, Retains
  <2>6. coll'[c].until = entry.until
    BY <1>1, <2>4, <2>5, StartFrame DEF CollectionInv, CommittedIsKnown
  <2> QED BY <2>2, <2>6
<1>2. StoreInv /\ [StoreNext]_vars =>
        [\A c \in Colls : RetryFires(c) /\ ~entry.overtaken
             => coll'[c].until = coll[entry.limited].until]_vars
  BY <1>1
<1> QED BY <1>2, StoreInvariant, PTL DEF StoreSafety, RetryKeepsWindow

===========================================================================
