--------------------------- MODULE RowStoreProofs ---------------------------
(* Proofs, for any number of panels, signatures, entries and collections,  *)
(* that the registry of lib/rowstore.mjs never answers an identity with    *)
(* other rows, never hands out rows of a replaced credential, and keeps    *)
(* what is needed and, beyond its bound, nothing else.                     *)
EXTENDS RowStore, FiniteSetTheorems, SequenceTheorems, WellFoundedInduction, TLAPS

---------------------------------------------------------------------------
(* Lemmas about the operators of the model. *)

(* A function on 1..n is a sequence of length n.                           *)
LEMMA FunctionIsSequence ==
    ASSUME NEW S, NEW n \in Nat, NEW f \in [1 .. n -> S]
    PROVE  f \in Seq(S) /\ Len(f) = n
OBVIOUS

(* A set of numbers that is not empty has a least one. *)
LEMMA LeastNumber ==
    ASSUME NEW T \in SUBSET Nat, T # {}
    PROVE  \E m \in T : \A n \in T : m <= n
<1>1. PICK m \in T : \A n \in T : ~ (<<n, m>> \in OpToRel(<, Nat))
  BY NatLessThanWellFounded, WFMin, Zenon
<1>2. \A n \in T : ~ (n < m)
  BY <1>1 DEF OpToRel
<1> QED BY <1>2

(* evict() only takes out what nobody needs, and takes all of that out     *)
(* before it leaves the map larger than its bound: in the order of last    *)
(* access, the least recent one that stays has as many before it as there  *)
(* were too many.                                                          *)
LEMMA EvictedFacts ==
    ASSUME NEW D, IsFiniteSet(D), NEW map \in [D -> Nat], NEW objects, NEW subscribed
    PROVE  LET left == Evicted(map, objects, subscribed) IN
           /\ DOMAIN left \in SUBSET D /\ left \in [DOMAIN left -> Nat]
           /\ \A e \in D : ~Evictable(e, objects, subscribed) => e \in DOMAIN left
           /\ Cardinality(DOMAIN left) > MaxEntries =>
                \A e \in DOMAIN left : ~Evictable(e, objects, subscribed)
<1> DEFINE loose == {e \in D : Evictable(e, objects, subscribed)}
           over == Cardinality(D) - MaxEntries
           Before(e) == {f \in loose : map[f] < map[e]}
           gone == {e \in loose : Cardinality(Before(e)) < over}
           left == Evicted(map, objects, subscribed)
<1>1. left = [e \in D \ gone |-> map[e]]
  BY DEF Evicted
<1>2. /\ DOMAIN left = D \ gone /\ left \in [DOMAIN left -> Nat]
      /\ \A e \in D : ~Evictable(e, objects, subscribed) => e \in DOMAIN left
  BY <1>1
<1>3. ASSUME NEW e \in DOMAIN left, Evictable(e, objects, subscribed)
      PROVE  Cardinality(DOMAIN left) <= MaxEntries
  <2> DEFINE places == {map[f] : f \in loose \ gone}
  <2>1. places \in SUBSET Nat /\ map[e] \in places
    BY <1>2, <1>3
  <2>2. PICK m \in places : \A n \in places : m <= n
    <3> HIDE DEF places
    <3> QED BY <2>1, LeastNumber
  <2>3. PICK f \in loose \ gone : map[f] = m
    BY <2>2
  <2>4. Before(f) \subseteq gone
    <3> SUFFICES ASSUME NEW g \in Before(f), g \notin gone PROVE FALSE
      OBVIOUS
    <3>1. map[g] \in places /\ map[g] < map[f] /\ map[g] \in Nat /\ map[f] \in Nat
      OBVIOUS
    <3> QED BY <2>2, <2>3, <3>1
  <2>5. IsFiniteSet(gone) /\ Cardinality(gone) \in Nat
    BY FS_Subset, FS_CardinalityType
  <2>6. Cardinality(Before(f)) \in Nat /\ Cardinality(Before(f)) <= Cardinality(gone)
    BY <2>4, <2>5, FS_Subset, FS_CardinalityType
  <2>7. over \in Int /\ Cardinality(D) \in Nat
    BY FS_CardinalityType, RowAssumption
  <2>8. ~ (Cardinality(Before(f)) < over)
    BY <2>3
  <2>9. D \cap gone = gone
    OBVIOUS
  <2>10. Cardinality(D \ gone) = Cardinality(D) - Cardinality(gone)
    BY <2>9, FS_Difference
  <2> HIDE DEF gone, Before, loose
  <2> QED BY <1>2, <2>5, <2>6, <2>7, <2>8, <2>10, RowAssumption
<1>4. Cardinality(DOMAIN left) \in Nat
  BY <1>2, FS_Subset, FS_CardinalityType
<1> QED BY <1>2, <1>3, <1>4, RowAssumption

LEMMA TouchedFacts ==
    ASSUME NEW D, IsFiniteSet(D), NEW map \in [D -> Nat], NEW e
    PROVE  DOMAIN Touched(map, e) = D \union {e} /\ Touched(map, e) \in [D \union {e} -> Nat]
<1> DEFINE others == D \ {e}
           Earlier(f) == {g \in others : f = e \/ map[g] < map[f]}
<1>1. Touched(map, e) = [f \in others \union {e} |-> Cardinality(Earlier(f))]
  BY DEF Touched
<1>2. \A f \in others \union {e} : Cardinality(Earlier(f)) \in Nat
  BY FS_Subset, FS_CardinalityType
<1>3. others \union {e} = D \union {e}
  OBVIOUS
<1> HIDE DEF Earlier, others
<1> QED BY <1>1, <1>2, <1>3

---------------------------------------------------------------------------
(* The inductive invariant. *)
ObjectType ==
    [id : Nat, signature : Signatures, revision : Nat,
     status : {"idle", "loading", "ready", "error"},
     generation : Nat, inflight : Nat, payload : Nat]

CollType == [pc : {"running", "aborted", "done"}, of : Nat, generation : Nat, token : Nat]

PanelType == [signature : Signatures \union {None}, id : Nat, revision : Nat, rows : Nat]

RowTypeOK ==
    /\ object \in Seq(ObjectType)
    /\ coll \in Seq(CollType)
    /\ panel \in [Panels -> PanelType]
    /\ Held \subseteq Objects /\ held \in [Held -> Nat]
    /\ rowToken \in Nat

(* Objects are numbered by their id, and name collections that were begun. *)
ObjectsAreSound ==
    \A e \in Objects : object[e].id = e /\ object[e].payload \in {0} \union DOMAIN coll

(* Generations only grow: a collection that is current is the newest of    *)
(* its entry, and of the token, unless the entry has left the map.         *)
CollectionsAreSound ==
    \A c \in DOMAIN coll :
        /\ coll[c].of \in Objects
        /\ coll[c].generation <= object[coll[c].of].generation
        /\ coll[c].of \in Held /\ Current(c) => coll[c].token = rowToken

(* What a panel has drawn was a revision of the object it names, and is    *)
(* the rows of that revision for as long as there are rows under it.       *)
DrawnIsKnown ==
    \A p \in Panels : panel[p].rows # 0 =>
        /\ panel[p].id \in Objects
        /\ panel[p].revision <= object[panel[p].id].revision
        /\ panel[p].revision = object[panel[p].id].revision /\ object[panel[p].id].payload # 0
             => object[panel[p].id].payload = panel[p].rows

RowInv ==
    /\ RowTypeOK /\ ObjectsAreSound /\ CollectionsAreSound /\ DrawnIsKnown
    /\ RowsAreOfTheToken /\ OnlyTheNeededIsKept

LEMMA InvNamesRows == RowInv => IdentityNamesItsRows
<1> SUFFICES ASSUME RowInv, NEW p \in Panels, panel[p].rows # 0,
                    NEW a \in Answers(panel[p].id, panel[p].revision)
             PROVE  a = panel[p].rows
  BY DEF IdentityNamesItsRows
<1>1. PICK f \in Held : /\ object[f].id = panel[p].id /\ object[f].revision = panel[p].revision
                        /\ object[f].payload # 0 /\ a = object[f].payload
  BY DEF Answers
<1>2. f \in Objects /\ f = panel[p].id
  BY <1>1 DEF RowInv, RowTypeOK, ObjectsAreSound
<1> QED BY <1>1, <1>2 DEF RowInv, DrawnIsKnown

---------------------------------------------------------------------------
(* What the steps do to the objects and the collections. *)
LEMMA SequenceFacts ==
    ASSUME RowTypeOK
    PROVE  /\ Len(object) \in Nat /\ DOMAIN object = Objects /\ Objects = 1 .. Len(object)
           /\ Len(coll) \in Nat /\ DOMAIN coll = 1 .. Len(coll)
           /\ \A e \in Objects : object[e] \in ObjectType
           /\ \A c \in DOMAIN coll : coll[c] \in CollType
           /\ IsFiniteSet(Held) /\ IsFiniteSet(Objects)
<1>1. /\ Len(object) \in Nat /\ DOMAIN object = Objects /\ Objects = 1 .. Len(object)
      /\ Len(coll) \in Nat /\ DOMAIN coll = 1 .. Len(coll)
      /\ \A e \in Objects : object[e] \in ObjectType
      /\ \A c \in DOMAIN coll : coll[c] \in CollType
  BY LenProperties, ElementOfSeq DEF RowTypeOK, Objects
<1>2. IsFiniteSet(Objects)
  BY <1>1, FS_Interval
<1> QED BY <1>1, <1>2, FS_Subset DEF RowTypeOK

(* A collection of entry e ends: it stops, and the objects and the map are *)
(* left alone unless it is the current one.                                *)
LEMMA StopsFrame ==
    ASSUME RowTypeOK, NEW c \in DOMAIN coll, Stops(c)
    PROVE  /\ coll' \in Seq(CollType) /\ DOMAIN coll' = DOMAIN coll
           /\ \A b \in DOMAIN coll : /\ coll'[b].of = coll[b].of
                                     /\ coll'[b].generation = coll[b].generation
                                     /\ coll'[b].token = coll[b].token
<1> DEFINE now == [coll[c] EXCEPT !.pc = "done"]
<1>1. coll[c] \in CollType
  BY SequenceFacts
<1>2. /\ now \in CollType /\ now.of = coll[c].of
      /\ now.generation = coll[c].generation /\ now.token = coll[c].token
  BY <1>1 DEF CollType
<1>3. coll' = [coll EXCEPT ![c] = now]
  BY DEF Stops
<1> HIDE DEF now
<1>4. /\ coll' \in Seq(CollType) /\ Len(coll') = Len(coll)
      /\ \A b \in 1 .. Len(coll) : coll'[b] = IF b = c THEN now ELSE coll[b]
  BY <1>2, <1>3, SequenceFacts, ExceptSeq DEF RowTypeOK
<1>5. DOMAIN coll' = DOMAIN coll
  BY <1>3
<1> QED BY <1>2, <1>4, <1>5, SequenceFacts

(* What is subscribed to depends on the signatures only. *)
LEMMA SubscriptionsFacts ==
    ASSUME NEW panels, NEW p \in Panels, panels[p].signature # None
    PROVE  panels[p].signature \in Subscriptions(panels)
BY DEF Subscriptions

(* The entry that a request is for: found in the map or made, as the last  *)
(* object.                                                                 *)
Finds(s, map, e, objects) ==
    \/ e \in DOMAIN map /\ object[e].signature = s /\ objects = object
    \/ e = Len(object) + 1 /\ objects = Append(object, NewEntry(s))

LEMMA EntryFacts ==
    ASSUME RowInv, NEW s \in Signatures, NEW map, DOMAIN map \subseteq Held,
           NEW e, NEW objects, Finds(s, map, e, objects)
    PROVE  /\ objects \in Seq(ObjectType) /\ e \in DOMAIN objects
           /\ DOMAIN objects = 1 .. Len(objects) /\ Len(objects) \in Nat
           /\ Objects \subseteq DOMAIN objects
           /\ DOMAIN objects \subseteq Objects \union {e}
           /\ e \in Objects => e \in Held
           /\ objects[e].signature = s
           /\ \A f \in Objects : objects[f] = object[f]
           /\ \A f \in DOMAIN objects \ Objects :
                objects[f].id = f /\ objects[f].payload = 0
<1> DEFINE new == NewEntry(s)
<1>1. /\ object \in Seq(ObjectType) /\ Held \subseteq Objects /\ Len(object) \in Nat
      /\ DOMAIN object = Objects /\ Objects = 1 .. Len(object)
  BY SequenceFacts DEF RowInv, RowTypeOK
<1>2. CASE e \in DOMAIN map /\ object[e].signature = s /\ objects = object
  BY <1>1, <1>2
<1>3. CASE e = Len(object) + 1 /\ objects = Append(object, new)
  <2>1. new \in ObjectType /\ new.id = Len(object) + 1 /\ new.payload = 0 /\ new.signature = s
    BY <1>1 DEF NewEntry, ObjectType
  <2>2. e = Len(object) + 1 /\ objects = Append(object, new)
    BY <1>3
  <2> HIDE DEF new
  <2>3. /\ objects \in Seq(ObjectType) /\ Len(objects) = Len(object) + 1
        /\ \A f \in 1 .. Len(object) : objects[f] = object[f]
        /\ objects[Len(object) + 1] = new
    BY <1>1, <2>1, <2>2, AppendProperties
  <2>4. DOMAIN objects = 1 .. Len(objects)
    BY <2>3, LenProperties
  <2> QED BY <1>1, <2>1, <2>2, <2>3, <2>4
<1> QED BY <1>2, <1>3 DEF Finds

(* What request() does to the objects and the collections when it starts a *)
(* collection c of generation g for entry e.                               *)
Starts(objects, e, c, g) ==
    /\ c = Len(coll) + 1 /\ g = objects[e].generation + 1
    /\ object' = [objects EXCEPT ![e].status = "loading", ![e].inflight = c,
                                 ![e].generation = g]
    /\ coll' = Append([b \in DOMAIN coll |->
                         IF b = objects[e].inflight
                           THEN [coll[b] EXCEPT !.pc = "aborted"] ELSE coll[b]],
                      [pc |-> "running", of |-> e, generation |-> g, token |-> rowToken])

(* What that makes of them: the collection is the newest of its entry, and *)
(* of the token, and the one it replaces is only stopped.                  *)
Started(objects, e, c, g) ==
    /\ object' \in Seq(ObjectType) /\ Len(object') = Len(objects)
    /\ \A f \in DOMAIN objects :
         /\ object'[f].id = objects[f].id /\ object'[f].signature = objects[f].signature
         /\ object'[f].revision = objects[f].revision
         /\ object'[f].payload = objects[f].payload
         /\ object'[f].generation >= objects[f].generation
         /\ f # e => object'[f] = objects[f]
    /\ object'[e].inflight = c /\ object'[e].generation = g
    /\ coll' \in Seq(CollType) /\ DOMAIN coll' = DOMAIN coll \union {c}
    /\ c \in Nat \ {0} /\ c \notin DOMAIN coll
    /\ \A b \in DOMAIN coll : /\ coll'[b].of = coll[b].of
                              /\ coll'[b].generation = coll[b].generation
                              /\ coll'[b].token = coll[b].token
    /\ coll'[c].of = e /\ coll'[c].generation = g /\ coll'[c].token = rowToken

LEMMA StartsFacts ==
    ASSUME RowInv, NEW objects \in Seq(ObjectType), NEW e \in DOMAIN objects,
           NEW c, NEW generation, Starts(objects, e, c, generation)
    PROVE  Started(objects, e, c, generation)
<1>1. /\ Len(coll) \in Nat /\ DOMAIN coll = 1 .. Len(coll)
      /\ \A b \in DOMAIN coll : coll[b] \in CollType
      /\ rowToken \in Nat
  BY SequenceFacts DEF RowInv, RowTypeOK
<1>6. c = Len(coll) + 1 /\ generation = objects[e].generation + 1
  BY DEF Starts
<1>2. Len(objects) \in Nat /\ DOMAIN objects = 1 .. Len(objects) /\ objects[e] \in ObjectType
      /\ \A f \in DOMAIN objects : objects[f] \in ObjectType
  BY LenProperties, ElementOfSeq
<1>3. c \in Nat \ {0} /\ c \notin DOMAIN coll /\ generation \in Nat
      /\ generation >= objects[e].generation /\ e \in Nat
  <2>1. objects[e].generation \in Nat
    BY <1>2 DEF ObjectType
  <2>2. e \in Nat
    BY <1>2
  <2>3. c \in Nat \ {0} /\ c \notin DOMAIN coll
    BY <1>1, <1>6
  <2> QED BY <1>6, <2>1, <2>2, <2>3
<1>4. /\ object' \in Seq(ObjectType) /\ Len(object') = Len(objects)
      /\ \A f \in DOMAIN objects :
           /\ object'[f].id = objects[f].id /\ object'[f].signature = objects[f].signature
           /\ object'[f].revision = objects[f].revision
           /\ object'[f].payload = objects[f].payload
           /\ object'[f].generation >= objects[f].generation
           /\ f # e => object'[f] = objects[f]
      /\ object'[e].inflight = c /\ object'[e].generation = generation
  <2> DEFINE now == [objects[e] EXCEPT !.status = "loading", !.inflight = c,
                                       !.generation = generation]
  <2>1. /\ now \in ObjectType /\ now.id = objects[e].id
        /\ now.signature = objects[e].signature /\ now.revision = objects[e].revision
        /\ now.payload = objects[e].payload /\ now.inflight = c
        /\ now.generation = generation
    BY <1>2, <1>3 DEF ObjectType
  <2>2. object' = [objects EXCEPT ![e] = now]
    BY Zenon DEF Starts
  <2> HIDE DEF now
  <2>3. /\ object' \in Seq(ObjectType) /\ Len(object') = Len(objects)
        /\ \A f \in 1 .. Len(objects) : object'[f] = IF f = e THEN now ELSE objects[f]
    BY <1>2, <2>1, <2>2, ExceptSeq
  <2>4. \A f \in DOMAIN objects : objects[f].generation \in Nat
    BY <1>2 DEF ObjectType
  <2>5. \A f \in DOMAIN objects : object'[f].generation >= objects[f].generation
    BY <1>2, <1>3, <2>1, <2>3, <2>4
  <2> QED BY <1>2, <2>1, <2>3, <2>5
<1>5. /\ coll' \in Seq(CollType) /\ DOMAIN coll' = DOMAIN coll \union {c}
      /\ \A b \in DOMAIN coll : /\ coll'[b].of = coll[b].of
                                /\ coll'[b].generation = coll[b].generation
                                /\ coll'[b].token = coll[b].token
      /\ coll'[c].of = e /\ coll'[c].generation = generation /\ coll'[c].token = rowToken
  <2> DEFINE stopped(b) == IF b = objects[e].inflight
                             THEN [coll[b] EXCEPT !.pc = "aborted"] ELSE coll[b]
             before == [b \in DOMAIN coll |-> stopped(b)]
             new == [pc |-> "running", of |-> e, generation |-> generation, token |-> rowToken]
  <2>1. \A b \in DOMAIN coll : /\ stopped(b) \in CollType /\ stopped(b).of = coll[b].of
                               /\ stopped(b).generation = coll[b].generation
                               /\ stopped(b).token = coll[b].token
    BY <1>1 DEF CollType
  <2>2. new \in CollType /\ new.of = e /\ new.generation = generation /\ new.token = rowToken
    BY <1>1, <1>3 DEF CollType
  <2>3. coll' = Append(before, new)
    BY Zenon DEF Starts
  <2>4. before \in [1 .. Len(coll) -> CollType] /\ \A b \in DOMAIN coll : before[b] = stopped(b)
    BY <1>1, <2>1
  <2> HIDE DEF before, new, stopped
  <2>5. before \in Seq(CollType) /\ Len(before) = Len(coll)
    BY <1>1, <2>4, FunctionIsSequence
  <2>6. /\ coll' \in Seq(CollType) /\ Len(coll') = Len(coll) + 1
        /\ \A b \in 1 .. Len(coll) : coll'[b] = before[b]
        /\ coll'[Len(coll) + 1] = new
    BY <2>2, <2>3, <2>5, AppendProperties
  <2>7. DOMAIN coll' = 1 .. Len(coll')
    BY <2>6, LenProperties
  <2> QED BY <1>1, <1>6, <2>1, <2>2, <2>4, <2>6, <2>7
<1> QED BY <1>3, <1>4, <1>5 DEF Started


(* The panels when p has left its signature for s, and when it has joined. *)
Leaves(p, s) ==
    [panel EXCEPT ![p].signature = IF panel[p].signature # s THEN None ELSE @]
Joins(p, s) == [panel EXCEPT ![p].signature = s]

Keeps(p, s, map, e, objects, kept) ==
    /\ map = held \/ map = Evicted(held, object, Subscriptions(Leaves(p, s)))
    /\ Finds(s, map, e, objects)
    /\ kept = Evicted(Touched(map, e), objects, Subscriptions(Joins(p, s)))

(* The map after a request: whoever reads keeps its entry, the entry asked *)
(* for stays, and if too many are left nobody can spare one of them.       *)
LEMMA RequestKeeps ==
    ASSUME RowInv, NEW p \in Panels, NEW s \in Signatures,
           NEW map, NEW e, NEW objects, NEW kept, Keeps(p, s, map, e, objects, kept)
    PROVE  LET joined == Joins(p, s) IN
           /\ DOMAIN kept \subseteq Held \union {e} /\ kept \in [DOMAIN kept -> Nat]
           /\ \A q \in Panels : joined[q].signature # None =>
                \E f \in DOMAIN kept : objects[f].signature = joined[q].signature
           /\ Cardinality(DOMAIN kept) > MaxEntries =>
                \A f \in DOMAIN kept : ~Evictable(f, objects, Subscriptions(joined))
           /\ joined \in [Panels -> PanelType]
           /\ \A q \in Panels : /\ joined[q].id = panel[q].id /\ joined[q].rows = panel[q].rows
                                /\ joined[q].revision = panel[q].revision
<1> DEFINE left == Leaves(p, s)
           joined == Joins(p, s)
<1>1. /\ panel \in [Panels -> PanelType] /\ held \in [Held -> Nat] /\ IsFiniteSet(Held)
      /\ Held \subseteq Objects /\ s # None
  BY SequenceFacts, RowAssumption DEF RowInv, RowTypeOK
<1>2. /\ joined \in [Panels -> PanelType] /\ joined[p].signature = s
      /\ \A q \in Panels : /\ joined[q].id = panel[q].id /\ joined[q].rows = panel[q].rows
                           /\ joined[q].revision = panel[q].revision
                           /\ q # p => joined[q] = panel[q] /\ left[q] = panel[q]
  BY <1>1 DEF PanelType, joined, left, Joins, Leaves
<1>7. map = held \/ map = Evicted(held, object, Subscriptions(left))
  BY DEF Keeps
<1>8. kept = Evicted(Touched(map, e), objects, Subscriptions(joined))
  BY DEF Keeps
<1> HIDE DEF left, joined
<1>3. /\ DOMAIN map \subseteq Held /\ map \in [DOMAIN map -> Nat] /\ IsFiniteSet(DOMAIN map)
      /\ \A f \in Held : ~Evictable(f, object, Subscriptions(left)) => f \in DOMAIN map
  <2>1. CASE map = held
    BY <1>1, <2>1
  <2>2. CASE map = Evicted(held, object, Subscriptions(left))
    <3>1. /\ DOMAIN map \in SUBSET Held /\ map \in [DOMAIN map -> Nat]
          /\ \A f \in Held : ~Evictable(f, object, Subscriptions(left)) => f \in DOMAIN map
      BY <1>1, <2>2, EvictedFacts
    <3> QED BY <1>1, <3>1, FS_Subset
  <2> QED BY <1>7, <2>1, <2>2
<1>9. objects[e].signature = s /\ \A f \in Objects : objects[f] = object[f]
  BY <1>3, EntryFacts DEF Keeps
<1> DEFINE D == DOMAIN map \union {e}
           touched == Touched(map, e)
<1>4. DOMAIN touched = D /\ touched \in [D -> Nat] /\ IsFiniteSet(D)
  BY <1>3, TouchedFacts, FS_AddElement
<1>5. /\ DOMAIN kept \in SUBSET D /\ kept \in [DOMAIN kept -> Nat]
      /\ \A f \in D : ~Evictable(f, objects, Subscriptions(joined)) => f \in DOMAIN kept
      /\ Cardinality(DOMAIN kept) > MaxEntries =>
           \A f \in DOMAIN kept : ~Evictable(f, objects, Subscriptions(joined))
  <2> DEFINE subs == Subscriptions(joined)
             now == Evicted(touched, objects, subs)
  <2>1. kept = now
    BY <1>8
  <2> HIDE DEF D, touched, subs
  <2>2. /\ DOMAIN now \in SUBSET D /\ now \in [DOMAIN now -> Nat]
        /\ \A f \in D : ~Evictable(f, objects, subs) => f \in DOMAIN now
        /\ Cardinality(DOMAIN now) > MaxEntries =>
             \A f \in DOMAIN now : ~Evictable(f, objects, subs)
    BY <1>4, EvictedFacts
  <2> HIDE DEF now
  <2>3. /\ DOMAIN kept \in SUBSET D /\ kept \in [DOMAIN kept -> Nat]
        /\ \A f \in D : ~Evictable(f, objects, subs) => f \in DOMAIN kept
        /\ Cardinality(DOMAIN kept) > MaxEntries =>
             \A f \in DOMAIN kept : ~Evictable(f, objects, subs)
    BY <2>1, <2>2
  <2> QED BY <2>3 DEF subs
<1>6. ASSUME NEW q \in Panels, joined[q].signature # None
      PROVE  \E f \in DOMAIN kept : objects[f].signature = joined[q].signature
  <2>1. joined[q].signature \in Subscriptions(joined)
    BY <1>6, SubscriptionsFacts
  <2>2. CASE q = p
    BY <1>2, <1>5, <1>9, <2>1, <2>2 DEF Evictable
  <2>3. CASE q # p
    <3>1. joined[q].signature = panel[q].signature /\ left[q].signature = panel[q].signature
      BY <1>2, <2>3
    <3>2. PICK f \in Held : object[f].signature = panel[q].signature
      BY <1>6, <3>1 DEF RowInv, OnlyTheNeededIsKept, HasObject
    <3>3. left[q].signature \in Subscriptions(left)
      BY <1>6, <3>1, SubscriptionsFacts
    <3>4. f \in D /\ objects[f].signature = joined[q].signature
      BY <1>1, <1>3, <1>9, <3>1, <3>2, <3>3 DEF Evictable
    <3>5. ~Evictable(f, objects, Subscriptions(joined))
      BY <2>1, <3>4 DEF Evictable
    <3> QED BY <1>5, <3>4, <3>5
  <2> QED BY <2>2, <2>3
<1> QED BY <1>2, <1>3, <1>5, <1>6 DEF joined

(* A panel asks for the rows of a signature: what it had drawn stays what  *)
(* it was, and a new collection supersedes those of its entry.             *)
LEMMA RequestKeepsInv ==
    ASSUME RowInv, NEW p \in Panels, NEW s \in Signatures, NEW force \in BOOLEAN,
           Request(p, s, force)
    PROVE  RowInv'
<1> DEFINE left == [panel EXCEPT ![p].signature =
                      IF panel[p].signature # s THEN None ELSE @]
           joined == [panel EXCEPT ![p].signature = s]
           now == IF panel[p].signature # s /\ panel[p].signature # None
                       /\ panel[p].signature \notin Subscriptions(left)
                    THEN Evicted(held, object, Subscriptions(left)) ELSE held
           known == \E f \in DOMAIN now : object[f].signature = s
           entry == IF known THEN CHOOSE f \in DOMAIN now : object[f].signature = s
                      ELSE Len(object) + 1
           made == IF known THEN object ELSE Append(object, NewEntry(s))
           after == Evicted(Touched(now, entry), made, Subscriptions(joined))
<1>1. /\ panel' = joined /\ held' = after /\ rowToken' = rowToken
      /\ \/ object' = made /\ coll' = coll
         \/ Starts(made, entry, Len(coll) + 1, made[entry].generation + 1)
  BY Zenon DEF Request, Starts
<1>2. now = held \/ now = Evicted(held, object, Subscriptions(left))
  OBVIOUS
<1> HIDE DEF now
<1>3. Finds(s, now, entry, made)
  <2>1. CASE known
    BY <2>1, Zenon DEF Finds
  <2>2. CASE ~known
    BY <2>2, Zenon DEF Finds
  <2> QED BY <2>1, <2>2
<1> HIDE DEF entry, made
<1>9. Keeps(p, s, now, entry, made, after) /\ joined = Joins(p, s)
  <2>1. left = Leaves(p, s) /\ joined = Joins(p, s)
    BY Zenon DEF Leaves, Joins
  <2> HIDE DEF left, joined
  <2> QED BY <1>2, <1>3, <2>1 DEF Keeps
<1> HIDE DEF joined, after
<1>10. PICK map, e, objects, kept, c, generation :
         /\ Finds(s, map, e, objects) /\ Keeps(p, s, map, e, objects, kept)
         /\ panel' = Joins(p, s) /\ held' = kept /\ rowToken' = rowToken
         /\ \/ object' = objects /\ coll' = coll
            \/ Starts(objects, e, c, generation)
  BY <1>1, <1>3, <1>9, Zenon
<1>4. /\ panel' = Joins(p, s) /\ held' = kept /\ rowToken' = rowToken
      /\ DOMAIN map \subseteq Held
  <2>1. held \in [Held -> Nat] /\ IsFiniteSet(Held)
    BY SequenceFacts DEF RowInv, RowTypeOK
  <2> QED BY <1>10, <2>1, EvictedFacts DEF Keeps
<1>5. /\ objects \in Seq(ObjectType) /\ e \in DOMAIN objects
      /\ DOMAIN objects = 1 .. Len(objects) /\ Len(objects) \in Nat
      /\ Objects \subseteq DOMAIN objects
      /\ DOMAIN objects \subseteq Objects \union {e}
      /\ e \in Objects => e \in Held
      /\ objects[e].signature = s
      /\ \A f \in Objects : objects[f] = object[f]
      /\ \A f \in DOMAIN objects \ Objects : objects[f].id = f /\ objects[f].payload = 0
  BY <1>4, <1>10, EntryFacts
<1>8. /\ Held' \subseteq Held \union {e} /\ held' \in [Held' -> Nat]
      /\ \A q \in Panels : panel'[q].signature # None =>
           \E f \in Held' : objects[f].signature = panel'[q].signature
      /\ Cardinality(Held') > MaxEntries =>
           \A f \in Held' : ~Evictable(f, objects, Subscriptions(panel'))
      /\ panel' \in [Panels -> PanelType]
      /\ \A q \in Panels : /\ panel'[q].id = panel[q].id /\ panel'[q].rows = panel[q].rows
                           /\ panel'[q].revision = panel[q].revision
  <2>1. PICK joins : joins = Joins(p, s)
    OBVIOUS
  <2>2. /\ DOMAIN kept \subseteq Held \union {e} /\ kept \in [DOMAIN kept -> Nat]
        /\ \A q \in Panels : joins[q].signature # None =>
             \E f \in DOMAIN kept : objects[f].signature = joins[q].signature
        /\ Cardinality(DOMAIN kept) > MaxEntries =>
             \A f \in DOMAIN kept : ~Evictable(f, objects, Subscriptions(joins))
        /\ joins \in [Panels -> PanelType]
        /\ \A q \in Panels : /\ joins[q].id = panel[q].id /\ joins[q].rows = panel[q].rows
                             /\ joins[q].revision = panel[q].revision
    BY <1>10, <2>1, RequestKeeps
  <2>3. panel' = joins /\ held' = kept /\ Held' = DOMAIN kept
    BY <1>4, <2>1 DEF Held
  <2> QED BY <2>2, <2>3
<1>6. /\ object' \in Seq(ObjectType) /\ Objects' = DOMAIN objects
      /\ \A f \in DOMAIN objects :
           /\ object'[f].id = objects[f].id /\ object'[f].signature = objects[f].signature
           /\ object'[f].revision = objects[f].revision
           /\ object'[f].payload = objects[f].payload
           /\ object'[f].generation >= objects[f].generation
           /\ object'[f] = objects[f] \/ object'[f].inflight # 0
      /\ coll' \in Seq(CollType) /\ DOMAIN coll \subseteq DOMAIN coll'
      /\ \A b \in DOMAIN coll : /\ coll'[b].of = coll[b].of
                                /\ coll'[b].generation = coll[b].generation
                                /\ coll'[b].token = coll[b].token
      /\ \A b \in DOMAIN coll' \ DOMAIN coll :
           coll'[b].of = e /\ coll'[b].generation = object'[e].generation
             /\ coll'[b].token = rowToken
  <2>1. CASE object' = objects /\ coll' = coll
    <3>1. \A f \in DOMAIN objects : objects[f].generation \in Nat
      <4> SUFFICES ASSUME NEW f \in DOMAIN objects PROVE objects[f].generation \in Nat
        OBVIOUS
      <4>1. objects[f] \in ObjectType
        BY <1>5, ElementOfSeq
      <4> QED BY <4>1 DEF ObjectType
    <3> QED BY <1>5, <2>1, <3>1 DEF RowInv, RowTypeOK, Objects
  <2>2. CASE Starts(objects, e, c, generation)
    <3>3. /\ object' \in Seq(ObjectType) /\ Len(object') = Len(objects)
          /\ \A f \in DOMAIN objects :
               /\ object'[f].id = objects[f].id /\ object'[f].signature = objects[f].signature
               /\ object'[f].revision = objects[f].revision
               /\ object'[f].payload = objects[f].payload
               /\ object'[f].generation >= objects[f].generation
               /\ f # e => object'[f] = objects[f]
          /\ object'[e].inflight = c /\ object'[e].generation = generation
          /\ coll' \in Seq(CollType) /\ DOMAIN coll' = DOMAIN coll \union {c}
          /\ c \in Nat \ {0} /\ c \notin DOMAIN coll
          /\ \A b \in DOMAIN coll : /\ coll'[b].of = coll[b].of
                                    /\ coll'[b].generation = coll[b].generation
                                    /\ coll'[b].token = coll[b].token
          /\ coll'[c].of = e /\ coll'[c].generation = generation
          /\ coll'[c].token = rowToken
      <4>1. Started(objects, e, c, generation)
        BY <1>5, <2>2, StartsFacts
      <4> QED BY <4>1, Zenon DEF Started
    <3>4. Objects' = DOMAIN objects
      BY <1>5, <3>3 DEF Objects
    <3> QED BY <3>3, <3>4
  <2> QED BY <1>10, <2>1, <2>2
<1>7. /\ Objects \subseteq Objects' /\ Objects' \subseteq Objects \union {e}
      /\ e \in Objects' /\ Held \subseteq Objects /\ DOMAIN object = Objects
      /\ \A f \in Objects : objects[f].generation \in Nat
  <2>1. \A f \in Objects : objects[f].generation \in Nat
    BY <1>5, SequenceFacts DEF RowInv, ObjectType
  <2> QED BY <1>5, <1>6, <2>1, SequenceFacts DEF RowInv, RowTypeOK
<1>16. RowTypeOK'
  BY <1>4, <1>6, <1>7, <1>8 DEF RowInv, RowTypeOK
<1>15. ObjectsAreSound'
  <2> SUFFICES ASSUME NEW f \in Objects'
               PROVE  object'[f].id = f /\ object'[f].payload \in {0} \union DOMAIN coll'
    BY DEF ObjectsAreSound
  <2> QED BY <1>5, <1>6, <1>7 DEF RowInv, ObjectsAreSound
<1>11. CollectionsAreSound'
  <2> SUFFICES ASSUME NEW b \in DOMAIN coll'
               PROVE  /\ coll'[b].of \in Objects'
                      /\ coll'[b].generation <= object'[coll'[b].of].generation
                      /\ coll'[b].of \in Held'
                           /\ coll'[b].generation = object'[coll'[b].of].generation
                           => coll'[b].token = rowToken
    BY <1>4 DEF CollectionsAreSound, Current
  <2>1. CASE b \in DOMAIN coll
    <3>1. /\ coll[b].of \in Objects /\ coll[b].generation <= object[coll[b].of].generation
          /\ coll[b].of \in Held /\ coll[b].generation = object[coll[b].of].generation
               => coll[b].token = rowToken
      BY <2>1 DEF RowInv, CollectionsAreSound, Current
    <3>2. coll[b].generation \in Nat /\ object[coll[b].of].generation \in Nat
      BY <2>1, <3>1, SequenceFacts DEF RowInv, CollType, ObjectType
    <3>3. /\ object'[coll[b].of].generation >= object[coll[b].of].generation
          /\ object'[coll[b].of].generation \in Nat
      <4>1. object'[coll[b].of] \in ObjectType
        BY <1>6, <1>7, <3>1, ElementOfSeq, LenProperties DEF Objects
      <4> QED BY <1>5, <1>6, <3>1, <4>1 DEF ObjectType
    <3>4. coll[b].of \in Held' => coll[b].of \in Held
      BY <1>5, <1>8, <3>1
    <3> QED BY <1>6, <1>7, <2>1, <3>1, <3>2, <3>3, <3>4
  <2>2. CASE b \notin DOMAIN coll
    <3>1. object'[e].generation \in Nat
      <4>1. object'[e] \in ObjectType
        BY <1>6, <1>7, ElementOfSeq, LenProperties DEF Objects
      <4> QED BY <4>1 DEF ObjectType
    <3> QED BY <1>6, <1>7, <2>2, <3>1
  <2> QED BY <2>1, <2>2
<1>12. DrawnIsKnown'
  <2> SUFFICES ASSUME NEW q \in Panels, panel'[q].rows # 0
               PROVE  /\ panel'[q].id \in Objects'
                      /\ panel'[q].revision <= object'[panel'[q].id].revision
                      /\ panel'[q].revision = object'[panel'[q].id].revision
                           /\ object'[panel'[q].id].payload # 0
                           => object'[panel'[q].id].payload = panel'[q].rows
    BY DEF DrawnIsKnown
  <2>1. /\ panel[q].id \in Objects /\ panel[q].revision <= object[panel[q].id].revision
        /\ panel[q].revision = object[panel[q].id].revision /\ object[panel[q].id].payload # 0
             => object[panel[q].id].payload = panel[q].rows
    BY <1>8 DEF RowInv, DrawnIsKnown
  <2>2. /\ object'[panel[q].id].revision = object[panel[q].id].revision
        /\ object'[panel[q].id].payload = object[panel[q].id].payload
    BY <1>5, <1>6, <2>1
  <2> QED BY <1>7, <1>8, <2>1, <2>2
<1>13. RowsAreOfTheToken'
  <2> SUFFICES ASSUME NEW f \in Held', object'[f].payload # 0
               PROVE  coll'[object'[f].payload].token = rowToken
    BY <1>4 DEF RowsAreOfTheToken
  <2>1. f \in Held /\ object[f].payload = object'[f].payload
    BY <1>5, <1>6, <1>7, <1>8
  <2>2. object[f].payload \in DOMAIN coll /\ coll[object[f].payload].token = rowToken
    BY <1>7, <2>1 DEF RowInv, ObjectsAreSound, RowsAreOfTheToken
  <2> QED BY <1>6, <2>1, <2>2
<1>14. OnlyTheNeededIsKept'
  <2>1. ASSUME NEW q \in Panels, panel'[q].signature # None
        PROVE  \E f \in Held' : object'[f].signature = panel'[q].signature
    <3>1. PICK f \in Held' : objects[f].signature = panel'[q].signature
      BY <1>8, <2>1
    <3>2. f \in DOMAIN objects
      BY <1>5, <1>7, <1>8
    <3> QED BY <1>6, <3>1, <3>2
  <2>2. ASSUME Cardinality(Held') > MaxEntries, NEW f \in Held',
               Evictable(f, object', Subscriptions(panel'))
        PROVE  FALSE
    <3>1. f \in DOMAIN objects
      BY <1>5, <1>8, <1>7
    <3>2. object'[f] = objects[f]
      BY <1>6, <2>2, <3>1 DEF Evictable
    <3>3. ~Evictable(f, objects, Subscriptions(panel'))
      BY <1>8, <2>2
    <3> QED BY <2>2, <3>2, <3>3 DEF Evictable
  <2> QED BY <2>1, <2>2 DEF OnlyTheNeededIsKept, HasObject
<1> QED BY <1>11, <1>12, <1>13, <1>14, <1>15, <1>16 DEF RowInv


(* A reader has left or a collection has ended, and evict() ran: every     *)
(* reader keeps its entry, and beyond the bound nobody can spare one.      *)
LEMMA EvictionKeeps ==
    ASSUME RowTypeOK, held' = Evicted(held, object', Subscriptions(panel')),
           \A q \in Panels : panel'[q].signature # None =>
             \E f \in Held : object'[f].signature = panel'[q].signature
    PROVE  Held' \subseteq Held /\ held' \in [Held' -> Nat] /\ OnlyTheNeededIsKept'
<1>1. held \in [Held -> Nat] /\ IsFiniteSet(Held)
  BY SequenceFacts DEF RowTypeOK
<1>2. PICK objects, panels, kept, subs :
        /\ objects = object' /\ panels = panel' /\ subs = Subscriptions(panels)
        /\ kept = Evicted(held, objects, subs) /\ held' = kept
  OBVIOUS
<1>3. /\ DOMAIN kept \in SUBSET Held /\ kept \in [DOMAIN kept -> Nat]
      /\ \A e \in Held : ~Evictable(e, objects, subs) => e \in DOMAIN kept
      /\ Cardinality(DOMAIN kept) > MaxEntries =>
           \A e \in DOMAIN kept : ~Evictable(e, objects, subs)
  BY <1>1, <1>2, EvictedFacts
<1>4. ASSUME NEW q \in Panels, panels[q].signature # None
      PROVE  \E f \in DOMAIN kept : objects[f].signature = panels[q].signature
  <2>1. PICK f \in Held : objects[f].signature = panels[q].signature
    BY <1>2, <1>4
  <2>2. panels[q].signature \in subs
    BY <1>2, <1>4, SubscriptionsFacts
  <2> QED BY <1>3, <2>1, <2>2 DEF Evictable
<1>5. Held' = DOMAIN kept
  BY <1>2 DEF Held
<1>6. ASSUME Cardinality(Held') > MaxEntries, NEW f \in Held',
             Evictable(f, object', Subscriptions(panel'))
      PROVE  FALSE
  <2>1. Evictable(f, objects, subs)
    BY <1>2, <1>6 DEF Evictable
  <2> QED BY <1>3, <1>5, <1>6, <2>1
<1>7. \A q \in Panels : panel'[q].signature # None =>
        \E f \in Held' : object'[f].signature = panel'[q].signature
  BY <1>2, <1>4, <1>5
<1>8. OnlyTheNeededIsKept'
  BY <1>6, <1>7 DEF OnlyTheNeededIsKept, HasObject
<1> QED BY <1>2, <1>3, <1>5, <1>8

(* A panel is closed or pointed elsewhere: it reads and shows nothing.     *)
LEMMA LeaveKeepsInv ==
    ASSUME RowInv, NEW p \in Panels, Leave(p)
    PROVE  RowInv'
<1> DEFINE none == [signature |-> None, id |-> 0, revision |-> 0, rows |-> 0]
<1>1. /\ panel' = [panel EXCEPT ![p] = none]
      /\ held' = IF panel[p].signature \in Subscriptions(panel') THEN held
                   ELSE Evicted(held, object, Subscriptions(panel'))
      /\ object' = object /\ coll' = coll /\ rowToken' = rowToken
  BY DEF Leave
<1>2. none \in PanelType /\ none.rows = 0 /\ none.signature = None
  BY DEF PanelType
<1> HIDE DEF none
<1>3. /\ panel' \in [Panels -> PanelType] /\ panel'[p] = none
      /\ \A q \in Panels : q # p => panel'[q] = panel[q]
  BY <1>1, <1>2 DEF RowInv, RowTypeOK
<1>4. \A q \in Panels : panel'[q].signature # None =>
        \E f \in Held : object'[f].signature = panel'[q].signature
  BY <1>1, <1>2, <1>3 DEF RowInv, OnlyTheNeededIsKept, HasObject
<1>5. Held' \subseteq Held /\ held' \in [Held' -> Nat] /\ OnlyTheNeededIsKept'
  <2>1. CASE panel[p].signature \in Subscriptions(panel')
    <3>1. Subscriptions(panel') = Subscriptions(panel)
      <4>1. Subscriptions(panel') \subseteq Subscriptions(panel)
        BY <1>2, <1>3 DEF Subscriptions
      <4>2. Subscriptions(panel) \subseteq Subscriptions(panel')
        BY <1>3, <2>1 DEF Subscriptions
      <4> QED BY <4>1, <4>2
    <3>2. held' = held /\ Held' = Held
      BY <1>1, <2>1 DEF Held
    <3> QED BY <1>1, <1>4, <3>1, <3>2
            DEF RowInv, RowTypeOK, OnlyTheNeededIsKept, HasObject, Evictable
  <2>2. CASE panel[p].signature \notin Subscriptions(panel')
    <3>1. held' = Evicted(held, object', Subscriptions(panel'))
      BY <1>1, <2>2
    <3> QED BY <1>4, <3>1, EvictionKeeps DEF RowInv
  <2> QED BY <2>1, <2>2
<1>6. Objects' = Objects
  BY <1>1 DEF Objects
<1>7. RowTypeOK'
  BY <1>1, <1>3, <1>5, <1>6 DEF RowInv, RowTypeOK
<1>8. ObjectsAreSound' /\ CollectionsAreSound' /\ RowsAreOfTheToken'
  BY <1>1, <1>5, <1>6
     DEF RowInv, ObjectsAreSound, CollectionsAreSound, RowsAreOfTheToken, Current
<1>9. DrawnIsKnown'
  BY <1>1, <1>2, <1>3, <1>6 DEF RowInv, DrawnIsKnown
<1> QED BY <1>5, <1>7, <1>8, <1>9 DEF RowInv

(* An entry is looked at: it becomes the most recent one, and that is all. *)
LEMMA TouchKeeps ==
    ASSUME RowInv, NEW e \in Held, held' = Touched(held, e), UNCHANGED <<object, coll, rowToken>>
    PROVE  /\ Held' = Held /\ Objects' = Objects /\ held' \in [Held' -> Nat]
           /\ ObjectsAreSound' /\ CollectionsAreSound' /\ RowsAreOfTheToken'
<1>1. /\ held \in [Held -> Nat] /\ IsFiniteSet(Held)
      /\ object' = object /\ coll' = coll /\ rowToken' = rowToken
  BY SequenceFacts DEF RowInv, RowTypeOK
<1>2. DOMAIN Touched(held, e) = Held \union {e} /\ Touched(held, e) \in [Held \union {e} -> Nat]
  BY <1>1, TouchedFacts
<1>3. Held' = Held /\ Objects' = Objects /\ held' \in [Held' -> Nat]
  BY <1>1, <1>2 DEF Held, Objects
<1>4. ObjectsAreSound' /\ CollectionsAreSound' /\ RowsAreOfTheToken'
  BY <1>1, <1>3
     DEF RowInv, ObjectsAreSound, CollectionsAreSound, RowsAreOfTheToken, Current
<1> QED BY <1>3, <1>4

(* The iframe asks for what it had drawn: nothing of it changes.           *)
LEMMA RefetchKeepsInv ==
    ASSUME RowInv, NEW p \in Panels, Refetch(p)
    PROVE  RowInv'
<1>1. PICK e \in Held : held' = Touched(held, e) /\ UNCHANGED <<object, coll, panel, rowToken>>
  BY DEF Refetch
<1>2. /\ Held' = Held /\ Objects' = Objects /\ held' \in [Held' -> Nat]
      /\ ObjectsAreSound' /\ CollectionsAreSound' /\ RowsAreOfTheToken'
  BY <1>1, TouchKeeps
<1>3. RowTypeOK' /\ DrawnIsKnown' /\ OnlyTheNeededIsKept'
  BY <1>1, <1>2 DEF RowInv, RowTypeOK, DrawnIsKnown, OnlyTheNeededIsKept, HasObject, Evictable
<1> QED BY <1>2, <1>3 DEF RowInv

(* The rows of the entry's revision are drawn under its identity.          *)
LEMMA FetchKeepsInv ==
    ASSUME RowInv, NEW p \in Panels, Fetch(p)
    PROVE  RowInv'
<1>1. PICK e \in Held :
        /\ panel' = [panel EXCEPT ![p].id = object[e].id, ![p].revision = object[e].revision,
                                  ![p].rows = object[e].payload]
        /\ held' = Touched(held, e) /\ UNCHANGED <<object, coll, rowToken>>
  BY DEF Fetch
<1>2. /\ Held' = Held /\ Objects' = Objects /\ held' \in [Held' -> Nat]
      /\ ObjectsAreSound' /\ CollectionsAreSound' /\ RowsAreOfTheToken'
  BY <1>1, TouchKeeps
<1>3. e \in Objects /\ object[e] \in ObjectType /\ object[e].id = e
  BY SequenceFacts DEF RowInv, RowTypeOK, ObjectsAreSound
<1>4. /\ panel' \in [Panels -> PanelType]
      /\ panel'[p].id = e /\ panel'[p].revision = object[e].revision
      /\ panel'[p].rows = object[e].payload
      /\ \A q \in Panels : /\ panel'[q].signature = panel[q].signature
                           /\ q # p => panel'[q] = panel[q]
  BY <1>1, <1>3 DEF RowInv, RowTypeOK, ObjectType, PanelType
<1>5. object' = object /\ coll' = coll /\ rowToken' = rowToken
  BY <1>1
<1>6. RowTypeOK'
  BY <1>2, <1>4, <1>5 DEF RowInv, RowTypeOK
<1>7. DrawnIsKnown'
  <2> SUFFICES ASSUME NEW q \in Panels, panel'[q].rows # 0
               PROVE  /\ panel'[q].id \in Objects
                      /\ panel'[q].revision <= object[panel'[q].id].revision
                      /\ panel'[q].revision = object[panel'[q].id].revision
                           /\ object[panel'[q].id].payload # 0
                           => object[panel'[q].id].payload = panel'[q].rows
    BY <1>2, <1>5 DEF DrawnIsKnown
  <2>1. CASE q = p
    BY <1>3, <1>4, <2>1 DEF ObjectType
  <2>2. CASE q # p
    BY <1>4, <2>2 DEF RowInv, DrawnIsKnown
  <2> QED BY <2>1, <2>2
<1>8. OnlyTheNeededIsKept'
  <2>1. Subscriptions(panel') = Subscriptions(panel)
    BY <1>4 DEF Subscriptions
  <2> QED BY <1>2, <1>4, <1>5, <2>1 DEF RowInv, OnlyTheNeededIsKept, HasObject, Evictable
<1> QED BY <1>2, <1>6, <1>7, <1>8 DEF RowInv


(* The current collection of entry e ends and leaves it as `now`.          *)
Ends(c, e, now) ==
    /\ e = coll[c].of /\ Current(c) /\ now \in ObjectType
    /\ now.id = object[e].id /\ now.signature = object[e].signature
    /\ now.generation = object[e].generation
    /\ \/ now.payload = object[e].payload /\ now.revision = object[e].revision
       \/ now.payload = c /\ now.revision = object[e].revision + 1
    /\ object' = [object EXCEPT ![e] = now]
    /\ held' = Evicted(held, object', Subscriptions(panel))

LEMMA EndKeepsInv ==
    ASSUME RowInv, NEW c \in DOMAIN coll, NEW e, NEW now, Ends(c, e, now), Stops(c),
           UNCHANGED <<panel, rowToken>>
    PROVE  RowInv'
<1>1. /\ e \in Objects /\ Current(c) /\ now \in ObjectType /\ e = coll[c].of
      /\ now.id = object[e].id /\ now.signature = object[e].signature
      /\ now.generation = object[e].generation
      /\ \/ now.payload = object[e].payload /\ now.revision = object[e].revision
         \/ now.payload = c /\ now.revision = object[e].revision + 1
      /\ held' = Evicted(held, object', Subscriptions(panel'))
      /\ panel' = panel /\ rowToken' = rowToken
  BY DEF Ends, RowInv, CollectionsAreSound
<1>2. /\ object \in Seq(ObjectType) /\ DOMAIN object = Objects
      /\ Objects = 1 .. Len(object) /\ Held \subseteq Objects
      /\ Len(coll) \in Nat /\ DOMAIN coll = 1 .. Len(coll)
      /\ \A f \in Objects : object[f] \in ObjectType
  BY SequenceFacts DEF RowInv, RowTypeOK
<1>3. /\ object' \in Seq(ObjectType) /\ Len(object') = Len(object)
      /\ \A f \in Objects : object'[f] = IF f = e THEN now ELSE object[f]
  <2>1. object' = [object EXCEPT ![e] = now]
    BY DEF Ends
  <2> QED BY <1>1, <1>2, <2>1, ExceptSeq
<1>4. Objects' = Objects
  BY <1>3 DEF Objects
<1>5. /\ coll' \in Seq(CollType) /\ DOMAIN coll' = DOMAIN coll
      /\ \A b \in DOMAIN coll : /\ coll'[b].of = coll[b].of
                                /\ coll'[b].generation = coll[b].generation
                                /\ coll'[b].token = coll[b].token
  BY StopsFrame DEF RowInv
<1>6. \A q \in Panels : panel'[q].signature # None =>
        \E f \in Held : object'[f].signature = panel'[q].signature
  <2> SUFFICES ASSUME NEW q \in Panels, panel[q].signature # None
               PROVE  \E f \in Held : object'[f].signature = panel[q].signature
    BY <1>1
  <2>1. PICK f \in Held : object[f].signature = panel[q].signature
    BY DEF RowInv, OnlyTheNeededIsKept, HasObject
  <2> QED BY <1>1, <1>2, <1>3, <2>1
<1>7. Held' \subseteq Held /\ held' \in [Held' -> Nat] /\ OnlyTheNeededIsKept'
  BY <1>1, <1>6, EvictionKeeps DEF RowInv
<1>8. RowTypeOK'
  BY <1>1, <1>2, <1>3, <1>4, <1>5, <1>7 DEF RowInv, RowTypeOK
<1>9. ObjectsAreSound'
  <2> SUFFICES ASSUME NEW f \in Objects
               PROVE  object'[f].id = f /\ object'[f].payload \in {0} \union DOMAIN coll
    BY <1>4, <1>5 DEF ObjectsAreSound
  <2> QED BY <1>1, <1>3 DEF RowInv, ObjectsAreSound
<1>10. \A f \in Objects : object'[f].generation = object[f].generation
  BY <1>1, <1>3
<1>11. CollectionsAreSound'
  <2> SUFFICES ASSUME NEW b \in DOMAIN coll
               PROVE  /\ coll'[b].of \in Objects
                      /\ coll'[b].generation <= object'[coll'[b].of].generation
                      /\ coll'[b].of \in Held'
                           /\ coll'[b].generation = object'[coll'[b].of].generation
                           => coll'[b].token = rowToken
    BY <1>1, <1>4, <1>5 DEF CollectionsAreSound, Current
  <2> QED BY <1>5, <1>7, <1>10 DEF RowInv, CollectionsAreSound, Current
<1>12. DrawnIsKnown'
  <2> SUFFICES ASSUME NEW q \in Panels, panel[q].rows # 0
               PROVE  /\ panel[q].id \in Objects
                      /\ panel[q].revision <= object'[panel[q].id].revision
                      /\ panel[q].revision = object'[panel[q].id].revision
                           /\ object'[panel[q].id].payload # 0
                           => object'[panel[q].id].payload = panel[q].rows
    BY <1>1, <1>4 DEF DrawnIsKnown
  <2>1. /\ panel[q].id \in Objects /\ panel[q].revision <= object[panel[q].id].revision
        /\ panel[q].revision = object[panel[q].id].revision /\ object[panel[q].id].payload # 0
             => object[panel[q].id].payload = panel[q].rows
    BY DEF RowInv, DrawnIsKnown
  <2>2. panel[q].revision \in Nat /\ object[panel[q].id].revision \in Nat
    BY <1>2, <2>1 DEF RowInv, RowTypeOK, PanelType, ObjectType
  <2>3. CASE panel[q].id = e
    <3>1. object'[panel[q].id] = now /\ panel[q].id = e
      BY <1>1, <1>3, <2>3
    <3>2. PICK old : old = object[e]
      OBVIOUS
    <3> QED BY <1>1, <2>1, <2>2, <3>1, <3>2
  <2>4. CASE panel[q].id # e
    BY <1>3, <2>1, <2>4
  <2> QED BY <2>3, <2>4
<1>13. RowsAreOfTheToken'
  <2> SUFFICES ASSUME NEW f \in Held', object'[f].payload # 0
               PROVE  coll'[object'[f].payload].token = rowToken
    BY <1>1 DEF RowsAreOfTheToken
  <2>1. f \in Held /\ f \in Objects
    BY <1>2, <1>7
  <2>2. CASE object'[f].payload = object[f].payload
    BY <1>5, <2>1, <2>2 DEF RowInv, ObjectsAreSound, RowsAreOfTheToken
  <2>3. CASE object'[f].payload # object[f].payload
    <3>1. f = e /\ object'[f].payload = c
      BY <1>1, <1>3, <2>1, <2>3
    <3> QED BY <1>1, <1>5, <2>1, <3>1 DEF RowInv, CollectionsAreSound
  <2> QED BY <2>2, <2>3
<1> QED BY <1>7, <1>8, <1>9, <1>11, <1>12, <1>13 DEF RowInv

(* A superseded collection ends: it only stops. *)
LEMMA ReturnKeepsInv ==
    ASSUME RowInv, NEW c \in DOMAIN coll, Stops(c), UNCHANGED <<object, held, panel, rowToken>>
    PROVE  RowInv'
<1>1. /\ coll' \in Seq(CollType) /\ DOMAIN coll' = DOMAIN coll
      /\ \A b \in DOMAIN coll : /\ coll'[b].of = coll[b].of
                                /\ coll'[b].generation = coll[b].generation
                                /\ coll'[b].token = coll[b].token
  BY StopsFrame DEF RowInv
<1>2. Objects' = Objects /\ Held' = Held
  BY DEF Objects, Held
<1>3. RowTypeOK' /\ DrawnIsKnown' /\ OnlyTheNeededIsKept' /\ ObjectsAreSound'
  BY <1>1, <1>2 DEF RowInv, RowTypeOK, DrawnIsKnown, OnlyTheNeededIsKept, HasObject,
                    Evictable, ObjectsAreSound
<1>4. CollectionsAreSound'
  <2> SUFFICES ASSUME NEW b \in DOMAIN coll
               PROVE  /\ coll'[b].of \in Objects
                      /\ coll'[b].generation <= object[coll'[b].of].generation
                      /\ coll'[b].of \in Held
                           /\ coll'[b].generation = object[coll'[b].of].generation
                           => coll'[b].token = rowToken
    BY <1>1, <1>2 DEF CollectionsAreSound, Current
  <2> QED BY <1>1 DEF RowInv, CollectionsAreSound, Current
<1>5. RowsAreOfTheToken'
  <2> SUFFICES ASSUME NEW f \in Held, object[f].payload # 0
               PROVE  coll'[object[f].payload].token = rowToken
    BY <1>2 DEF RowsAreOfTheToken
  <2>1. object[f].payload \in DOMAIN coll
    BY DEF RowInv, RowTypeOK, ObjectsAreSound
  <2> QED BY <1>1, <2>1 DEF RowInv, RowsAreOfTheToken
<1> QED BY <1>3, <1>4, <1>5 DEF RowInv

(* The rows are there, for the current collection or for one that was      *)
(* superseded.                                                             *)
LEMMA CommitsKeepsInv ==
    ASSUME RowInv, NEW c \in DOMAIN coll, Commits(c)
    PROVE  RowInv'
<1>1. Stops(c) /\ UNCHANGED <<panel, rowToken>>
  BY DEF Commits
<1>2. CASE Current(c)
  <2> DEFINE e == coll[c].of
             now == [object[e] EXCEPT !.payload = c, !.revision = @ + 1, !.status = "ready",
                                      !.inflight = 0]
  <2>1. e \in Objects /\ object[e] \in ObjectType /\ c \in Nat
    BY SequenceFacts DEF RowInv, CollectionsAreSound
  <2>2. /\ now \in ObjectType /\ now.id = object[e].id /\ now.signature = object[e].signature
        /\ now.generation = object[e].generation /\ now.payload = c
        /\ now.revision = object[e].revision + 1
    <3>1. PICK old, next : old = object[e] /\ next = object[e].revision + 1
      OBVIOUS
    <3>2. old \in ObjectType /\ next \in Nat
      BY <2>1, <3>1 DEF ObjectType
    <3>3. now = [old EXCEPT !.payload = c, !.revision = next, !.status = "ready",
                            !.inflight = 0]
      BY <3>1
    <3> HIDE DEF now
    <3> QED BY <2>1, <3>1, <3>2, <3>3 DEF ObjectType
  <2>3. object' = [object EXCEPT ![e] = now] /\ held' = Evicted(held, object', Subscriptions(panel))
    <3>1. /\ held' = Evicted(held, object', Subscriptions(panel))
          /\ object' = [[object EXCEPT ![e].payload = c, ![e].revision = @ + 1,
                                       ![e].status = "ready"] EXCEPT ![e].inflight = 0]
      BY <1>2, Zenon DEF Commits, Finally
    <3>2. DOMAIN object = Objects
      BY SequenceFacts DEF RowInv
    <3>3. object' = [object EXCEPT ![e].payload = c, ![e].revision = @ + 1,
                                   ![e].status = "ready", ![e].inflight = 0]
      BY <3>1
    <3>4. object' = [object EXCEPT ![e] = now]
      BY <2>1, <3>2, <3>3
    <3> QED BY <3>1, <3>4, Zenon
  <2> HIDE DEF now
  <2>4. Ends(c, e, now)
    BY <1>2, <2>2, <2>3 DEF Ends
  <2> QED BY <1>1, <2>4, EndKeepsInv
<1>3. CASE ~Current(c)
  BY <1>1, <1>3, ReturnKeepsInv DEF Commits
<1> QED BY <1>2, <1>3

(* A collection fails, by itself or because it was aborted.                *)
LEMMA CollFailsKeepsInv ==
    ASSUME RowInv, NEW c \in DOMAIN coll, CollFails(c)
    PROVE  RowInv'
<1>1. Stops(c) /\ UNCHANGED <<panel, rowToken>>
  BY DEF CollFails
<1>2. CASE Current(c)
  <2> DEFINE e == coll[c].of
             now == [object[e] EXCEPT
                       !.status = IF coll[c].pc = "aborted" THEN @ ELSE "error",
                       !.inflight = 0]
  <2>1. e \in Objects /\ object[e] \in ObjectType
    BY SequenceFacts DEF RowInv, CollectionsAreSound
  <2>2. /\ now \in ObjectType /\ now.id = object[e].id /\ now.signature = object[e].signature
        /\ now.generation = object[e].generation /\ now.payload = object[e].payload
        /\ now.revision = object[e].revision
    BY <2>1 DEF ObjectType
  <2>3. object' = [object EXCEPT ![e] = now] /\ held' = Evicted(held, object', Subscriptions(panel))
    <3>1. /\ held' = Evicted(held, object', Subscriptions(panel))
          /\ object' = [(IF coll[c].pc = "aborted" THEN object
                          ELSE [object EXCEPT ![e].status = "error"]) EXCEPT ![e].inflight = 0]
      BY <1>2, Zenon DEF CollFails, Finally
    <3>2. DOMAIN object = Objects
      BY SequenceFacts DEF RowInv
    <3>3. CASE coll[c].pc = "aborted"
      <4>1. object' = [object EXCEPT ![e].inflight = 0]
        BY <3>1, <3>3
      <4>2. now = [object[e] EXCEPT !.inflight = 0]
        BY <2>1, <3>3 DEF ObjectType
      <4> QED BY <3>1, <4>1, <4>2, Zenon
    <3>4. CASE coll[c].pc # "aborted"
      <4>1. object' = [object EXCEPT ![e].status = "error", ![e].inflight = 0]
        BY <3>1, <3>4
      <4>2. now = [object[e] EXCEPT !.status = "error", !.inflight = 0]
        BY <3>4
      <4>3. object' = [object EXCEPT ![e] = [object[e] EXCEPT !.status = "error", !.inflight = 0]]
        BY <2>1, <3>2, <4>1
      <4> QED BY <3>1, <4>2, <4>3, Zenon
    <3> QED BY <3>3, <3>4
  <2> HIDE DEF now
  <2>4. Ends(c, e, now)
    BY <1>2, <2>2, <2>3 DEF Ends
  <2> QED BY <1>1, <2>4, EndKeepsInv
<1>3. CASE ~Current(c)
  BY <1>1, <1>3, ReturnKeepsInv DEF CollFails
<1> QED BY <1>2, <1>3


(* The credential changes: every entry in the map is emptied, under a new  *)
(* revision, and its collection is superseded.                             *)
LEMMA InvalidateAllKeepsInv ==
    ASSUME RowInv, InvalidateAll
    PROVE  RowInv'
<1> DEFINE emptied(e) ==
             IF e \in Held
               THEN [object[e] EXCEPT !.generation = @ + 1, !.revision = @ + 1,
                       !.inflight = 0, !.payload = 0, !.status = "idle"]
               ELSE object[e]
           stopped(c) ==
             IF \E e \in Held : object[e].inflight = c
               THEN [coll[c] EXCEPT !.pc = "aborted"] ELSE coll[c]
<1>1. /\ object' = [e \in Objects |-> emptied(e)] /\ coll' = [c \in DOMAIN coll |-> stopped(c)]
      /\ rowToken' = rowToken + 1 /\ held' = held /\ panel' = panel /\ Held' = Held
  BY DEF InvalidateAll, Held
<1>2. /\ Len(object) \in Nat /\ DOMAIN object = Objects /\ Objects = 1 .. Len(object)
      /\ Len(coll) \in Nat /\ DOMAIN coll = 1 .. Len(coll)
      /\ Held \subseteq Objects /\ rowToken \in Nat
      /\ \A e \in Objects : object[e] \in ObjectType
      /\ \A c \in DOMAIN coll : coll[c] \in CollType
  BY SequenceFacts DEF RowInv, RowTypeOK
<1>3. ASSUME NEW e \in Objects
      PROVE  /\ emptied(e) \in ObjectType /\ emptied(e).id = object[e].id
             /\ emptied(e).signature = object[e].signature
             /\ e \notin Held => emptied(e) = object[e]
             /\ e \in Held => /\ emptied(e).payload = 0
                              /\ emptied(e).revision = object[e].revision + 1
                              /\ emptied(e).generation = object[e].generation + 1
  <2>1. object[e] \in ObjectType
    BY <1>2
  <2>2. PICK old, revision, generation :
          /\ old = object[e] /\ revision = old.revision + 1 /\ generation = old.generation + 1
    OBVIOUS
  <2>3. old \in ObjectType /\ revision \in Nat /\ generation \in Nat
    BY <2>1, <2>2 DEF ObjectType
  <2> DEFINE now == [old EXCEPT !.generation = generation, !.revision = revision,
                                !.inflight = 0, !.payload = 0, !.status = "idle"]
  <2>4. emptied(e) = IF e \in Held THEN now ELSE old
    BY <2>2
  <2>5. /\ now \in ObjectType /\ now.id = old.id /\ now.signature = old.signature
        /\ now.payload = 0 /\ now.revision = revision /\ now.generation = generation
    BY <2>3 DEF ObjectType
  <2> HIDE DEF emptied, now
  <2> QED BY <2>2, <2>3, <2>4, <2>5
<1>4. ASSUME NEW c \in DOMAIN coll
      PROVE  /\ stopped(c) \in CollType /\ stopped(c).of = coll[c].of
             /\ stopped(c).generation = coll[c].generation /\ stopped(c).token = coll[c].token
  <2>1. PICK old : old = coll[c] /\ old \in CollType
    BY <1>2
  <2>2. stopped(c) = old \/ stopped(c) = [old EXCEPT !.pc = "aborted"]
    BY <2>1
  <2> HIDE DEF stopped
  <2> QED BY <2>1, <2>2 DEF CollType
<1>5. /\ object' \in Seq(ObjectType) /\ Objects' = Objects
      /\ \A e \in Objects : object'[e] = emptied(e)
  <2> HIDE DEF emptied
  <2>1. PICK n, f : n = Len(object) /\ f = object'
    OBVIOUS
  <2>2. n \in Nat /\ f \in [1 .. n -> ObjectType]
    BY <1>1, <1>2, <1>3, <2>1
  <2>3. f \in Seq(ObjectType) /\ Len(f) = n
    BY <2>2, FunctionIsSequence
  <2> QED BY <1>1, <2>1, <2>3 DEF Objects
<1>6. /\ coll' \in Seq(CollType) /\ DOMAIN coll' = DOMAIN coll
      /\ \A c \in DOMAIN coll : coll'[c] = stopped(c)
  <2> HIDE DEF stopped
  <2>1. PICK n, f : n = Len(coll) /\ f = coll'
    OBVIOUS
  <2>2. n \in Nat /\ f \in [1 .. n -> CollType]
    BY <1>1, <1>2, <1>4, <2>1
  <2>3. f \in Seq(CollType) /\ Len(f) = n
    BY <2>2, FunctionIsSequence
  <2>4. f = [c \in DOMAIN coll |-> stopped(c)]
    BY <1>1, <2>1
  <2>5. DOMAIN f = DOMAIN coll /\ \A c \in DOMAIN coll : f[c] = stopped(c)
    BY <2>4
  <2> QED BY <2>1, <2>3, <2>5
<1> HIDE DEF emptied, stopped
<1>7. RowTypeOK'
  BY <1>1, <1>2, <1>5, <1>6 DEF RowInv, RowTypeOK
<1>8. ObjectsAreSound'
  <2> SUFFICES ASSUME NEW e \in Objects
               PROVE  object'[e].id = e /\ object'[e].payload \in {0} \union DOMAIN coll
    BY <1>5, <1>6 DEF ObjectsAreSound
  <2> QED BY <1>3, <1>5 DEF RowInv, ObjectsAreSound
<1>9. CollectionsAreSound'
  <2> SUFFICES ASSUME NEW b \in DOMAIN coll
               PROVE  /\ coll'[b].of \in Objects
                      /\ coll'[b].generation <= object'[coll'[b].of].generation
                      /\ ~ (coll'[b].of \in Held
                            /\ coll'[b].generation = object'[coll'[b].of].generation)
    BY <1>1, <1>5, <1>6 DEF CollectionsAreSound, Current
  <2>1. coll[b].of \in Objects /\ coll[b].generation <= object[coll[b].of].generation
    BY DEF RowInv, CollectionsAreSound
  <2>2. \/ coll[b].of \notin Held /\ object'[coll[b].of] = object[coll[b].of]
        \/ /\ coll[b].of \in Held
           /\ object'[coll[b].of].generation = object[coll[b].of].generation + 1
    BY <1>3, <1>5, <2>1
  <2>3. coll[b].generation \in Nat /\ object[coll[b].of].generation \in Nat
    BY <1>2, <2>1 DEF CollType, ObjectType
  <2>4. coll'[b].of = coll[b].of /\ coll'[b].generation = coll[b].generation
    BY <1>4, <1>6
  <2> QED BY <2>1, <2>2, <2>3, <2>4
<1>10. DrawnIsKnown'
  <2> SUFFICES ASSUME NEW q \in Panels, panel[q].rows # 0
               PROVE  /\ panel[q].id \in Objects
                      /\ panel[q].revision <= object'[panel[q].id].revision
                      /\ panel[q].revision = object'[panel[q].id].revision
                           /\ object'[panel[q].id].payload # 0
                           => object'[panel[q].id].payload = panel[q].rows
    BY <1>1, <1>5 DEF DrawnIsKnown
  <2>1. /\ panel[q].id \in Objects /\ panel[q].revision <= object[panel[q].id].revision
        /\ panel[q].revision = object[panel[q].id].revision /\ object[panel[q].id].payload # 0
             => object[panel[q].id].payload = panel[q].rows
    BY DEF RowInv, DrawnIsKnown
  <2>2. panel[q].revision \in Nat /\ object[panel[q].id].revision \in Nat
    BY <1>2, <2>1 DEF RowInv, RowTypeOK, PanelType, ObjectType
  <2>3. \/ object'[panel[q].id] = object[panel[q].id]
        \/ /\ object'[panel[q].id].payload = 0
           /\ object'[panel[q].id].revision = object[panel[q].id].revision + 1
    BY <1>3, <1>5, <2>1
  <2> QED BY <2>1, <2>2, <2>3
<1>11. \A e \in Held : object'[e].payload = 0 /\ object'[e].signature = object[e].signature
  BY <1>2, <1>3, <1>5
<1>12. RowsAreOfTheToken'
  BY <1>1, <1>11 DEF RowsAreOfTheToken
<1>13. OnlyTheNeededIsKept'
  BY <1>1, <1>11 DEF RowInv, OnlyTheNeededIsKept, HasObject
<1> QED BY <1>7, <1>8, <1>9, <1>10, <1>12, <1>13 DEF RowInv

LEMMA NothingIsAsked == RowInit => RowInv
<1> SUFFICES ASSUME RowInit PROVE RowInv
  OBVIOUS
<1>1. /\ object = <<>> /\ held = <<>> /\ coll = <<>> /\ rowToken = 0
      /\ panel = [p \in Panels |-> [signature |-> None, id |-> 0, revision |-> 0, rows |-> 0]]
  BY DEF RowInit
<1>2. /\ object \in Seq(ObjectType) /\ coll \in Seq(CollType) /\ rowToken \in Nat
      /\ panel \in [Panels -> PanelType]
  BY <1>1 DEF PanelType
<1>3. /\ Held = {} /\ Objects = {} /\ DOMAIN coll = {} /\ held \in [Held -> Nat]
      /\ \A p \in Panels : panel[p].rows = 0 /\ panel[p].signature = None
  BY <1>1 DEF Held, Objects
<1>4. ~ (Cardinality(Held) > MaxEntries)
  BY <1>3, FS_EmptySet, RowAssumption
<1> QED BY <1>2, <1>3, <1>4
        DEF RowInv, RowTypeOK, ObjectsAreSound, CollectionsAreSound, DrawnIsKnown,
            RowsAreOfTheToken, OnlyTheNeededIsKept

(* The inductive invariant holds in every reachable state of the registry. *)
THEOREM RowInvariant == RowSafety => []RowInv
<1>1. ASSUME RowInv, [RowNext]_rowVars PROVE RowInv'
  <2>1. ASSUME NEW p \in Panels, NEW s \in Signatures, NEW force \in BOOLEAN,
               Request(p, s, force)
        PROVE  RowInv'
    BY <1>1, <2>1, RequestKeepsInv
  <2>2. ASSUME NEW p \in Panels, Leave(p) PROVE RowInv'
    BY <1>1, <2>2, LeaveKeepsInv
  <2>3. ASSUME NEW p \in Panels, Fetch(p) PROVE RowInv'
    BY <1>1, <2>3, FetchKeepsInv
  <2>4. ASSUME NEW p \in Panels, Refetch(p) PROVE RowInv'
    BY <1>1, <2>4, RefetchKeepsInv
  <2>5. ASSUME NEW c \in DOMAIN coll, Commits(c) PROVE RowInv'
    BY <1>1, <2>5, CommitsKeepsInv
  <2>6. ASSUME NEW c \in DOMAIN coll, CollFails(c) PROVE RowInv'
    BY <1>1, <2>6, CollFailsKeepsInv
  <2>7. CASE InvalidateAll
    BY <1>1, <2>7, InvalidateAllKeepsInv
  <2>8. CASE UNCHANGED rowVars
    BY <1>1, <2>8
       DEF rowVars, RowInv, RowTypeOK, ObjectsAreSound, CollectionsAreSound, DrawnIsKnown,
           RowsAreOfTheToken, OnlyTheNeededIsKept, Objects, Held, HasObject, Current,
           Evictable, Subscriptions
  <2> QED BY <1>1, <2>1, <2>2, <2>3, <2>4, <2>5, <2>6, <2>7, <2>8 DEF RowNext
<1> QED BY <1>1, NothingIsAsked, PTL DEF RowSafety

(* An identity that a panel has drawn never names other rows, however      *)
(* entries are evicted, made again, refreshed and invalidated meanwhile    *)
(* (rowstore.mjs:147).                                                     *)
THEOREM IdentitiesNameTheirRows == RowSafety => []IdentityNamesItsRows
BY RowInvariant, InvNamesRows, PTL

(* No rows are handed out that were read with a replaced credential        *)
(* (rowstore.mjs:292).                                                     *)
THEOREM RowsBelongToTheToken == RowSafety => []RowsAreOfTheToken
<1>1. RowInv => RowsAreOfTheToken
  BY DEF RowInv
<1> QED BY <1>1, RowInvariant, PTL

(* What is on screen is kept, and beyond the bound nothing else is         *)
(* (rowstore.mjs:72, 97, 274).                                             *)
THEOREM OnlyNeededEntriesStay == RowSafety => []OnlyTheNeededIsKept
<1>1. RowInv => OnlyTheNeededIsKept
  BY DEF RowInv
<1> QED BY <1>1, RowInvariant, PTL


===========================================================================
