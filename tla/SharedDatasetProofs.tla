------------------------ MODULE SharedDatasetProofs ------------------------
(* Proofs, for any finite number of readers, owners and datasets, that the *)
(* counters of lib/dataset.mjs are exact and that whoever holds a dataset  *)
(* can read its file.                                                      *)
EXTENDS SharedDataset, FiniteSetTheorems, TLAPS

---------------------------------------------------------------------------
(* Counting the holders of a dataset in a map f of what everyone holds.    *)
CountIn(f, d) == Cardinality({h \in Holders : f[h] = d})

LEMMA HoldersFinite == IsFiniteSet(Holders)
BY ConstantsAssumption, FS_Union DEF Holders, Clients

(* What a new reference does to the counts: one more for its dataset. *)
LEMMA AddCounts ==
    ASSUME NEW f, NEW g, NEW a \in Holders, NEW d \in Datasets,
           f[a] = None, g[a] = d,
           \A h \in Holders \ {a} : g[h] = f[h]
    PROVE  /\ CountIn(g, d) = CountIn(f, d) + 1
           /\ \A e \in Datasets \ {d} : CountIn(g, e) = CountIn(f, e)
<1> DEFINE F(e) == {h \in Holders : f[h] = e}
           G(e) == {h \in Holders : g[h] = e}
<1>1. G(d) = F(d) \union {a} /\ a \notin F(d)
  BY ConstantsAssumption
<1>2. IsFiniteSet(F(d))
  BY HoldersFinite, FS_Subset
<1>3. Cardinality(G(d)) = Cardinality(F(d)) + 1
  <2> HIDE DEF F, G
  <2> QED BY <1>1, <1>2, FS_AddElement
<1>4. \A e \in Datasets \ {d} : G(e) = F(e)
  BY ConstantsAssumption
<1> QED BY <1>3, <1>4 DEF CountIn

(* A reference that changes hands changes no count. *)
LEMMA MoveCounts ==
    ASSUME NEW f, NEW g, NEW a \in Holders, NEW b \in Holders, a # b,
           f[b] = None, g[b] = f[a], g[a] = None,
           \A h \in Holders \ {a, b} : g[h] = f[h]
    PROVE  \A e \in Datasets : CountIn(g, e) = CountIn(f, e)
<1> SUFFICES ASSUME NEW e \in Datasets PROVE CountIn(g, e) = CountIn(f, e)
  OBVIOUS
<1> DEFINE F == {h \in Holders : f[h] = e}
           G == {h \in Holders : g[h] = e}
<1>1. IsFiniteSet(F) /\ IsFiniteSet(G)
  BY HoldersFinite, FS_Subset
<1>2. CASE f[a] = e
  <2>1. a \in F /\ b \notin F /\ G = (F \ {a}) \union {b} /\ b \notin F \ {a}
    BY <1>2, ConstantsAssumption
  <2>2. IsFiniteSet(F \ {a})
    BY <1>1, FS_RemoveElement
  <2>3. Cardinality(F \ {a}) = Cardinality(F) - 1
    <3> HIDE DEF F, G
    <3> QED BY <1>1, <2>1, FS_RemoveElement
  <2>4. Cardinality(G) = Cardinality(F \ {a}) + 1
    <3> HIDE DEF F, G
    <3> QED BY <2>1, <2>2, FS_AddElement
  <2>5. Cardinality(F) \in Nat
    BY <1>1, FS_CardinalityType
  <2> HIDE DEF F, G
  <2>6. Cardinality(G) = Cardinality(F)
    BY <2>3, <2>4, <2>5
  <2> QED BY <2>6 DEF F, G, CountIn
<1>3. CASE f[a] # e
  <2>1. G = F
    BY <1>3, ConstantsAssumption
  <2> QED BY <2>1 DEF CountIn
<1> QED BY <1>2, <1>3

(* When the holders in S let go, and no two of them hold the same dataset, *)
(* each dataset one of them held loses exactly one.                        *)
LEMMA ClearCounts ==
    ASSUME NEW f, NEW g, NEW S \in SUBSET Holders,
           \A x, y \in S : f[x] = f[y] /\ f[x] # None => x = y,
           \A h \in Holders : g[h] = IF h \in S THEN None ELSE f[h]
    PROVE  \A e \in Datasets :
               CountIn(g, e) = IF \E h \in S : f[h] = e
                                 THEN CountIn(f, e) - 1 ELSE CountIn(f, e)
<1> SUFFICES ASSUME NEW e \in Datasets
             PROVE  CountIn(g, e) = IF \E h \in S : f[h] = e
                                      THEN CountIn(f, e) - 1 ELSE CountIn(f, e)
  OBVIOUS
<1> DEFINE F == {h \in Holders : f[h] = e}
           G == {h \in Holders : g[h] = e}
<1>1. IsFiniteSet(F)
  BY HoldersFinite, FS_Subset
<1>2. CASE \E h \in S : f[h] = e
  <2> PICK s \in S : f[s] = e
    BY <1>2
  <2>1. s \in F /\ G = F \ {s}
    BY ConstantsAssumption
  <2>2. Cardinality(G) = Cardinality(F) - 1
    <3> HIDE DEF F, G
    <3> QED BY <1>1, <2>1, FS_RemoveElement
  <2> QED BY <2>2 DEF CountIn
<1>3. CASE ~ \E h \in S : f[h] = e
  <2>1. G = F
    BY <1>3, ConstantsAssumption
  <2> QED BY <1>3, <2>1 DEF CountIn
<1> QED BY <1>2, <1>3

---------------------------------------------------------------------------
(* A counter is positive exactly when somebody holds the dataset. *)
LEMMA PositiveIffHeld ==
    ASSUME RefsMatchHolders, refs \in [Datasets -> Nat]
    PROVE  \A d \in Datasets : refs[d] > 0 <=> \E h \in Holders : holds[h] = d
<1> SUFFICES ASSUME NEW d \in Datasets
             PROVE  refs[d] > 0 <=> \E h \in Holders : holds[h] = d
  OBVIOUS
<1>1. IsFiniteSet(HeldBy(d))
  BY HoldersFinite, FS_Subset DEF HeldBy
<1>2. refs[d] = Cardinality(HeldBy(d)) /\ refs[d] \in Nat
  BY DEF RefsMatchHolders
<1>3. refs[d] = 0 <=> HeldBy(d) = {}
  BY <1>1, <1>2, FS_EmptySet
<1> QED BY <1>2, <1>3 DEF HeldBy

(* The counters match the references, as a fact about CountIn. *)
LEMMA RefsAreCounts ==
    RefsMatchHolders <=> \A d \in Datasets : refs[d] = CountIn(holds, d)
BY DEF RefsMatchHolders, HeldBy, CountIn

---------------------------------------------------------------------------
(* What lets go in one release holds distinct datasets. *)
LEMMA FreedIsOnePerDataset ==
    ASSUME DatasetInv, NEW h \in Holders, holds[h] # None
    PROVE  /\ Freed(h) \in SUBSET Holders
           /\ h \in Freed(h)
           /\ \A x, y \in Freed(h) : holds[x] = holds[y] /\ holds[x] # None => x = y
<1>1. holds[h] \in Datasets /\ Datasets \subseteq Holders
  BY DEF DatasetInv, TypeOK, Holders
<1>2. ~IsRoot(holds[h]) => holds[holds[holds[h]]] = None /\ holds[holds[h]] \in Datasets
  BY <1>1 DEF DatasetInv, TypeOK, TwoLevels, IsRoot, Holders
<1>3. holds[h] # holds[holds[h]] \/ holds[holds[h]] = None
  BY <1>1, <1>2 DEF IsRoot
<1> QED BY <1>1, <1>3 DEF Freed

(* One release keeps the counters exact. *)
LEMMA LetGoCounts ==
    ASSUME DatasetInv, NEW h \in Holders, holds[h] # None, NEW f,
           f = Cleared(Freed(h)), refs' = Counted(Freed(h))
    PROVE  \A d \in Datasets : refs'[d] = CountIn(f, d)
<1>1. \A e \in Datasets :
        CountIn(f, e) = IF \E x \in Freed(h) : holds[x] = e
                          THEN CountIn(holds, e) - 1 ELSE CountIn(holds, e)
  <2>1. \A x \in Holders : f[x] = IF x \in Freed(h) THEN None ELSE holds[x]
    BY DEF Cleared
  <2> QED BY <2>1, FreedIsOnePerDataset, ClearCounts
<1>2. \A e \in Datasets : refs[e] = CountIn(holds, e)
  BY RefsAreCounts DEF DatasetInv
<1> QED BY <1>1, <1>2 DEF Counted, LosesOne

(* One release keeps counters natural numbers and lives legal. *)
LEMMA LetGoTypes ==
    ASSUME DatasetInv, NEW h \in Holders, holds[h] # None
    PROVE  /\ Counted(Freed(h)) \in [Datasets -> Nat]
           /\ Settled(Freed(h)) \in [Datasets -> Lives]
           /\ Cleared(Freed(h)) \in [Holders -> Datasets \union {None}]
<1>1. \A d \in Datasets : LosesOne(d, Freed(h)) => refs[d] > 0
  BY FreedIsOnePerDataset, PositiveIffHeld DEF DatasetInv, TypeOK, LosesOne
<1>2. Counted(Freed(h)) \in [Datasets -> Nat]
  BY <1>1 DEF Counted, DatasetInv, TypeOK
<1>3. Settled(Freed(h)) \in [Datasets -> Lives]
  BY DEF Settled, DatasetInv, TypeOK, Lives
<1>4. Cleared(Freed(h)) \in [Holders -> Datasets \union {None}]
  BY DEF Cleared, DatasetInv, TypeOK
<1> QED BY <1>2, <1>3, <1>4

---------------------------------------------------------------------------
LEMMA InitEstablishes == DatasetInit => DatasetInv
<1> SUFFICES ASSUME DatasetInit PROVE DatasetInv
  OBVIOUS
<1>1. TypeOK
  BY DEF DatasetInit, TypeOK, Lives
<1>2. RefsMatchHolders
  <2> SUFFICES ASSUME NEW d \in Datasets PROVE refs[d] = Cardinality(HeldBy(d))
    BY DEF RefsMatchHolders
  <2>1. HeldBy(d) = {}
    BY ConstantsAssumption DEF HeldBy, DatasetInit
  <2> QED BY <2>1, FS_EmptySet DEF DatasetInit
<1>3. LifeFollowsRefs
  BY DEF DatasetInit, LifeFollowsRefs
<1>4. TwoLevels /\ UnretiredIsOwned
  BY DEF DatasetInit, TwoLevels, UnretiredIsOwned, IsRoot, Holders
<1> QED BY <1>1, <1>2, <1>3, <1>4 DEF DatasetInv

---------------------------------------------------------------------------
(* The state after a step: a count is positive exactly when it is of a     *)
(* dataset somebody holds.                                                 *)
LEMMA CountPositive ==
    ASSUME NEW f
    PROVE  \A d \in Datasets :
             /\ CountIn(f, d) \in Nat
             /\ CountIn(f, d) > 0 <=> \E h \in Holders : f[h] = d
<1> SUFFICES ASSUME NEW d \in Datasets
             PROVE  /\ CountIn(f, d) \in Nat
                    /\ CountIn(f, d) > 0 <=> \E h \in Holders : f[h] = d
  OBVIOUS
<1> DEFINE F == {h \in Holders : f[h] = d}
<1>1. IsFiniteSet(F)
  BY HoldersFinite, FS_Subset
<1>2. Cardinality(F) \in Nat /\ (Cardinality(F) = 0 <=> F = {})
  BY <1>1, FS_CardinalityType, FS_EmptySet
<1> QED BY <1>2 DEF CountIn

LEMMA NextRefsAreCounts ==
    RefsMatchHolders' <=> \A d \in Datasets : refs'[d] = CountIn(holds', d)
BY DEF RefsMatchHolders, HeldBy, CountIn

(* After a release by a client, counters and lives still agree and roots   *)
(* and views still are two levels.                                         *)
LEMMA LetGoLevels ==
    ASSUME DatasetInv, NEW c \in Clients, holds[c] # None,
           refs' = Counted(Freed(c)), life' = Settled(Freed(c)),
           directory' = directory,
           \A d \in Datasets : holds'[d] = Cleared(Freed(c))[d]
    PROVE  LifeFollowsRefs' /\ TwoLevels'
<1> c \in Holders /\ c \notin Datasets /\ Owners \subseteq Clients /\ Clients \subseteq Holders
        /\ Datasets \subseteq Holders /\ None \notin Datasets
  BY ConstantsAssumption DEF Holders, Clients
<1> holds[c] \in Datasets
  BY DEF DatasetInv, TypeOK
<1> USE DEF DatasetInv
<1>1. LifeFollowsRefs'
  <2> SUFFICES ASSUME NEW d \in Datasets PROVE refs'[d] > 0 <=> life'[d] = "live"
    BY DEF LifeFollowsRefs
  <2>1. /\ refs'[d] = IF LosesOne(d, Freed(c)) THEN refs[d] - 1 ELSE refs[d]
        /\ life'[d] = IF LosesOne(d, Freed(c)) /\ refs[d] = 1
                        THEN IF directory[d] THEN "removing" ELSE "gone"
                        ELSE life[d]
    BY DEF Counted, Settled
  <2>2. refs[d] \in Nat /\ refs'[d] \in Nat /\ (refs[d] > 0 <=> life[d] = "live")
    BY LetGoTypes DEF LifeFollowsRefs, TypeOK
  <2> QED BY <2>1, <2>2
<1>2. TwoLevels'
  <2> SUFFICES ASSUME NEW d \in Datasets
               PROVE  /\ life'[d] \in {"live", "removing"} /\ holds'[d] = None
                           => directory'[d]
                      /\ holds'[d] # None =>
                           /\ life'[d] \in {"live", "removing"}
                           /\ holds'[holds'[d]] = None
                           /\ directory'[holds'[d]]
    BY DEF TwoLevels, IsRoot
  <2>1. /\ life'[d] = IF LosesOne(d, Freed(c)) /\ refs[d] = 1
                        THEN IF directory[d] THEN "removing" ELSE "gone"
                        ELSE life[d]
        /\ \A e \in Datasets : holds'[e] = IF e \in Freed(c) THEN None ELSE holds[e]
        /\ directory' = directory
    BY DEF Settled, Cleared
  <2>2. d \in Freed(c) <=> d = holds[c] /\ refs[d] = 1 /\ ~directory[d]
    BY DEF Freed
  <2>3. d \in Freed(c) => life'[d] = "gone"
    BY <2>1, <2>2, FreedIsOnePerDataset DEF LosesOne
  <2>4. ASSUME d \notin Freed(c), LosesOne(d, Freed(c)), refs[d] = 1, ~IsRoot(d)
        PROVE  directory[d]
    BY <2>2, <2>4 DEF Freed, LosesOne, TwoLevels, IsRoot, TypeOK
  <2>5. holds[d] # None =>
          /\ life[d] \in {"live", "removing"}
          /\ holds[holds[d]] = None
          /\ directory[holds[d]]
          /\ holds[d] \in Datasets
    BY DEF TwoLevels, IsRoot, TypeOK
  <2>6. life[d] \in {"live", "removing"} /\ holds[d] = None => directory[d]
    BY DEF TwoLevels, IsRoot
  <2>7. holds'[d] # None => holds'[d] = holds[d] /\ d \notin Freed(c)
    BY <2>1
  <2>8. holds'[d] = None /\ life'[d] \in {"live", "removing"} => directory[d]
    BY <2>1, <2>3, <2>6
  <2>9. holds'[d] # None => life'[d] \in {"live", "removing"}
    BY <2>1, <2>4, <2>5, <2>7 DEF IsRoot
  <2>10. holds'[d] # None => holds'[holds'[d]] = None /\ directory[holds'[d]]
    BY <2>1, <2>5, <2>7
  <2> QED BY <2>1, <2>8, <2>9, <2>10
<1> QED BY <1>1, <1>2

(* A client that releases keeps the invariant, provided that an owner lets *)
(* go of a view only when it retires it.                                   *)
LEMMA LetGoPreserves ==
    ASSUME DatasetInv, NEW c \in Clients, holds[c] # None, LetGo(c),
           retired' \in [Datasets -> BOOLEAN],
           \A d \in Datasets : retired[d] => retired'[d],
           c \in Owners => IsRoot(holds[c]) \/ retired'[holds[c]]
    PROVE  DatasetInv'
<1> c \in Holders /\ c \notin Datasets /\ Owners \subseteq Clients /\ Clients \subseteq Holders
        /\ Datasets \subseteq Holders /\ None \notin Datasets
  BY ConstantsAssumption DEF Holders, Clients
<1> holds[c] \in Datasets
  BY DEF DatasetInv, TypeOK
<1> USE DEF DatasetInv
<1>1. TypeOK'
  BY LetGoTypes DEF LetGo, TypeOK
<1>2. RefsMatchHolders'
  BY LetGoCounts, NextRefsAreCounts DEF LetGo
<1>3. LifeFollowsRefs' /\ TwoLevels'
  BY LetGoLevels DEF LetGo
<1>4. UnretiredIsOwned'
  <2> SUFFICES ASSUME NEW d \in Datasets, holds'[d] # None, ~retired'[d]
               PROVE  \E o \in Owners : holds'[o] = d
    BY DEF UnretiredIsOwned, IsRoot
  <2>1. \A h \in Holders : holds'[h] = IF h \in Freed(c) THEN None ELSE holds[h]
    BY DEF LetGo, Cleared
  <2>2. ~IsRoot(d) /\ ~retired[d]
    BY <2>1 DEF IsRoot
  <2> PICK o \in Owners : holds[o] = d
    BY <2>2 DEF UnretiredIsOwned
  <2>3. o \notin Freed(c)
    BY <2>2, ConstantsAssumption DEF Freed
  <2> QED BY <2>1, <2>3
<1> QED BY <1>1, <1>2, <1>3, <1>4

---------------------------------------------------------------------------
(* Each step keeps the invariant. A reference that is added or handed over *)
(* changes the counts by AddCounts and MoveCounts.                         *)
LEMMA CreateRootPreserves ==
    ASSUME DatasetInv, NEW o \in Owners, NEW d \in Datasets, CreateRoot(o, d)
    PROVE  DatasetInv'
<1> o \in Holders /\ o \notin Datasets /\ Datasets \subseteq Holders /\ Owners \subseteq Holders
        /\ None \notin Datasets
  BY ConstantsAssumption DEF Holders, Clients
<1> USE DEF DatasetInv
<1>1. TypeOK'
  BY DEF CreateRoot, TypeOK, Lives
<1>2. RefsMatchHolders'
  <2>1. /\ CountIn(holds', d) = CountIn(holds, d) + 1
        /\ \A e \in Datasets \ {d} : CountIn(holds', e) = CountIn(holds, e)
    <3>1. /\ holds[o] = None /\ holds'[o] = d
          /\ \A h \in Holders \ {o} : holds'[h] = holds[h]
      BY DEF CreateRoot, TypeOK
    <3> QED BY <3>1, AddCounts
  <2>2. refs[d] = 0
    BY DEF CreateRoot, LifeFollowsRefs, TypeOK
  <2>3. \A e \in Datasets : refs'[e] = IF e = d THEN 1 ELSE refs[e]
    BY DEF CreateRoot, TypeOK
  <2>4. \A e \in Datasets : refs[e] = CountIn(holds, e)
    BY RefsAreCounts
  <2>5. \A e \in Datasets : refs'[e] = CountIn(holds', e)
    BY <2>1, <2>2, <2>3, <2>4
  <2> QED BY <2>5, NextRefsAreCounts
<1>3. LifeFollowsRefs'
  BY DEF CreateRoot, LifeFollowsRefs, TypeOK
<1>4. TwoLevels'
  BY DEF CreateRoot, TwoLevels, IsRoot, TypeOK
<1>5. UnretiredIsOwned'
  BY DEF CreateRoot, UnretiredIsOwned, IsRoot, TypeOK
<1> QED BY <1>1, <1>2, <1>3, <1>4, <1>5

LEMMA TakePreserves ==
    ASSUME DatasetInv, NEW c \in Clients, holds[c] = None,
           NEW e \in Datasets, refs[e] > 0, Take(c, e)
    PROVE  DatasetInv'
<1> c \in Holders /\ c \notin Datasets /\ Datasets \subseteq Holders /\ Owners \subseteq Holders
        /\ None \notin Datasets
  BY ConstantsAssumption DEF Holders, Clients
<1> USE DEF DatasetInv
<1>1. TypeOK'
  BY DEF Take, TypeOK
<1>2. RefsMatchHolders'
  <2>1. /\ CountIn(holds', e) = CountIn(holds, e) + 1
        /\ \A x \in Datasets \ {e} : CountIn(holds', x) = CountIn(holds, x)
    <3>1. /\ holds[c] = None /\ holds'[c] = e
          /\ \A h \in Holders \ {c} : holds'[h] = holds[h]
      BY DEF Take, TypeOK
    <3> QED BY <3>1, AddCounts
  <2>2. \A d \in Datasets : refs'[d] = IF d = e THEN refs[d] + 1 ELSE refs[d]
    BY DEF Take, TypeOK
  <2>3. \A d \in Datasets : refs[d] = CountIn(holds, d)
    BY RefsAreCounts
  <2>4. \A d \in Datasets : refs'[d] = CountIn(holds', d)
    BY <2>1, <2>2, <2>3
  <2> QED BY <2>4, NextRefsAreCounts
<1>3. LifeFollowsRefs'
  BY DEF Take, LifeFollowsRefs, TypeOK
<1>4. TwoLevels'
  BY DEF Take, TwoLevels, IsRoot, TypeOK
<1>5. UnretiredIsOwned'
  BY DEF Take, UnretiredIsOwned, IsRoot, TypeOK
<1> QED BY <1>1, <1>2, <1>3, <1>4, <1>5

LEMMA CreateViewPreserves ==
    ASSUME DatasetInv, NEW o \in Owners, NEW v \in Datasets, NEW filtered \in BOOLEAN,
           CreateView(o, v, filtered)
    PROVE  DatasetInv'
<1> DEFINE root == holds[o]
           moved == [holds EXCEPT ![v] = root, ![o] = None]
<1> o \in Holders /\ o \notin Datasets /\ Datasets \subseteq Holders /\ Owners \subseteq Holders
        /\ None \notin Datasets
  BY ConstantsAssumption DEF Holders, Clients
<1> USE DEF DatasetInv
<1>1. /\ root \in Datasets /\ holds[root] = None
      /\ holds[v] = None /\ refs[v] = 0
      /\ life[root] = "live" /\ root # v /\ directory[root]
  <2>1. root \in Datasets /\ holds[root] = None /\ life[v] = "unborn"
    BY DEF CreateView, IsRoot, TypeOK
  <2>2. refs[root] > 0
    BY <2>1, PositiveIffHeld DEF TypeOK
  <2>3. life[root] = "live" /\ directory[root] /\ root # v
    BY <2>1, <2>2 DEF LifeFollowsRefs, TwoLevels, IsRoot
  <2>4. holds[v] = None /\ refs[v] = 0
    BY <2>1 DEF LifeFollowsRefs, TwoLevels, IsRoot, TypeOK
  <2> QED BY <2>1, <2>3, <2>4
<1>2. /\ refs' = [refs EXCEPT ![v] = 1]
      /\ life' = [life EXCEPT ![v] = "live"]
      /\ directory' = [directory EXCEPT ![v] = filtered]
      /\ holds' = [holds EXCEPT ![v] = root, ![o] = v]
      /\ retired' = retired
  BY DEF CreateView
<1>3. TypeOK'
  BY <1>1, <1>2 DEF TypeOK, Lives
<1>4. RefsMatchHolders'
  <2>1. \A e \in Datasets : CountIn(moved, e) = CountIn(holds, e)
    <3>1. /\ o # v /\ moved[v] = holds[o] /\ moved[o] = None
          /\ \A h \in Holders \ {o, v} : moved[h] = holds[h]
      BY DEF TypeOK
    <3> HIDE DEF moved
    <3> QED BY <3>1, <1>1, MoveCounts
  <2>2. /\ CountIn(holds', v) = CountIn(moved, v) + 1
        /\ \A e \in Datasets \ {v} : CountIn(holds', e) = CountIn(moved, e)
    <3>1. /\ moved[o] = None /\ holds'[o] = v
          /\ \A h \in Holders \ {o} : holds'[h] = moved[h]
      BY <1>2 DEF TypeOK
    <3> HIDE DEF moved
    <3> QED BY <3>1, AddCounts
  <2>3. \A e \in Datasets : refs[e] = CountIn(holds, e)
    BY RefsAreCounts
  <2>4. \A e \in Datasets : refs'[e] = CountIn(holds', e)
    <3>1. refs'[v] = 1 /\ \A e \in Datasets \ {v} : refs'[e] = refs[e]
      BY <1>2 DEF TypeOK
    <3>2. CountIn(holds, v) = 0 /\ refs[v] = 0
      BY <2>3, <1>1
    <3> HIDE DEF moved, root, DatasetInv
    <3>3. CountIn(holds', v) = 1
      BY <2>1, <2>2, <3>2
    <3>4. \A e \in Datasets \ {v} : CountIn(holds', e) = CountIn(holds, e)
      BY <2>1, <2>2
    <3> QED BY <2>3, <3>1, <3>3, <3>4
  <2> QED BY <2>4, NextRefsAreCounts
<1>5. LifeFollowsRefs'
  BY <1>1, <1>2 DEF LifeFollowsRefs, TypeOK
<1>6. TwoLevels'
  <2>1. \A e \in Datasets \ {v} : holds'[e] = holds[e] /\ life'[e] = life[e]
                                   /\ directory'[e] = directory[e]
    BY <1>2 DEF TypeOK
  <2>2. holds'[v] = root /\ life'[v] = "live"
    BY <1>2 DEF TypeOK
  <2>3. \A e \in Datasets : holds[e] # None => holds[e] # v /\ holds[e] \in Datasets
    <3>1. \A e \in Datasets : holds[e] # None => refs[holds[e]] > 0 /\ holds[e] \in Datasets
      BY PositiveIffHeld DEF TypeOK
    <3> QED BY <3>1, <1>1
  <2> QED BY <1>1, <2>1, <2>2, <2>3 DEF TwoLevels, IsRoot
<1>7. UnretiredIsOwned'
  <2> SUFFICES ASSUME NEW e \in Datasets, holds'[e] # None, ~retired'[e]
               PROVE  \E s \in Owners : holds'[s] = e
    BY DEF UnretiredIsOwned, IsRoot
  <2>1. CASE e = v
    BY <2>1, <1>2 DEF TypeOK
  <2>2. CASE e # v
    <3>1. holds[e] # None /\ ~retired[e]
      BY <2>2, <1>2 DEF TypeOK
    <3> PICK s \in Owners : holds[s] = e
      BY <3>1 DEF UnretiredIsOwned, IsRoot
    <3>2. s # o /\ s # v
      BY <3>1, <1>1, ConstantsAssumption DEF Clients
    <3> QED BY <3>2, <1>2 DEF TypeOK
  <2> QED BY <2>1, <2>2
<1> QED BY <1>3, <1>4, <1>5, <1>6, <1>7

LEMMA CommitPreserves ==
    ASSUME DatasetInv, NEW o \in Owners, NEW s \in Owners, Commit(o, s)
    PROVE  DatasetInv'
<1> DEFINE before == IF holds[s] = None THEN holds ELSE Cleared(Freed(s))
<1> o \in Holders /\ s \in Holders /\ o \notin Datasets /\ s \notin Datasets
        /\ Datasets \subseteq Holders /\ Owners \subseteq Holders /\ None \notin Datasets
        /\ s \in Clients /\ o # s
  BY ConstantsAssumption DEF Holders, Clients, Commit
<1> USE DEF DatasetInv
<1>1. /\ holds[o] \in Datasets
      /\ before \in [Holders -> Datasets \union {None}]
      /\ before[s] = None /\ before[o] = holds[o]
      /\ holds' = [before EXCEPT ![s] = holds[o], ![o] = None]
      /\ \A e \in Datasets : refs'[e] = CountIn(before, e)
  <2>1. holds[o] \in Datasets
    BY DEF Commit, TypeOK
  <2>2. CASE holds[s] = None
    BY <2>1, <2>2, RefsAreCounts DEF Commit, TypeOK
  <2>3. CASE holds[s] # None
    <3>1. before = Cleared(Freed(s)) /\ refs' = Counted(Freed(s))
      BY <2>3 DEF Commit
    <3>2. \A e \in Datasets : refs'[e] = CountIn(before, e)
      <4> HIDE DEF before
      <4> QED BY <2>3, <3>1, LetGoCounts
    <3>3. o \notin Freed(s) /\ s \in Freed(s)
      BY <2>3 DEF Freed, TypeOK
    <3>4. before[s] = None /\ before[o] = holds[o]
      BY <3>1, <3>3 DEF Cleared
    <3>5. before \in [Holders -> Datasets \union {None}]
      BY <3>1, <2>3, LetGoTypes
    <3> QED BY <2>1, <2>3, <3>1, <3>2, <3>4, <3>5 DEF Commit
  <2> QED BY <2>2, <2>3
<1>2. TypeOK'
  <2>1. holds' \in [Holders -> Datasets \union {None}]
    <3> HIDE DEF before
    <3> QED BY <1>1
  <2>2. CASE holds[s] = None
    BY <2>1, <2>2 DEF Commit, TypeOK
  <2>3. CASE holds[s] # None
    <3>1. /\ refs' = Counted(Freed(s)) /\ life' = Settled(Freed(s))
          /\ directory' = directory
          /\ retired' = [retired EXCEPT ![holds[s]] = TRUE]
      BY <2>3 DEF Commit
    <3>2. refs' \in [Datasets -> Nat] /\ life' \in [Datasets -> Lives]
      BY <2>3, <3>1, LetGoTypes
    <3>3. retired' \in [Datasets -> BOOLEAN] /\ directory' \in [Datasets -> BOOLEAN]
      BY <3>1 DEF TypeOK
    <3> QED BY <2>1, <3>2, <3>3 DEF TypeOK
  <2> QED BY <2>2, <2>3
<1>3. RefsMatchHolders'
  <2>1. /\ o # s /\ before[s] = None
        /\ holds'[s] = before[o] /\ holds'[o] = None
        /\ \A h \in Holders \ {o, s} : holds'[h] = before[h]
    <3> HIDE DEF before
    <3> QED BY <1>1
  <2>2. \A e \in Datasets : CountIn(holds', e) = CountIn(before, e)
    <3> HIDE DEF before
    <3> QED BY <2>1, MoveCounts
  <2>3. \A e \in Datasets : refs'[e] = CountIn(holds', e)
    <3> HIDE DEF before
    <3> QED BY <1>1, <2>2
  <2> QED BY <2>3, NextRefsAreCounts
<1>4. LifeFollowsRefs' /\ TwoLevels'
  <2>1. \A d \in Datasets : holds'[d] = before[d]
    <3> HIDE DEF before
    <3> QED BY <1>1
  <2>2. CASE holds[s] = None
    BY <2>1, <2>2 DEF Commit, LifeFollowsRefs, TwoLevels, IsRoot, TypeOK
  <2>3. CASE holds[s] # None
    <3>1. /\ refs' = Counted(Freed(s)) /\ life' = Settled(Freed(s))
          /\ directory' = directory /\ before = Cleared(Freed(s))
      BY <2>3 DEF Commit
    <3> HIDE DEF before, DatasetInv
    <3> QED BY <2>1, <2>3, <3>1, LetGoLevels
  <2> QED BY <2>2, <2>3
<1>5. UnretiredIsOwned'
  <2> SUFFICES ASSUME NEW d \in Datasets, holds'[d] # None, ~retired'[d]
               PROVE  \E x \in Owners : holds'[x] = d
    BY DEF UnretiredIsOwned, IsRoot
  <2>1. ~IsRoot(d) /\ ~retired[d] /\ (holds[s] # None => d # holds[s])
    BY <1>1 DEF Commit, TypeOK, Cleared, IsRoot
  <2> PICK x \in Owners : holds[x] = d
    BY <2>1 DEF UnretiredIsOwned
  <2>2. CASE x = o
    BY <1>1, <2>2
  <2>3. CASE x # o
    <3>1. x # s
      BY <2>1
    <3>2. before[x] = holds[x]
      BY <3>1, ConstantsAssumption DEF Freed, Cleared, Clients, TypeOK
    <3> HIDE DEF before
    <3> QED BY <1>1, <2>3, <3>1, <3>2
  <2> QED BY <2>2, <2>3
<1> QED BY <1>2, <1>3, <1>4, <1>5

LEMMA RemovedPreserves ==
    ASSUME DatasetInv, NEW d \in Datasets, Removed(d)
    PROVE  DatasetInv'
<1> d \in Holders /\ d \notin Clients /\ Datasets \subseteq Holders /\ Owners \subseteq Clients
        /\ Clients \subseteq Holders /\ None \notin Datasets
  BY ConstantsAssumption DEF Holders, Clients
<1> USE DEF DatasetInv
<1>1. /\ life[d] = "removing" /\ refs[d] = 0
      /\ \A h \in Holders : holds[h] # d
      /\ \A e \in Datasets : LosesOne(e, {d}) <=> e = holds[d]
      /\ \A e \in Datasets : LosesOne(e, {d}) => refs[e] > 0
  <2>1. life[d] = "removing" /\ refs[d] = 0
    BY DEF Removed, LifeFollowsRefs, TypeOK
  <2>2. \A h \in Holders : holds[h] # d
    BY <2>1, PositiveIffHeld DEF TypeOK
  <2>3. \A e \in Datasets : LosesOne(e, {d}) <=> e = holds[d]
    BY DEF LosesOne
  <2>4. \A e \in Datasets : LosesOne(e, {d}) => refs[e] > 0
    BY <2>3, PositiveIffHeld DEF TypeOK
  <2> QED BY <2>1, <2>2, <2>3, <2>4
<1>2. /\ \A e \in Datasets : refs'[e] = IF e = holds[d] THEN refs[e] - 1 ELSE refs[e]
      /\ \A h \in Holders : holds'[h] = IF h = d THEN None ELSE holds[h]
      /\ \A e \in Datasets :
           life'[e] = IF e = d THEN "gone"
                      ELSE IF e = holds[d] /\ refs[e] = 1
                        THEN IF directory[e] THEN "removing" ELSE "gone"
                        ELSE life[e]
      /\ retired' = retired /\ directory' = directory
  BY <1>1 DEF Removed, Counted, Cleared, Settled, TypeOK
<1>3. TypeOK'
  <2>1. refs' \in [Datasets -> Nat]
    <3>1. \A e \in Datasets :
            (IF LosesOne(e, {d}) THEN refs[e] - 1 ELSE refs[e]) \in Nat
      <4> TAKE e \in Datasets
      <4>1. refs[e] \in Nat /\ (LosesOne(e, {d}) => refs[e] > 0)
        BY <1>1 DEF TypeOK
      <4> QED BY <4>1
    <3> QED BY <3>1 DEF Removed, Counted
  <2>2. life' \in [Datasets -> Lives]
    BY DEF Removed, Settled, TypeOK, Lives
  <2>3. holds' \in [Holders -> Datasets \union {None}]
    BY DEF Removed, Cleared, TypeOK
  <2> QED BY <1>2, <2>1, <2>2, <2>3 DEF TypeOK
<1>4. RefsMatchHolders'
  <2>1. \A e \in Datasets :
          CountIn(holds', e) = IF \E h \in {d} : holds[h] = e
                                 THEN CountIn(holds, e) - 1 ELSE CountIn(holds, e)
    <3> DEFINE S == {d}
    <3>1. \A h \in Holders : holds'[h] = IF h \in S THEN None ELSE holds[h]
      BY <1>2
    <3>2. S \in SUBSET Holders /\ \A x, y \in S : x = y
      OBVIOUS
    <3> HIDE DEF S
    <3>3. \A e \in Datasets :
            CountIn(holds', e) = IF \E h \in S : holds[h] = e
                                   THEN CountIn(holds, e) - 1 ELSE CountIn(holds, e)
      BY <3>1, <3>2, ClearCounts
    <3> QED BY <3>3 DEF S
  <2>2. \A e \in Datasets : refs[e] = CountIn(holds, e)
    BY RefsAreCounts
  <2>3. \A e \in Datasets : refs'[e] = CountIn(holds', e)
    BY <1>2, <2>1, <2>2
  <2> QED BY <2>3, NextRefsAreCounts
<1>5. LifeFollowsRefs'
  BY <1>1, <1>2 DEF LifeFollowsRefs, TypeOK
<1>6. TwoLevels'
  <2> SUFFICES ASSUME NEW e \in Datasets
               PROVE  /\ life'[e] \in {"live", "removing"} /\ holds'[e] = None
                           => directory[e]
                      /\ holds'[e] # None =>
                           /\ life'[e] \in {"live", "removing"}
                           /\ holds'[holds'[e]] = None
                           /\ directory[holds'[e]]
    BY <1>2 DEF TwoLevels, IsRoot
  <2>1. e = holds[d] => holds[e] = None /\ directory[e]
    BY DEF TwoLevels, IsRoot
  <2>2. holds'[e] # None => holds'[e] = holds[e] /\ holds[e] \in Datasets /\ e # d
    BY <1>2 DEF TypeOK
  <2> QED BY <1>2, <2>1, <2>2 DEF TwoLevels, IsRoot
<1>7. UnretiredIsOwned'
  <2> SUFFICES ASSUME NEW e \in Datasets, holds'[e] # None, ~retired'[e]
               PROVE  \E o \in Owners : holds'[o] = e
    BY DEF UnretiredIsOwned, IsRoot
  <2>1. ~IsRoot(e) /\ ~retired[e]
    BY <1>2 DEF IsRoot
  <2> PICK o \in Owners : holds[o] = e
    BY <2>1 DEF UnretiredIsOwned
  <2> QED BY <1>2
<1> QED BY <1>3, <1>4, <1>5, <1>6, <1>7

---------------------------------------------------------------------------
LEMMA NextPreserves == DatasetInv /\ [DatasetNext]_datasetVars => DatasetInv'
<1> SUFFICES ASSUME DatasetInv, [DatasetNext]_datasetVars PROVE DatasetInv'
  OBVIOUS
<1> Readers \subseteq Clients /\ Owners \subseteq Clients /\ Clients \subseteq Holders
        /\ Datasets \subseteq Holders /\ None \notin Datasets
  BY ConstantsAssumption DEF Clients, Holders
<1>1. ASSUME NEW o \in Owners, NEW d \in Datasets, CreateRoot(o, d) PROVE DatasetInv'
  BY <1>1, CreateRootPreserves
<1>2. ASSUME NEW o \in Owners, NEW v \in Datasets, AcquireRoot(o, v) PROVE DatasetInv'
  <2>1. /\ holds[o] = None /\ holds[v] \in Datasets /\ refs[holds[v]] > 0
        /\ Take(o, holds[v])
    BY <1>2, PositiveIffHeld DEF AcquireRoot, IsRoot, DatasetInv, TypeOK
  <2> QED BY <2>1, TakePreserves
<1>3. ASSUME NEW o \in Owners, NEW v \in Datasets, NEW filtered \in BOOLEAN,
             CreateView(o, v, filtered)
      PROVE  DatasetInv'
  BY <1>3, CreateViewPreserves
<1>4. ASSUME NEW o \in Owners, DropRoot(o) PROVE DatasetInv'
  <2>1. /\ holds[o] # None /\ LetGo(o) /\ IsRoot(holds[o])
        /\ retired' \in [Datasets -> BOOLEAN]
        /\ \A d \in Datasets : retired[d] => retired'[d]
    BY <1>4 DEF DropRoot, DatasetInv, TypeOK
  <2> QED BY <2>1, LetGoPreserves
<1>5. ASSUME NEW o \in Owners, Retire(o) PROVE DatasetInv'
  <2>1. holds[o] \in Datasets
    BY <1>5 DEF Retire, DatasetInv, TypeOK
  <2>2. /\ holds[o] # None /\ LetGo(o) /\ retired'[holds[o]]
        /\ retired' \in [Datasets -> BOOLEAN]
        /\ \A d \in Datasets : retired[d] => retired'[d]
    BY <1>5, <2>1 DEF Retire, DatasetInv, TypeOK
  <2> QED BY <2>2, LetGoPreserves
<1>6. ASSUME NEW o \in Owners, NEW s \in Owners, Commit(o, s) PROVE DatasetInv'
  BY <1>6, CommitPreserves
<1>7. ASSUME NEW r \in Readers, NEW d \in Datasets, Acquire(r, d) PROVE DatasetInv'
  <2>1. holds[r] = None /\ ~IsRoot(d) /\ ~retired[d] /\ Take(r, d)
    BY <1>7 DEF Acquire
  <2>2. \E o \in Owners : holds[o] = d
    BY <2>1 DEF DatasetInv, UnretiredIsOwned
  <2>3. refs[d] > 0
    BY <2>2, PositiveIffHeld DEF DatasetInv, TypeOK
  <2> QED BY <2>1, <2>3, TakePreserves
<1>8. ASSUME NEW r \in Readers, ReleaseReader(r) PROVE DatasetInv'
  <2>1. /\ holds[r] # None /\ LetGo(r) /\ r \notin Owners
        /\ retired' \in [Datasets -> BOOLEAN]
        /\ \A d \in Datasets : retired[d] => retired'[d]
    BY <1>8, ConstantsAssumption DEF ReleaseReader, DatasetInv, TypeOK
  <2> QED BY <2>1, LetGoPreserves
<1>9. ASSUME NEW d \in Datasets, Removed(d) PROVE DatasetInv'
  BY <1>9, RemovedPreserves
<1>10. CASE UNCHANGED datasetVars
  BY <1>10 DEF datasetVars, DatasetInv, TypeOK, RefsMatchHolders, HeldBy, LifeFollowsRefs,
               TwoLevels, UnretiredIsOwned, IsRoot
<1> QED BY <1>1, <1>2, <1>3, <1>4, <1>5, <1>6, <1>7, <1>8, <1>9, <1>10
        DEF DatasetNext, OwnerStep, ReaderStep

LEMMA InvImpliesReadable == DatasetInv => HeldIsReadable
<1> SUFFICES ASSUME DatasetInv, NEW c \in Clients, holds[c] # None PROVE Readable(holds[c])
  BY DEF HeldIsReadable
<1> DEFINE d == holds[c]
<1> Clients \subseteq Holders /\ Datasets \subseteq Holders /\ None \notin Datasets
  BY ConstantsAssumption DEF Holders
<1>1. d \in Datasets /\ life[d] = "live"
  BY PositiveIffHeld DEF DatasetInv, TypeOK, LifeFollowsRefs
<1>2. CASE directory[d]
  BY <1>1, <1>2 DEF Readable, InputOf
<1>3. CASE ~directory[d]
  <2>1. holds[d] \in Datasets /\ directory[holds[d]]
    BY <1>1, <1>3 DEF DatasetInv, TwoLevels, IsRoot, TypeOK
  <2>2. life[holds[d]] = "live"
    BY <1>1, <2>1, PositiveIffHeld DEF DatasetInv, TypeOK, LifeFollowsRefs
  <2> QED BY <1>1, <1>3, <2>1, <2>2 DEF Readable, InputOf
<1> QED BY <1>2, <1>3

(* Every counter of dataset.mjs is exactly the number of its holders, for  *)
(* any number of collections, readers and datasets: no release is missing  *)
(* and none runs twice.                                                    *)
THEOREM RefsAreExact == DatasetSafety => []RefsMatchHolders
<1>1. DatasetInv => RefsMatchHolders
  BY DEF DatasetInv
<1> QED BY <1>1, InitEstablishes, NextPreserves, PTL DEF DatasetSafety

(* The types of the counters, flags and lives: no counter goes below zero. *)
THEOREM TypeCorrect == DatasetSafety => []TypeOK
<1>1. DatasetInv => TypeOK
  BY DEF DatasetInv
<1> QED BY <1>1, InitEstablishes, NextPreserves, PTL DEF DatasetSafety

(* The inductive invariant itself. *)
THEOREM DatasetInvariant == DatasetSafety => []DatasetInv
BY InitEstablishes, NextPreserves, PTL DEF DatasetSafety

(* withDataset's promise: whatever is committed, retired or re-read        *)
(* meanwhile, the file of a dataset somebody holds is there to be read.    *)
THEOREM HeldDatasetsAreReadable == DatasetSafety => []HeldIsReadable
BY InitEstablishes, NextPreserves, InvImpliesReadable, PTL DEF DatasetSafety

===========================================================================
