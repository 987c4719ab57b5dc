---------------------------- MODULE CommandProofs ---------------------------
(* Proofs about the commands of the CLI: for any labels, groups and label  *)
(* prefix and any number of commands that fail at any call, that no runner *)
(* is lost between cordon and uncordon (pkg/runner/runner.go,              *)
(* cmd/cordon.go, cmd/uncordon.go); and for any windows, limits, caps and  *)
(* days, any files and any failures, that the runs of a window are listed  *)
(* exactly (pkg/metrics/collection_window.go, run_cache.go, collect.go).   *)
EXTENDS Cordon, RunListing, SequenceTheorems, FiniteSetTheorems, WellFoundedInduction, TLAPS

(* Words of labels. *)
Alphabet == STRING \union {"cordoned", "cordoned-", "group-"} \union Groups \union {Unknown}
Label == Seq(Alphabet)

(* Labels a runner can have come to: the empty one is what is left of the  *)
(* prefix, which was then not the marker.                                  *)
WellMade(found) ==
    /\ found \subseteq Label
    /\ <<>> \in found => LabelPrefix # CordonMarkerLabel

(* What the suspended command knows of the runner.                         *)
CommandType ==
    [pc : {"idle"}, outcome : {"none", "already", "not", "failed", "cordoned", "uncordoned"}]
    \union [pc : {"find", "locate", "rename"}, found : SUBSET Label]
    \union [pc : {"mark", "move"}, found : SUBSET Label, from : Groups \union {Unknown}]
    \union [pc : {"default", "return", "relabel"}, found : SUBSET Label,
            to : Groups \union {Unknown, None}]

CordonTypeOK ==
    /\ WellMade(labels)
    /\ group \in Groups
    /\ command \in CommandType
    /\ origin \in [labels : SUBSET Label, group : Groups] /\ WellMade(origin.labels)

(* A runner that does not look cordoned is as it was, also while a cordon  *)
(* is at work on it.                                                       *)
LooksAsItIs ==
    AllPlain => IF IsCordoned(labels) THEN WouldRestore
                ELSE labels = origin.labels /\ group = origin.group

(* Nobody else changes the labels under a command, ...                     *)
FoundIsThere ==
    /\ command.pc \in {"find", "locate", "mark", "rename"} =>
         command.found = labels /\ ~IsCordoned(labels)
    /\ command.pc \in {"default", "return", "relabel"} =>
         command.found = labels /\ IsCordoned(labels)

(* ... the group is on record before the runner is moved and until it is   *)
(* back, ...                                                               *)
GroupIsOnRecord ==
    command.pc \in {"move", "default", "return"} =>
        IsCordoned(labels) /\ None \notin RestoredGroups(labels)

(* ... and an uncordon returns it to where it came from.                   *)
GoesBack ==
    /\ command.pc = "return" => command.to \in Groups
    /\ AllPlain =>
         /\ command.pc = "default" => origin.group = Default
         /\ command.pc = "return" => origin.group = command.to
         /\ command.pc = "relabel" => origin.group = group

CordonInv == CordonTypeOK /\ LooksAsItIs /\ FoundIsThere /\ GroupIsOnRecord /\ GoesBack

---------------------------------------------------------------------------
(* Labels.                                                                 *)
LEMMA MarksAreLabels ==
    /\ CordonMarkerLabel \in Label /\ CordonMarkerLabel # <<>>
    /\ \A g \in Groups \union {Unknown} :
         /\ GroupLabel(g) \in Label /\ GroupLabel(g) # <<>> /\ GroupLabel(g) # CordonMarkerLabel
         /\ HasPrefix(GroupLabel(g), CordonGroupLabelPrefix)
    /\ ~HasPrefix(CordonMarkerLabel, CordonGroupLabelPrefix)
<1> DEFINE A == Alphabet
<1>1. "cordoned" \in A /\ "cordoned-" \in A /\ "group-" \in A /\ Groups \union {Unknown} \subseteq A
  BY DEF Alphabet
<1>2. Label = Seq(A)
  BY DEF Label
<1> HIDE DEF A
<1>3. CordonMarkerLabel \in Seq(A) /\ Len(CordonMarkerLabel) = 1
  BY <1>1 DEF CordonMarkerLabel
<1>4. CordonGroupLabelPrefix \in Seq(A) /\ Len(CordonGroupLabelPrefix) = 2
  BY <1>1 DEF CordonGroupLabelPrefix
<1>5. ASSUME NEW g \in Groups \union {Unknown}
      PROVE  /\ GroupLabel(g) \in Seq(A) /\ Len(GroupLabel(g)) = 3
             /\ HasPrefix(GroupLabel(g), CordonGroupLabelPrefix)
  <2>1. PICK prefix \in Seq(A) : prefix = CordonGroupLabelPrefix /\ Len(prefix) = 2
    BY <1>4
  <2>2. PICK label : label = Append(prefix, g)
    OBVIOUS
  <2>3. g \in A
    BY <1>1
  <2>4. /\ label \in Seq(A) /\ Len(label) = Len(prefix) + 1
        /\ \A i \in 1 .. Len(prefix) : label[i] = prefix[i]
    <3>1. Append(prefix, g) \in Seq(A)
      BY <2>3, AppendProperties
    <3>2. Len(Append(prefix, g)) = Len(prefix) + 1
      BY <2>3, AppendProperties
    <3>3. \A i \in 1 .. Len(prefix) : Append(prefix, g)[i] = prefix[i]
      BY <2>3, AppendProperties
    <3> QED BY <2>2, <3>1, <3>2, <3>3, Zenon
  <2>5. SubSeq(prefix, 1, 2) = SubSeq(label, 1, 2)
    BY <2>1, <2>4
  <2> QED BY <2>1, <2>2, <2>4, <2>5 DEF GroupLabel, HasPrefix, IsPrefix
<1>6. ~HasPrefix(CordonMarkerLabel, CordonGroupLabelPrefix)
  BY <1>3, <1>4 DEF HasPrefix, IsPrefix
<1>7. CordonMarkerLabel # <<>>
  BY <1>3
<1>8. \A g \in Groups \union {Unknown} : GroupLabel(g) # <<>> /\ GroupLabel(g) # CordonMarkerLabel
  BY <1>3, <1>5
<1> QED BY <1>2, <1>3, <1>5, <1>6, <1>7, <1>8

LEMMA GroupLabelsDiffer ==
    ASSUME NEW g \in Groups \union {Unknown}, NEW h \in Groups \union {Unknown},
           GroupLabel(g) = GroupLabel(h)
    PROVE  g = h
<1> DEFINE A == Alphabet
<1>1. "cordoned-" \in A /\ "group-" \in A /\ g \in A /\ h \in A
  BY DEF Alphabet
<1> HIDE DEF A
<1>2. CordonGroupLabelPrefix \in Seq(A) /\ Len(CordonGroupLabelPrefix) = 2
  BY <1>1 DEF CordonGroupLabelPrefix
<1>3. GroupLabel(g)[Len(CordonGroupLabelPrefix) + 1] = g
  BY <1>1, <1>2, AppendProperties, ZenonT(60) DEF GroupLabel
<1>4. GroupLabel(h)[Len(CordonGroupLabelPrefix) + 1] = h
  BY <1>1, <1>2, AppendProperties, ZenonT(60) DEF GroupLabel
<1> QED BY <1>3, <1>4

(* Renaming a label with the prefix, and undoing it.                       *)
LEMMA RenamedComesBack ==
    ASSUME NEW l \in Label
    PROVE  /\ LabelPrefix \o l \in Label /\ LabelPrefix \o l # <<>>
           /\ HasPrefix(LabelPrefix \o l, LabelPrefix)
           /\ TrimPrefix(LabelPrefix \o l, LabelPrefix) = l
           /\ LabelPrefix \o l = CordonMarkerLabel => l = <<>> /\ LabelPrefix = CordonMarkerLabel
<1> DEFINE A == Alphabet
<1>1. LabelPrefix \in Seq(A) /\ LabelPrefix # <<>> /\ l \in Seq(A)
  BY CordonAssumption DEF Label, Alphabet
<1>2. Len(LabelPrefix) \in Nat /\ Len(LabelPrefix) > 0 /\ Len(l) \in Nat
  BY <1>1
<1>3. PICK both : both = LabelPrefix \o l
  OBVIOUS
<1>4. /\ both \in Seq(A) /\ Len(both) = Len(LabelPrefix) + Len(l)
      /\ \A i \in 1 .. Len(LabelPrefix) : both[i] = LabelPrefix[i]
      /\ \A i \in 1 .. Len(l) : both[Len(LabelPrefix) + i] = l[i]
  BY <1>1, <1>3
<1> HIDE DEF A
<1>5. SubSeq(both, 1, Len(LabelPrefix)) = SubSeq(LabelPrefix, 1, Len(LabelPrefix))
  BY <1>1, <1>2, <1>4
<1>6. SubSeq(both, Len(LabelPrefix) + 1, Len(both)) = l
  BY <1>1, <1>2, <1>4
<1>7. ASSUME both = CordonMarkerLabel PROVE l = <<>> /\ LabelPrefix = CordonMarkerLabel
  <2>1. Len(both) = 1 /\ both[1] = "cordoned"
    BY <1>7 DEF CordonMarkerLabel
  <2>2. PICK m \in Nat, n \in Nat : m = Len(LabelPrefix) /\ n = Len(l)
    BY <1>2
  <2>3. m + n = 1 /\ m > 0
    BY <1>2, <1>4, <2>1, <2>2
  <2>4. m = 1 /\ n = 0
    BY <2>3
  <2>5. LabelPrefix[1] = "cordoned" /\ Len(LabelPrefix) = 1 /\ Len(l) = 0
    BY <1>4, <2>1, <2>2, <2>4
  <2>6. l = <<>>
    BY <1>1, <2>5
  <2>7. LabelPrefix = <<"cordoned">>
    BY <1>1, <2>5
  <2> QED BY <2>6, <2>7 DEF CordonMarkerLabel
<1> QED BY <1>2, <1>3, <1>4, <1>5, <1>6, <1>7 DEF HasPrefix, IsPrefix, TrimPrefix, Label, A

LEMMA TrimmedIsALabel ==
    ASSUME NEW l \in Label, HasPrefix(l, LabelPrefix)
    PROVE  /\ TrimPrefix(l, LabelPrefix) \in Label
           /\ TrimPrefix(l, LabelPrefix) = <<>> => l = LabelPrefix
<1> DEFINE A == Alphabet
<1>1. /\ l \in Seq(A) /\ LabelPrefix \in Seq(A) /\ Len(LabelPrefix) <= Len(l)
      /\ SubSeq(LabelPrefix, 1, Len(LabelPrefix)) = SubSeq(l, 1, Len(LabelPrefix))
  BY CordonAssumption DEF Label, Alphabet, HasPrefix, IsPrefix
<1>2. Len(l) \in Nat /\ Len(LabelPrefix) \in Nat
  BY <1>1
<1> HIDE DEF A
<1>3. PICK rest : rest = TrimPrefix(l, LabelPrefix)
  OBVIOUS
<1>4. rest \in Seq(A) /\ Len(rest) = Len(l) - Len(LabelPrefix)
  BY <1>1, <1>2, <1>3 DEF TrimPrefix
<1>5. ASSUME rest = <<>> PROVE l = LabelPrefix
  <2>1. Len(l) = Len(LabelPrefix)
    BY <1>2, <1>4, <1>5
  <2>2. SubSeq(LabelPrefix, 1, Len(LabelPrefix)) = LabelPrefix /\ SubSeq(l, 1, Len(l)) = l
    BY <1>1, <1>2
  <2> QED BY <1>1, <2>1, <2>2
<1> QED BY <1>3, <1>4, <1>5 DEF Label, A

---------------------------------------------------------------------------
(* What commands make of the labels.                                       *)
LEMMA RestoringKeeps ==
    ASSUME NEW found, WellMade(found)
    PROVE  WellMade(RestoredLabels(found))
<1>1. ASSUME NEW l \in found, l # CordonMarkerLabel,
             NEW r, r = IF HasPrefix(l, LabelPrefix) THEN TrimPrefix(l, LabelPrefix) ELSE l
      PROVE  r \in Label /\ (r = <<>> => LabelPrefix # CordonMarkerLabel)
  <2>1. l \in Label /\ (l = <<>> => LabelPrefix # CordonMarkerLabel)
    BY DEF WellMade
  <2>2. CASE HasPrefix(l, LabelPrefix)
    BY <1>1, <2>1, <2>2, TrimmedIsALabel
  <2>3. CASE ~HasPrefix(l, LabelPrefix)
    BY <1>1, <2>1, <2>3
  <2> QED BY <2>2, <2>3
<1>2. \A r \in RestoredLabels(found) :
        \E l \in found : /\ l # CordonMarkerLabel
                         /\ r = IF HasPrefix(l, LabelPrefix) THEN TrimPrefix(l, LabelPrefix) ELSE l
  BY DEF RestoredLabels
<1> QED BY <1>1, <1>2 DEF WellMade

LEMMA MarkingKeeps ==
    ASSUME NEW found, WellMade(found), NEW g \in Groups \union {Unknown}
    PROVE  WellMade(found \union {CordonMarkerLabel, GroupLabel(g)})
BY MarksAreLabels DEF WellMade

LEMMA RenamingKeeps ==
    ASSUME NEW found, WellMade(found)
    PROVE  WellMade(BuildCordonLabels(found))
<1>1. \A l \in found : LabelPrefix \o l \in Label /\ LabelPrefix \o l # <<>>
  BY RenamedComesBack DEF WellMade
<1> QED BY <1>1, MarksAreLabels DEF WellMade, BuildCordonLabels

(* The groups an uncordon may take are IDs, or none is on record.          *)
LEMMA GroupsOnRecord ==
    ASSUME NEW found
    PROVE  /\ RestoredGroups(found) \subseteq Groups \union {Unknown, None}
           /\ RestoredGroups(found) # {}
           /\ None \in RestoredGroups(found) => RestoredGroups(found) = {None}
           /\ (\E g \in Groups \union {Unknown} : GroupLabel(g) \in found)
                => None \notin RestoredGroups(found)
<1>1. PICK ids : ids = {g \in Groups \union {Unknown} : GroupLabel(g) \in found}
  OBVIOUS
<1>2. RestoredGroups(found) = IF ids = {} THEN {None} ELSE ids
  BY <1>1 DEF RestoredGroups
<1>3. None \notin ids
  BY <1>1, CordonAssumption
<1> QED BY <1>1, <1>2, <1>3

(* Plain labels come back from under a group's record, ...                 *)
LEMMA MarkIsUndone ==
    ASSUME NEW found, \A l \in found : Plain(l),
           NEW g \in Groups \union {Unknown}
    PROVE  /\ RestoredLabels(found \union {CordonMarkerLabel, GroupLabel(g)}) = found
           /\ RestoredGroups(found \union {CordonMarkerLabel, GroupLabel(g)}) = {g}
<1>1. PICK marked : marked = found \union {CordonMarkerLabel, GroupLabel(g)}
  OBVIOUS
<1>2. \A l \in found : /\ l # CordonMarkerLabel
                       /\ ~HasPrefix(l, CordonGroupLabelPrefix) /\ ~HasPrefix(l, LabelPrefix)
  BY DEF Plain
<1>3. marked \ ({CordonMarkerLabel} \union GroupMarks(marked)) = found
  BY <1>1, <1>2, MarksAreLabels DEF GroupMarks
<1>4. RestoredLabels(marked) = found
  BY <1>2, <1>3 DEF RestoredLabels
<1>5. \A h \in Groups \union {Unknown} : GroupLabel(h) \in marked <=> h = g
  BY <1>1, <1>2, MarksAreLabels, GroupLabelsDiffer
<1>6. RestoredGroups(marked) = {g}
  <2>1. {h \in Groups \union {Unknown} : GroupLabel(h) \in marked} = {g}
    BY <1>5
  <2> QED BY <2>1 DEF RestoredGroups
<1> QED BY <1>1, <1>4, <1>6

(* ... and from under the prefix.                                          *)
LEMMA RenameIsUndone ==
    ASSUME NEW found, WellMade(found), \A l \in found : Plain(l)
    PROVE  /\ RestoredLabels(BuildCordonLabels(found)) = found
           /\ RestoredGroups(BuildCordonLabels(found)) = {None}
<1>1. PICK renamed : renamed = BuildCordonLabels(found)
  OBVIOUS
<1>2. \A l \in found : /\ ~HasPrefix(LabelPrefix \o l, CordonGroupLabelPrefix)
                       /\ HasPrefix(LabelPrefix \o l, LabelPrefix)
                       /\ TrimPrefix(LabelPrefix \o l, LabelPrefix) = l
                       /\ LabelPrefix \o l # CordonMarkerLabel
  BY RenamedComesBack DEF Plain, WellMade, CordonMarkerLabel
<1>3. renamed = {CordonMarkerLabel} \union {LabelPrefix \o l : l \in found}
  BY <1>1 DEF BuildCordonLabels
<1>4. renamed \ ({CordonMarkerLabel} \union GroupMarks(renamed)) = {LabelPrefix \o l : l \in found}
  BY <1>2, <1>3 DEF GroupMarks
<1>5. RestoredLabels(renamed) = found
  <2> DEFINE Restore(l) == IF HasPrefix(l, LabelPrefix) THEN TrimPrefix(l, LabelPrefix) ELSE l
  <2>1. RestoredLabels(renamed) = {Restore(l) : l \in {LabelPrefix \o m : m \in found}}
    BY <1>4 DEF RestoredLabels
  <2>2. \A m \in found : Restore(LabelPrefix \o m) = m
    BY <1>2
  <2> HIDE DEF Restore
  <2> QED BY <2>1, <2>2
<1>6. RestoredGroups(renamed) = {None}
  <2>1. \A g \in Groups \union {Unknown} : GroupLabel(g) \notin renamed
    BY <1>2, <1>3, MarksAreLabels
  <2>2. {g \in Groups \union {Unknown} : GroupLabel(g) \in renamed} = {}
    BY <2>1
  <2> QED BY <2>2 DEF RestoredGroups
<1> QED BY <1>1, <1>5, <1>6


---------------------------------------------------------------------------
LEMMA CordonStart == CordonInit => CordonInv
<1> SUFFICES ASSUME CordonInit PROVE CordonInv
  OBVIOUS
<1>1. WellMade(labels)
  <2>1. Words \subseteq Label
    BY CordonAssumption DEF Label, Alphabet
  <2> QED BY <2>1, CordonAssumption DEF CordonInit, WellMade
<1>2. group \in Groups /\ origin = [labels |-> labels, group |-> group]
  BY DEF CordonInit
<1>3. command = Idle("none") /\ command.pc = "idle"
  BY DEF CordonInit, Idle
<1>4. CordonTypeOK
  BY <1>1, <1>2, <1>3 DEF CordonTypeOK, CommandType, Idle, WellMade
<1>5. LooksAsItIs
  BY <1>2 DEF LooksAsItIs, AllPlain, Plain, IsCordoned
<1> QED BY <1>3, <1>4, <1>5 DEF CordonInv, FoundIsThere, GroupIsOnRecord, GoesBack

(* A command that ends, or fails, leaves what holds of the runner.         *)
LEMMA Ended ==
    ASSUME WellMade(labels)', group' \in Groups,
           origin' \in [labels : SUBSET Label, group : Groups], WellMade(origin.labels)',
           LooksAsItIs',
           NEW outcome \in {"none", "already", "not", "failed", "cordoned", "uncordoned"},
           command' = Idle(outcome)
    PROVE  CordonInv'
<1>1. command'.pc = "idle" /\ command' \in CommandType
  BY DEF Idle, CommandType
<1> QED BY <1>1 DEF CordonInv, CordonTypeOK, FoundIsThere, GroupIsOnRecord, GoesBack

LEMMA CordonKeeps ==
    ASSUME CordonInv, NEW strategy \in {"group", "label"}, Cordon(strategy)
    PROVE  CordonInv'
<1>1. CASE IsCordoned(labels)
  <2>1. command' = Idle("already") /\ UNCHANGED <<labels, group, origin>>
    BY <1>1 DEF Cordon, Begin
  <2> QED BY <2>1, Ended DEF CordonInv, CordonTypeOK, LooksAsItIs, AllPlain, WouldRestore, GroupAfter
<1>2. CASE ~IsCordoned(labels)
  <2>1. /\ command' = [pc |-> IF strategy = "group" THEN "find" ELSE "rename", found |-> labels]
        /\ origin' = [labels |-> labels, group |-> group]
        /\ UNCHANGED <<labels, group>>
    BY <1>2 DEF Cordon, Begin
  <2>2. WellMade(labels) /\ labels \subseteq Label /\ group \in Groups
    BY DEF CordonInv, CordonTypeOK, WellMade
  <2>3. command'.pc \in {"find", "rename"} /\ command'.found = labels /\ command' \in CommandType
    BY <2>1, <2>2 DEF CommandType
  <2>4. CordonTypeOK'
    BY <2>1, <2>2, <2>3 DEF CordonTypeOK
  <2>5. LooksAsItIs'
    BY <1>2, <2>1 DEF LooksAsItIs
  <2> QED BY <1>2, <2>1, <2>3, <2>4, <2>5
          DEF CordonInv, FoundIsThere, GroupIsOnRecord, GoesBack
<1> QED BY <1>1, <1>2

LEMMA UncordonKeeps ==
    ASSUME CordonInv, Uncordon
    PROVE  CordonInv'
<1>1. UNCHANGED <<labels, group, origin>>
  BY DEF Uncordon
<1>2. LooksAsItIs' /\ WellMade(labels)' /\ WellMade(origin.labels)'
  BY <1>1 DEF CordonInv, CordonTypeOK, LooksAsItIs, AllPlain, WouldRestore, GroupAfter
<1>3. CASE ~IsCordoned(labels)
  <2>1. command' = Idle("not")
    BY <1>3 DEF Uncordon, Begin
  <2> QED BY <1>1, <1>2, <2>1, Ended DEF CordonInv, CordonTypeOK
<1>4. CASE IsCordoned(labels)
  <2>1. PICK g \in RestoredGroups(labels) :
          command' = [pc |-> IF g = None THEN "relabel" ELSE IF g = Unknown THEN "default" ELSE "return",
                      found |-> labels, to |-> g]
    BY <1>4 DEF Uncordon, Begin
  <2>2. /\ command'.found = labels /\ command'.to = g
        /\ command'.pc = IF g = None THEN "relabel" ELSE IF g = Unknown THEN "default" ELSE "return"
    BY <2>1
  <2>3. g \in Groups \union {Unknown, None} /\ (None \in RestoredGroups(labels) => g = None)
    BY GroupsOnRecord
  <2>4. CordonTypeOK'
    <3>1. labels \subseteq Label
      BY DEF CordonInv, CordonTypeOK, WellMade
    <3>2. command' \in CommandType
      BY <2>1, <2>3, <3>1 DEF CommandType
    <3> QED BY <1>1, <1>2, <3>2 DEF CordonInv, CordonTypeOK
  <2>5. AllPlain => GroupAfter(g) = origin.group
    BY <1>4 DEF CordonInv, LooksAsItIs, WouldRestore
  <2>6. GoesBack'
    BY <1>1, <2>2, <2>3, <2>5 DEF GoesBack, AllPlain, GroupAfter
  <2> QED BY <1>1, <1>2, <1>4, <2>2, <2>3, <2>4, <2>6 DEF CordonInv, FoundIsThere, GroupIsOnRecord
<1> QED BY <1>3, <1>4

(* The steps of CordonByGroup.                                             *)
LEMMA FindGroupKeeps ==
    ASSUME CordonInv, FindGroup
    PROVE  CordonInv'
<1>1. UNCHANGED <<labels, group, origin>> /\ command.pc = "find"
  BY DEF FindGroup
<1>2. LooksAsItIs' /\ WellMade(labels)' /\ WellMade(origin.labels)'
  BY <1>1 DEF CordonInv, CordonTypeOK, LooksAsItIs, AllPlain, WouldRestore, GroupAfter
<1>3. CASE command' = Idle("failed")
  BY <1>1, <1>2, <1>3, Ended DEF CordonInv, CordonTypeOK
<1>4. CASE command' = [command EXCEPT !.pc = "locate"]
  <2>1. command \in [pc : {"find", "locate", "rename"}, found : SUBSET Label]
    BY <1>1 DEF CordonInv, CordonTypeOK, CommandType
  <2>2. /\ command'.pc = "locate" /\ command'.found = command.found
        /\ command' \in CommandType
    BY <1>4, <2>1 DEF CommandType
  <2>3. command.found = labels /\ ~IsCordoned(labels)
    BY <1>1 DEF CordonInv, FoundIsThere
  <2> QED BY <1>1, <1>2, <2>2, <2>3
          DEF CordonInv, CordonTypeOK, FoundIsThere, GroupIsOnRecord, GoesBack
<1> QED BY <1>3, <1>4 DEF FindGroup, Goes

LEMMA LocateKeeps ==
    ASSUME CordonInv, Locate
    PROVE  CordonInv'
<1>1. UNCHANGED <<labels, group, origin>> /\ command.pc = "locate"
  BY DEF Locate
<1>2. LooksAsItIs' /\ WellMade(labels)' /\ WellMade(origin.labels)'
  BY <1>1 DEF CordonInv, CordonTypeOK, LooksAsItIs, AllPlain, WouldRestore, GroupAfter
<1>3. PICK g \in {group, Unknown} : command' = [pc |-> "mark", found |-> command.found, from |-> g]
  BY DEF Locate
<1>4. command \in [pc : {"find", "locate", "rename"}, found : SUBSET Label] /\ group \in Groups
  BY <1>1 DEF CordonInv, CordonTypeOK, CommandType
<1>5. /\ command'.pc = "mark" /\ command'.found = command.found
      /\ command' \in CommandType
  BY <1>3, <1>4 DEF CommandType
<1>6. command.found = labels /\ ~IsCordoned(labels)
  BY <1>1 DEF CordonInv, FoundIsThere
<1> QED BY <1>1, <1>2, <1>4, <1>5, <1>6
        DEF CordonInv, CordonTypeOK, FoundIsThere, GroupIsOnRecord, GoesBack

LEMMA MarkKeeps ==
    ASSUME CordonInv, Mark
    PROVE  CordonInv'
<1>1. command \in [pc : {"mark", "move"}, found : SUBSET Label, from : Groups \union {Unknown}]
  BY DEF Mark, CordonInv, CordonTypeOK, CommandType
<1>2. PICK g \in Groups \union {Unknown} : g = command.from
  BY <1>1
<1>3. /\ labels' = labels \union {CordonMarkerLabel, GroupLabel(g)}
      /\ origin' = [origin EXCEPT !.group = IF g = Unknown THEN Default ELSE g]
      /\ group' = group
  BY <1>2 DEF Mark
<1>4. /\ origin \in [labels : SUBSET Label, group : Groups]
      /\ WellMade(origin.labels) /\ WellMade(labels) /\ group \in Groups
  BY DEF CordonInv, CordonTypeOK
<1>5. /\ origin' \in [labels : SUBSET Label, group : Groups]
      /\ origin'.labels = origin.labels
      /\ origin'.group = IF g = Unknown THEN Default ELSE g
  BY <1>3, <1>4, CordonAssumption
<1>6. WellMade(labels)' /\ WellMade(origin.labels)'
  BY <1>3, <1>4, <1>5, MarkingKeeps
<1>7. IsCordoned(labels)' /\ None \notin RestoredGroups(labels)'
  BY <1>3, GroupsOnRecord DEF IsCordoned
<1>8. LooksAsItIs'
  <2>1. SUFFICES ASSUME AllPlain' PROVE WouldRestore'
    BY <1>7 DEF LooksAsItIs
  <2>2. AllPlain
    BY <1>5, <2>1 DEF AllPlain
  <2>3. labels = origin.labels
    BY <2>2 DEF Mark, CordonInv, LooksAsItIs, FoundIsThere
  <2>4. RestoredLabels(labels)' = origin.labels /\ RestoredGroups(labels)' = {g}
    BY <1>3, <2>2, <2>3, MarkIsUndone DEF AllPlain
  <2> QED BY <1>5, <2>4, CordonAssumption DEF WouldRestore, GroupAfter
<1>9. CASE command' = Idle("failed")
  BY <1>3, <1>4, <1>5, <1>6, <1>8, <1>9, Ended
<1>10. CASE command' = [command EXCEPT !.pc = "move"]
  <2>1. command'.pc = "move" /\ command' \in CommandType
    BY <1>1, <1>10 DEF CommandType
  <2> QED BY <1>3, <1>4, <1>5, <1>6, <1>7, <1>8, <2>1
          DEF CordonInv, CordonTypeOK, FoundIsThere, GroupIsOnRecord, GoesBack
<1> QED BY <1>9, <1>10 DEF Mark, Goes

LEMMA MoveKeeps ==
    ASSUME CordonInv, Move
    PROVE  CordonInv'
<1>1. /\ UNCHANGED <<labels, origin>> /\ group' = Isolated /\ Isolated \in Groups
      /\ command.pc = "move" /\ command' \in {Idle("cordoned"), Idle("failed")}
  BY CordonAssumption DEF Move, Goes
<1>2. IsCordoned(labels) /\ None \notin RestoredGroups(labels)
  BY <1>1 DEF CordonInv, GroupIsOnRecord
<1>3. LooksAsItIs'
  BY <1>1, <1>2 DEF CordonInv, LooksAsItIs, AllPlain, WouldRestore, GroupAfter
<1>4. WellMade(labels)' /\ WellMade(origin.labels)' /\ origin' \in [labels : SUBSET Label, group : Groups]
  BY <1>1 DEF CordonInv, CordonTypeOK
<1> QED BY <1>1, <1>3, <1>4, Ended

(* CordonByLabel.                                                          *)
LEMMA RenameKeeps ==
    ASSUME CordonInv, Rename
    PROVE  CordonInv'
<1>1. /\ labels' = BuildCordonLabels(labels) /\ UNCHANGED <<origin, group>>
      /\ command.pc = "rename" /\ command' \in {Idle("cordoned"), Idle("failed")}
      /\ ~IsCordoned(labels)
  BY DEF Rename, Goes, CordonInv, FoundIsThere
<1>2. WellMade(labels) /\ WellMade(origin.labels) /\ group \in Groups
      /\ origin \in [labels : SUBSET Label, group : Groups]
  BY DEF CordonInv, CordonTypeOK
<1>3. WellMade(labels)' /\ WellMade(origin.labels)'
  BY <1>1, <1>2, RenamingKeeps
<1>4. LooksAsItIs'
  <2>1. IsCordoned(labels)'
    BY <1>1 DEF IsCordoned, BuildCordonLabels
  <2>2. SUFFICES ASSUME AllPlain' PROVE WouldRestore'
    BY <2>1 DEF LooksAsItIs
  <2>3. AllPlain
    BY <1>1, <2>2 DEF AllPlain
  <2>4. labels = origin.labels /\ group = origin.group
    BY <1>1, <2>3 DEF CordonInv, LooksAsItIs
  <2>5. RestoredLabels(labels)' = origin.labels /\ RestoredGroups(labels)' = {None}
    BY <1>1, <1>2, <2>3, <2>4, RenameIsUndone DEF AllPlain
  <2> QED BY <1>1, <2>4, <2>5 DEF WouldRestore, GroupAfter
<1> QED BY <1>1, <1>2, <1>3, <1>4, Ended

(* The steps of Uncordon.                                                  *)
LEMMA FindDefaultKeeps ==
    ASSUME CordonInv, FindDefault
    PROVE  CordonInv'
<1>1. /\ UNCHANGED <<labels, group, origin>> /\ command.pc = "default"
      /\ command' = [command EXCEPT !.pc = "return", !.to = Default]
  BY DEF FindDefault
<1>2. LooksAsItIs' /\ WellMade(labels)' /\ WellMade(origin.labels)'
  BY <1>1 DEF CordonInv, CordonTypeOK, LooksAsItIs, AllPlain, WouldRestore, GroupAfter
<1>3. command \in [pc : {"default", "return", "relabel"}, found : SUBSET Label,
                   to : Groups \union {Unknown, None}]
  BY <1>1 DEF CordonInv, CordonTypeOK, CommandType
<1>4. /\ command'.pc = "return" /\ command'.found = command.found /\ command'.to = Default
      /\ command' \in CommandType /\ Default \in Groups
  BY <1>1, <1>3, CordonAssumption DEF CommandType
<1>5. /\ command.found = labels /\ IsCordoned(labels) /\ None \notin RestoredGroups(labels)
      /\ AllPlain => origin.group = Default
  BY <1>1 DEF CordonInv, FoundIsThere, GroupIsOnRecord, GoesBack
<1>6. GoesBack'
  BY <1>1, <1>4, <1>5 DEF GoesBack, AllPlain
<1> QED BY <1>1, <1>2, <1>4, <1>5, <1>6
        DEF CordonInv, CordonTypeOK, FoundIsThere, GroupIsOnRecord

LEMMA ReturnKeeps ==
    ASSUME CordonInv, Return
    PROVE  CordonInv'
<1>1. UNCHANGED <<labels, origin>> /\ command.pc = "return" /\ group' = command.to
  BY DEF Return
<1>2. /\ command.found = labels /\ IsCordoned(labels) /\ None \notin RestoredGroups(labels)
      /\ command.to \in Groups /\ (AllPlain => origin.group = command.to)
  BY <1>1 DEF CordonInv, FoundIsThere, GroupIsOnRecord, GoesBack
<1>3. LooksAsItIs'
  BY <1>1, <1>2 DEF CordonInv, LooksAsItIs, AllPlain, WouldRestore, GroupAfter
<1>4. WellMade(labels)' /\ WellMade(origin.labels)' /\ origin' \in [labels : SUBSET Label, group : Groups]
  BY <1>1 DEF CordonInv, CordonTypeOK
<1>5. CASE command' = Idle("failed")
  BY <1>1, <1>2, <1>3, <1>4, <1>5, Ended
<1>6. CASE command' = [command EXCEPT !.pc = "relabel"]
  <2>1. command \in [pc : {"default", "return", "relabel"}, found : SUBSET Label,
                     to : Groups \union {Unknown, None}]
    BY <1>1 DEF CordonInv, CordonTypeOK, CommandType
  <2>2. command'.pc = "relabel" /\ command'.found = command.found /\ command' \in CommandType
    BY <1>6, <2>1 DEF CommandType
  <2>3. GoesBack'
    BY <1>1, <1>2, <2>2 DEF GoesBack, AllPlain
  <2> QED BY <1>1, <1>2, <1>3, <1>4, <2>2, <2>3
          DEF CordonInv, CordonTypeOK, FoundIsThere, GroupIsOnRecord
<1> QED BY <1>5, <1>6 DEF Return, Goes

LEMMA RelabelKeeps ==
    ASSUME CordonInv, Relabel
    PROVE  CordonInv'
<1>1. /\ labels' = RestoredLabels(labels) /\ UNCHANGED <<group, origin>>
      /\ command.pc = "relabel" /\ command' \in {Idle("uncordoned"), Idle("failed")}
      /\ IsCordoned(labels)
  BY DEF Relabel, Goes, CordonInv, FoundIsThere
<1>2. WellMade(labels) /\ WellMade(origin.labels) /\ group \in Groups
      /\ origin \in [labels : SUBSET Label, group : Groups]
  BY DEF CordonInv, CordonTypeOK
<1>3. WellMade(labels)' /\ WellMade(origin.labels)'
  BY <1>1, <1>2, RestoringKeeps
<1>4. LooksAsItIs'
  <2>1. SUFFICES ASSUME AllPlain
                 PROVE  labels' = origin.labels /\ group = origin.group /\ ~IsCordoned(origin.labels)
    BY <1>1 DEF LooksAsItIs, AllPlain
  <2>2. RestoredLabels(labels) = origin.labels
    BY <1>1, <2>1 DEF CordonInv, LooksAsItIs, WouldRestore
  <2>3. origin.group = group
    BY <1>1, <2>1 DEF CordonInv, GoesBack
  <2> QED BY <1>1, <2>1, <2>2, <2>3 DEF AllPlain, Plain, IsCordoned
<1> QED BY <1>1, <1>2, <1>3, <1>4, Ended

LEMMA CordonStep == CordonInv /\ [CordonNext]_cordonVars => CordonInv'
<1> SUFFICES ASSUME CordonInv, [CordonNext]_cordonVars PROVE CordonInv'
  OBVIOUS
<1>1. CASE CommandFails
  <2>1. command' = Idle("failed") /\ UNCHANGED <<labels, group, origin>>
    BY <1>1 DEF CommandFails
  <2> QED BY <2>1, Ended DEF CordonInv, CordonTypeOK, LooksAsItIs, AllPlain, WouldRestore, GroupAfter
<1>2. CASE UNCHANGED cordonVars
  BY <1>2 DEF cordonVars, CordonInv, CordonTypeOK, LooksAsItIs, AllPlain, WouldRestore, GroupAfter,
              FoundIsThere, GroupIsOnRecord, GoesBack
<1> QED BY <1>1, <1>2, CordonKeeps, UncordonKeeps, FindGroupKeeps, LocateKeeps, MarkKeeps, MoveKeeps,
           RenameKeeps, FindDefaultKeeps, ReturnKeeps, RelabelKeeps DEF CordonNext

(* The invariant: what is on record, and what the command at work knows.   *)
THEOREM CordonInvariant == CordonSpec => []CordonInv
<1> QED BY CordonStart, CordonStep, PTL DEF CordonSpec

(* Whatever call fails and however often commands are repeated, a runner   *)
(* that looks cordoned can be put back where it was, and one that does not *)
(* is there (runner.go:155, uncordon.go:64): for all labels that are not   *)
(* mistaken for the record itself.                                         *)
THEOREM RunnersComeBack == CordonSpec => []NoRunnerIsLost
<1>1. CordonInv => NoRunnerIsLost
  BY DEF CordonInv, LooksAsItIs, NoRunnerIsLost
<1> QED BY <1>1, CordonInvariant, PTL

---------------------------------------------------------------------------
(* The listing of runs.                                                    *)

(* Multiples.                                                               *)
LEMMA Ordered ==
    ASSUME NEW S \in Nat \ {0}, NEW j \in Int, NEW k \in Int
    PROVE  /\ j < k => j * S + S <= k * S
           /\ j * S < k * S => j < k
           /\ j * S = k * S => j = k
<1>1. j < k => j * S + S <= k * S
  OBVIOUS
<1>2. j * S < k * S => j < k
  OBVIOUS
<1>3. j * S = k * S => j = k
  OBVIOUS
<1> QED BY <1>1, <1>2, <1>3

LEMMA Quotient ==
    ASSUME NEW S \in Nat \ {0}, NEW t \in Int
    PROVE  \E q \in Int : q = t \div S /\ q * S <= t /\ t < q * S + S
<1>1. PICK q \in Int : q = t \div S
  OBVIOUS
<1>2. q * S <= t /\ t < (q + 1) * S
  BY <1>1
<1>3. (q + 1) * S = q * S + S
  OBVIOUS
<1> QED BY <1>1, <1>2, <1>3

LEMMA Remainder ==
    ASSUME NEW S \in Nat \ {0}, NEW t \in Int
    PROVE  t % S = 0 <=> \E k \in Int : t = k * S
<1>1. ASSUME t % S = 0 PROVE \E k \in Int : t = k * S
  BY <1>1
<1>2. ASSUME NEW k \in Int, t = k * S PROVE t % S = 0
  <2>1. (k * S) % S = 0
    OBVIOUS
  <2> QED BY <1>2, <2>1
<1> QED BY <1>1, <1>2

LEMMA Divided ==
    ASSUME NEW S \in Nat \ {0}, NEW t \in Int, NEW q \in Int, q * S <= t, t < q * S + S
    PROVE  t \div S = q
<1>1. PICK p \in Int : p = t \div S /\ p * S <= t /\ t < p * S + S
  BY Quotient
<1>2. p * S < q * S + S /\ q * S < p * S + S /\ q * S \in Int /\ p * S \in Int
  BY <1>1
<1>3. ~(p < q)
  <2> SUFFICES ASSUME p < q PROVE FALSE
    OBVIOUS
  <2>1. p * S + S <= q * S
    BY Ordered
  <2> QED BY <1>2, <2>1
<1>4. ~(q < p)
  <2> SUFFICES ASSUME q < p PROVE FALSE
    OBVIOUS
  <2>1. q * S + S <= p * S
    BY Ordered
  <2> QED BY <1>2, <2>1
<1> QED BY <1>1, <1>3, <1>4

---------------------------------------------------------------------------
(* A rank has no number that is not over some least one.                    *)
LEMMA LeastRank ==
    ASSUME NEW T, T # {}, NEW rank \in [T -> Nat]
    PROVE  \E x \in T : \A y \in T : rank[x] <= rank[y]
<1> DEFINE R == {rank[x] : x \in T}
<1>1. R \in SUBSET Nat /\ R # {}
  OBVIOUS
<1>2. PICK m \in R : \A k \in R : ~ (<<k, m>> \in OpToRel(<, Nat))
  <2> HIDE DEF R
  <2> QED BY <1>1, NatLessThanWellFounded, WFMin, Zenon
<1>3. ASSUME NEW k \in R PROVE m <= k
  <2> SUFFICES ASSUME k < m PROVE FALSE
    BY <1>1
  <2>1. k \in Nat /\ m \in Nat
    BY <1>1
  <2>2. <<k, m>> \in OpToRel(<, Nat)
    BY <2>1, Zenon DEF OpToRel
  <2> QED BY <1>2, <2>2, Zenon
<1> QED BY <1>3

(* What holds of 0, and of the next number after each, holds of all.        *)
LEMMA Counting ==
    ASSUME NEW P, 0 \in P, \A n \in Nat : n \in P => n + 1 \in P
    PROVE  \A n \in Nat : n \in P
<1> SUFFICES ASSUME NEW k \in Nat, k \notin P PROVE FALSE
  OBVIOUS
<1> DEFINE T == {n \in Nat : n \notin P}
<1>1. PICK m \in T : \A n \in T : m <= n
  <2>1. [n \in T |-> n] \in [T -> Nat] /\ T # {}
    OBVIOUS
  <2>2. PICK rank \in [T -> Nat] : rank = [n \in T |-> n]
    BY <2>1
  <2>3. \E x \in T : \A y \in T : rank[x] <= rank[y]
    <3> HIDE DEF T
    <3> QED BY <2>1, LeastRank
  <2> QED BY <2>2, <2>3
<1>2. m - 1 \in Nat /\ m - 1 \in P /\ (m - 1) + 1 = m
  BY <1>1
<1> QED BY <1>2

(* A recursion that only calls itself for less has a solution: iterating it *)
(* settles one more rank at each round.                                     *)
Grounded(D, V, N, rank, G) ==
    /\ N \in Nat /\ rank \in [D -> 0 .. N] /\ V # {} /\ G \in [[D -> V] -> [D -> V]]
    /\ \A f, g \in [D -> V] : \A x \in D :
         (\A y \in D : rank[y] < rank[x] => f[y] = g[y]) => G[f][x] = G[g][x]

LEMMA RecursionIsDefined ==
    ASSUME NEW D, NEW V, NEW N, NEW rank, NEW G, Grounded(D, V, N, rank, G)
    PROVE  \E f \in [D -> V] : f = G[f]
<1> N \in Nat /\ rank \in [D -> 0 .. N] /\ V # {} /\ G \in [[D -> V] -> [D -> V]]
  BY DEF Grounded
<1> DEFINE Agrees(f, n) == \A x \in D : rank[x] < n => f[x] = G[f][x]
           P == {n \in Nat : \E f \in [D -> V] : Agrees(f, n)}
<1>1. 0 \in P
  <2>1. PICK v : v \in V
    OBVIOUS
  <2>2. [x \in D |-> v] \in [D -> V]
    BY <2>1
  <2>3. \A x \in D : ~(rank[x] < 0)
    OBVIOUS
  <2> QED BY <2>2, <2>3
<1>2. ASSUME NEW n \in Nat, n \in P PROVE n + 1 \in P
  <2>1. PICK f \in [D -> V] : Agrees(f, n)
    BY <1>2
  <2>2. PICK g \in [D -> V] : g = G[f]
    OBVIOUS
  <2>3. ASSUME NEW x \in D, rank[x] < n + 1 PROVE g[x] = G[g][x]
    <3>1. ASSUME NEW y \in D, rank[y] < rank[x] PROVE f[y] = g[y]
      <4>1. rank[y] < n
        <5>1. rank[y] \in 0 .. N /\ rank[x] \in 0 .. N
          OBVIOUS
        <5> QED BY <2>3, <3>1, <5>1
      <4> QED BY <2>1, <2>2, <4>1
    <3>2. G[f][x] = G[g][x]
      BY <3>1 DEF Grounded
    <3> QED BY <2>2, <3>2
  <2>4. Agrees(g, n + 1)
    BY <2>3
  <2> QED BY <2>4
<1>3. \A n \in Nat : n \in P
  <2> HIDE DEF P
  <2> QED BY <1>1, <1>2, Counting
<1>4. PICK f \in [D -> V] : Agrees(f, N + 1)
  <2>1. N + 1 \in P
    BY <1>3
  <2> QED BY <2>1
<1>5. \A x \in D : f[x] = G[f][x]
  <2>1. \A x \in D : rank[x] < N + 1
    <3> TAKE x \in D
    <3>1. rank[x] \in 0 .. N
      OBVIOUS
    <3> QED BY <3>1
  <2> QED BY <1>4, <2>1
<1>6. G[f] \in [D -> V]
  OBVIOUS
<1>7. f = G[f]
  BY <1>5, <1>6
<1> QED BY <1>7

(* And it has only one.                                                     *)
LEMMA RecursionIsUnique ==
    ASSUME NEW D, NEW f, NEW g, f = [x \in D |-> f[x]], g = [x \in D |-> g[x]],
           NEW rank \in [D -> Nat],
           \A x \in D : (\A y \in D : rank[y] < rank[x] => f[y] = g[y]) => f[x] = g[x]
    PROVE  f = g
<1> DEFINE P == {n \in Nat : \A x \in D : rank[x] < n => f[x] = g[x]}
<1>1. 0 \in P
  OBVIOUS
<1>2. ASSUME NEW n \in Nat, n \in P PROVE n + 1 \in P
  <2>1. ASSUME NEW x \in D, rank[x] < n + 1 PROVE f[x] = g[x]
    <3>1. \A y \in D : rank[y] < rank[x] => rank[y] < n
      BY <2>1
    <3>2. \A y \in D : rank[y] < rank[x] => f[y] = g[y]
      BY <1>2, <3>1
    <3> QED BY <3>2
  <2> QED BY <2>1
<1>3. \A n \in Nat : n \in P
  <2> HIDE DEF P
  <2> QED BY <1>1, <1>2, Counting
<1>4. ASSUME NEW x \in D PROVE f[x] = g[x]
  <2>1. rank[x] + 1 \in P /\ rank[x] < rank[x] + 1
    BY <1>3
  <2> QED BY <2>1
<1>5. [x \in D |-> f[x]] = [x \in D |-> g[x]]
  BY <1>4
<1> QED BY <1>5

---------------------------------------------------------------------------
(* The newest of a set.                                                     *)
Ahead(S, r) == {s \in S : Newer(s, r)}
Before(A, B) == \A a \in A, b \in B : Newer(a, b)

LEMMA Orders ==
    ASSUME NEW a \in Runs, NEW b \in Runs, NEW c \in Runs
    PROVE  /\ ~Newer(a, a)
           /\ Newer(a, b) => ~Newer(b, a)
           /\ Newer(a, b) /\ Newer(b, c) => Newer(a, c)
<1>1. \A r \in Runs : r.at \in Int /\ r.id \in Int
  <2>1. \A t \in Seconds : t \in Int
    BY ListingAssumption DEF Seconds
  <2> QED BY <2>1 DEF Runs
<1>2. PICK x1 \in Int, y1 \in Int : x1 = a.at /\ y1 = a.id
  BY <1>1
<1>3. PICK x2 \in Int, y2 \in Int : x2 = b.at /\ y2 = b.id
  BY <1>1
<1>4. PICK x3 \in Int, y3 \in Int : x3 = c.at /\ y3 = c.id
  BY <1>1
<1> QED BY <1>2, <1>3, <1>4 DEF Newer

LEMMA Fewer ==
    ASSUME NEW T, IsFiniteSet(T), NEW S, S \subseteq T
    PROVE  /\ IsFiniteSet(S) /\ Cardinality(S) \in Nat /\ Cardinality(T) \in Nat
           /\ Cardinality(S) <= Cardinality(T)
           /\ S # T => Cardinality(S) < Cardinality(T)
<1>1. IsFiniteSet(S) /\ Cardinality(S) <= Cardinality(T) /\ (Cardinality(S) = Cardinality(T) => S = T)
  BY FS_Subset
<1>2. Cardinality(S) \in Nat /\ Cardinality(T) \in Nat
  BY <1>1, FS_CardinalityType
<1> QED BY <1>1, <1>2

LEMMA AheadGrows ==
    ASSUME NEW S, S \subseteq Runs, IsFiniteSet(S), NEW s \in S, NEW r \in S, Newer(s, r)
    PROVE  /\ Ahead(S, s) \subseteq Ahead(S, r)
           /\ Cardinality(Ahead(S, s)) < Cardinality(Ahead(S, r))
<1>1. Ahead(S, s) \subseteq Ahead(S, r) /\ s \in Ahead(S, r) /\ s \notin Ahead(S, s)
  BY Orders DEF Ahead
<1>2. IsFiniteSet(Ahead(S, r))
  <2>1. Ahead(S, r) \subseteq S
    BY DEF Ahead
  <2> QED BY <2>1, Fewer
<1> QED BY <1>1, <1>2, Fewer

LEMMA NewestIsPart ==
    ASSUME NEW S, NEW n \in Nat
    PROVE  Newest(S, n) \subseteq S /\ Newest(S, 0) = S
BY DEF Newest

LEMMA NewestOfFew ==
    ASSUME NEW S, IsFiniteSet(S), NEW n \in Nat, n # 0 => Cardinality(S) < n
    PROVE  Newest(S, n) = S
<1>1. ASSUME n # 0, NEW r \in S PROVE Cardinality({s \in S : Newer(s, r)}) < n
  <2>1. {s \in S : Newer(s, r)} \subseteq S
    OBVIOUS
  <2>2. PICK T : T = {s \in S : Newer(s, r)}
    OBVIOUS
  <2>3. Cardinality(T) <= Cardinality(S) /\ Cardinality(T) \in Nat /\ Cardinality(S) \in Nat
    BY <2>1, <2>2, Fewer
  <2> QED BY <1>1, <2>2, <2>3
<1> QED BY <1>1 DEF Newest

(* What is newer than one of the newest is one of them.                     *)
LEMMA NewestIsClosed ==
    ASSUME NEW S, S \subseteq Runs, IsFiniteSet(S), NEW n \in Nat, NEW r \in Newest(S, n),
           NEW q \in S, Newer(q, r)
    PROVE  q \in Newest(S, n)
<1>1. CASE n = 0
  BY <1>1 DEF Newest
<1>2. CASE n # 0
  <2>1. r \in S /\ Cardinality(Ahead(S, r)) < n
    BY <1>2 DEF Newest, Ahead
  <2>2. Cardinality(Ahead(S, q)) < Cardinality(Ahead(S, r))
    BY <2>1, AheadGrows
  <2>3. Cardinality(Ahead(S, q)) \in Nat /\ Cardinality(Ahead(S, r)) \in Nat
    <3>1. Ahead(S, q) \subseteq S /\ Ahead(S, r) \subseteq S
      BY DEF Ahead
    <3> QED BY <3>1, Fewer
  <2>4. Cardinality(Ahead(S, q)) < n
    BY <2>1, <2>2, <2>3
  <2> QED BY <1>2, <2>4 DEF Newest, Ahead
<1> QED BY <1>1, <1>2

(* If fewer are found than were asked for, there are no more.               *)
LEMMA NewestIsAll ==
    ASSUME NEW S, S \subseteq Runs, IsFiniteSet(S), NEW n \in Nat, n # 0 => Cardinality(Newest(S, n)) < n
    PROVE  Newest(S, n) = S
<1> SUFFICES ASSUME n # 0, Newest(S, n) # S PROVE FALSE
  BY NewestIsPart
<1> DEFINE T == S \ Newest(S, n)
<1>1. T # {} /\ T \subseteq S
  BY NewestIsPart
<1>2. \A r \in S : Cardinality(Ahead(S, r)) \in Nat /\ IsFiniteSet(Ahead(S, r))
  <2>1. \A r \in S : Ahead(S, r) \subseteq S
    BY DEF Ahead
  <2> QED BY <2>1, Fewer
<1>3. PICK r \in T : \A s \in T : Cardinality(Ahead(S, r)) <= Cardinality(Ahead(S, s))
  <2>1. PICK rank : rank = [s \in T |-> Cardinality(Ahead(S, s))]
    OBVIOUS
  <2>2. rank \in [T -> Nat] /\ \A s \in T : rank[s] = Cardinality(Ahead(S, s))
    BY <1>1, <1>2, <2>1
  <2>3. \E x \in T : \A y \in T : rank[x] <= rank[y]
    <3> HIDE DEF T
    <3> QED BY <1>1, <2>2, LeastRank
  <2> QED BY <2>2, <2>3
<1>4. Ahead(S, r) \subseteq Newest(S, n)
  <2> SUFFICES ASSUME NEW s \in S, Newer(s, r), s \notin Newest(S, n) PROVE FALSE
    BY DEF Ahead
  <2>1. Cardinality(Ahead(S, s)) < Cardinality(Ahead(S, r))
    BY <1>1, AheadGrows
  <2>2. Cardinality(Ahead(S, r)) <= Cardinality(Ahead(S, s))
    BY <1>3
  <2> QED BY <1>1, <1>2, <2>1, <2>2
<1>5. ~(Cardinality(Ahead(S, r)) < n)
  BY <1>1 DEF Newest, Ahead
<1>6. Cardinality(Ahead(S, r)) <= Cardinality(Newest(S, n)) /\ Cardinality(Newest(S, n)) \in Nat
  <2>1. IsFiniteSet(Newest(S, n))
    BY NewestIsPart, Fewer
  <2> QED BY <1>4, <2>1, Fewer
<1> QED BY <1>1, <1>2, <1>5, <1>6

LEMMA AheadOfBoth ==
    ASSUME NEW A, NEW B, A \subseteq Runs, B \subseteq Runs, IsFiniteSet(A), IsFiniteSet(B), Before(A, B)
    PROVE  /\ IsFiniteSet(A \union B)
           /\ \A a \in A : Ahead(A \union B, a) = Ahead(A, a)
           /\ \A b \in B : /\ Cardinality(Ahead(A \union B, b)) = Cardinality(A) + Cardinality(Ahead(B, b))
                           /\ Cardinality(Ahead(B, b)) \in Nat
           /\ Cardinality(A) \in Nat
           /\ Cardinality(A \union B) = Cardinality(A) + Cardinality(B)
<1>1. A \intersect B = {}
  BY Orders DEF Before
<1>2. IsFiniteSet(A \union B) /\ Cardinality(A \union B) = Cardinality(A) + Cardinality(B)
  <2>1. Cardinality(A \union B) = Cardinality(A) + Cardinality(B) - Cardinality(A \intersect B)
    BY FS_Union
  <2>2. Cardinality(A \intersect B) = 0
    BY <1>1, FS_EmptySet
  <2>3. IsFiniteSet(A \union B)
    BY FS_Union
  <2>4. Cardinality(A) \in Nat /\ Cardinality(B) \in Nat
    BY FS_CardinalityType
  <2> QED BY <2>1, <2>2, <2>3, <2>4
<1>3. \A a \in A : Ahead(A \union B, a) = Ahead(A, a)
  BY Orders DEF Before, Ahead
<1>4. ASSUME NEW b \in B
      PROVE  /\ Cardinality(Ahead(A \union B, b)) = Cardinality(A) + Cardinality(Ahead(B, b))
             /\ Cardinality(Ahead(B, b)) \in Nat
  <2>1. Ahead(A \union B, b) = A \union Ahead(B, b) /\ Ahead(B, b) \subseteq B
    BY DEF Before, Ahead
  <2>2. PICK C : C = Ahead(B, b)
    OBVIOUS
  <2>3. IsFiniteSet(C) /\ Cardinality(C) \in Nat
    BY <2>1, <2>2, Fewer
  <2>4. A \intersect C = {}
    BY <1>1, <2>1, <2>2
  <2>5. Cardinality(A \union C) = Cardinality(A) + Cardinality(C) - Cardinality(A \intersect C)
    BY <2>3, FS_Union
  <2>6. Cardinality(A \intersect C) = 0
    BY <2>4, FS_EmptySet
  <2>7. Cardinality(A) \in Nat
    BY FS_CardinalityType
  <2>8. Ahead(A \union B, b) = A \union C
    BY <2>1, <2>2
  <2>9. Cardinality(A \union C) = Cardinality(A) + Cardinality(C)
    BY <2>3, <2>5, <2>6, <2>7
  <2> QED BY <2>2, <2>3, <2>8, <2>9
<1>5. Cardinality(A) \in Nat
  BY FS_CardinalityType
<1> QED BY <1>2, <1>3, <1>4, <1>5

(* The newer half may already have all that is asked for.                   *)
LEMMA NewestOfNewer ==
    ASSUME NEW A, NEW B, A \subseteq Runs, B \subseteq Runs, IsFiniteSet(A), IsFiniteSet(B), Before(A, B),
           NEW n \in Nat, n # 0, n <= Cardinality(A)
    PROVE  Newest(A \union B, n) = Newest(A, n)
<1>1. /\ \A a \in A : Ahead(A \union B, a) = Ahead(A, a)
      /\ \A b \in B : ~(Cardinality(Ahead(A \union B, b)) < n)
  <2>1. /\ Cardinality(A) \in Nat
        /\ \A a \in A : Ahead(A \union B, a) = Ahead(A, a)
        /\ \A b \in B : /\ Cardinality(Ahead(A \union B, b)) = Cardinality(A) + Cardinality(Ahead(B, b))
                        /\ Cardinality(Ahead(B, b)) \in Nat
    BY AheadOfBoth, Zenon
  <2>2. ASSUME NEW b \in B PROVE ~(Cardinality(Ahead(A \union B, b)) < n)
    <3>1. PICK c \in Nat : c = Cardinality(Ahead(B, b)) /\ Cardinality(Ahead(A \union B, b)) = Cardinality(A) + c
      BY <2>1
    <3> QED BY <2>1, <3>1
  <2> QED BY <2>1, <2>2
<1> QED BY <1>1, Orders DEF Newest, Ahead, Before

(* Or else what is left of the number is asked of the older half.           *)
LEMMA NewestOfHalves ==
    ASSUME NEW A, NEW B, A \subseteq Runs, B \subseteq Runs, IsFiniteSet(A), IsFiniteSet(B), Before(A, B),
           NEW n \in Nat, Cardinality(A) < n
    PROVE  Newest(A \union B, n) = A \union Newest(B, n - Cardinality(A))
<1>1. /\ n # 0 /\ n - Cardinality(A) \in Nat /\ n - Cardinality(A) # 0 /\ Cardinality(A) \in Nat
      /\ \A b \in B : Cardinality(Ahead(A \union B, b)) < n <=> Cardinality(Ahead(B, b)) < n - Cardinality(A)
  <2>1. Cardinality(A) \in Nat
    BY FS_CardinalityType
  <2>2. \A b \in B : /\ Cardinality(Ahead(A \union B, b)) = Cardinality(A) + Cardinality(Ahead(B, b))
                     /\ Cardinality(Ahead(B, b)) \in Nat
    BY AheadOfBoth, Zenon
  <2>3. ASSUME NEW b \in B
        PROVE  Cardinality(Ahead(A \union B, b)) < n <=> Cardinality(Ahead(B, b)) < n - Cardinality(A)
    <3>1. PICK c \in Nat : c = Cardinality(Ahead(B, b)) /\ Cardinality(Ahead(A \union B, b)) = Cardinality(A) + c
      BY <2>2
    <3> QED BY <2>1, <3>1
  <2>4. n # 0 /\ n - Cardinality(A) \in Nat /\ n - Cardinality(A) # 0
    BY <2>1
  <2> QED BY <2>1, <2>3, <2>4
<1>2. ASSUME NEW a \in A PROVE Cardinality(Ahead(A \union B, a)) < n
  <2>1. Ahead(A \union B, a) = Ahead(A, a) /\ Ahead(A, a) \subseteq A
    <3>1. Ahead(A \union B, a) = Ahead(A, a)
      BY AheadOfBoth, Zenon
    <3> QED BY <3>1 DEF Ahead
  <2>2. Cardinality(Ahead(A, a)) <= Cardinality(A) /\ Cardinality(Ahead(A, a)) \in Nat
    BY <2>1, Fewer
  <2> QED BY <1>1, <2>1, <2>2
<1>3. PICK m \in Nat : m = n - Cardinality(A) /\ m # 0
  BY <1>1
<1>4. \A r : r \in Newest(A \union B, n) <=> r \in A \union B /\ Cardinality(Ahead(A \union B, r)) < n
  BY <1>1 DEF Newest, Ahead
<1>5. \A r : r \in Newest(B, m) <=> r \in B /\ Cardinality(Ahead(B, r)) < m
  BY <1>3 DEF Newest, Ahead
<1>6. \A r : r \in Newest(A \union B, n) <=> r \in A \union Newest(B, m)
  BY <1>1, <1>2, <1>3, <1>4, <1>5
<1>7. Newest(A \union B, n) = A \union Newest(B, m)
  BY <1>6
<1> QED BY <1>3, <1>7

LEMMA NewestAgain ==
    ASSUME NEW S, IsFiniteSet(S), NEW n \in Nat
    PROVE  Newest(Newest(S, n), n) = Newest(S, n)
<1>1. CASE n = 0
  BY <1>1 DEF Newest
<1>2. CASE n # 0
  <2>1. PICK X : X = Newest(S, n)
    OBVIOUS
  <2>2. ASSUME NEW r \in X PROVE Cardinality(Ahead(X, r)) < n
    <3>1. r \in S /\ Cardinality(Ahead(S, r)) < n
      BY <1>2, <2>1 DEF Newest, Ahead
    <3>2. Ahead(X, r) \subseteq Ahead(S, r) /\ Ahead(S, r) \subseteq S
      BY <2>1, NewestIsPart DEF Ahead
    <3>3. Cardinality(Ahead(X, r)) <= Cardinality(Ahead(S, r)) /\ Cardinality(Ahead(X, r)) \in Nat /\ Cardinality(Ahead(S, r)) \in Nat
      <4>1. IsFiniteSet(Ahead(S, r))
        BY <3>2, Fewer
      <4> QED BY <3>2, <4>1, Fewer
    <3> QED BY <3>1, <3>3
  <2>3. Newest(X, n) = X
    BY <1>2, <2>2 DEF Newest, Ahead
  <2> QED BY <2>1, <2>3
<1> QED BY <1>1, <1>2

(* Cutting the older half first changes nothing.                            *)
LEMMA NewestOfBoth ==
    ASSUME NEW A, NEW B, A \subseteq Runs, B \subseteq Runs, IsFiniteSet(A), IsFiniteSet(B), Before(A, B),
           NEW n \in Nat, Cardinality(A) < n
    PROVE  Newest(A \union Newest(B, n - Cardinality(A)), n) = Newest(A \union B, n)
<1>1. PICK m \in Nat : m = n - Cardinality(A)
  <2>1. Cardinality(A) \in Nat
    BY FS_CardinalityType
  <2> QED BY <2>1
<1>2. PICK X : X = Newest(B, m)
  OBVIOUS
<1>3. X \subseteq B /\ IsFiniteSet(X) /\ Before(A, X) /\ X \subseteq Runs
  <2>1. X \subseteq B
    BY <1>2, NewestIsPart
  <2> QED BY <2>1, Fewer DEF Before
<1>4. Newest(A \union X, n) = A \union Newest(X, m)
  BY <1>1, <1>3, NewestOfHalves
<1>5. Newest(X, m) = X
  BY <1>2, NewestAgain
<1>6. Newest(A \union B, n) = A \union X
  BY <1>1, <1>2, NewestOfHalves
<1> QED BY <1>1, <1>2, <1>4, <1>5, <1>6

---------------------------------------------------------------------------
(* The calendar.                                                            *)
Whole(t) == \E k \in Int : t = k * Second

LEMMA LengthsAreNumbers ==
    /\ Second \in Nat \ {0} /\ DayLength \in Nat \ {0} /\ Days \in Nat \ {0} /\ SearchCap \in Nat \ {0}
    /\ Days * DayLength \in Nat /\ Cutoff \in Int
<1>1. Days * DayLength \in Nat
  <2>1. PICK m \in Nat, n \in Nat : m = Days /\ n = DayLength
    BY ListingAssumption
  <2> QED BY <2>1
<1> QED BY <1>1, ListingAssumption

LEMMA SecondsAreWhole == \A t : t \in Seconds <=> t \in 0 .. Days * DayLength - 1 /\ Whole(t)
<1>1. ASSUME NEW t \in 0 .. Days * DayLength - 1 PROVE t % Second = 0 <=> Whole(t)
  <2>1. t \in Int
    BY LengthsAreNumbers
  <2> QED BY <2>1, Remainder, LengthsAreNumbers DEF Whole
<1> QED BY <1>1 DEF Seconds

LEMMA TimesAreNumbers == \A r \in Runs : r.at \in Seconds /\ r.at \in Nat /\ r.id \in Int /\ Whole(r.at)
<1>1. \A t \in Seconds : t \in Nat /\ Whole(t)
  BY SecondsAreWhole, LengthsAreNumbers
<1> QED BY <1>1 DEF Runs

LEMMA SecondsApart ==
    ASSUME NEW s \in Int, NEW t \in Int, Whole(s), Whole(t), s < t
    PROVE  s + Second <= t /\ Whole(t - Second)
<1>1. PICK j \in Int, k \in Int : s = j * Second /\ t = k * Second
  BY DEF Whole
<1>2. j < k
  BY <1>1, Ordered, LengthsAreNumbers
<1>3. j * Second + Second <= k * Second
  BY <1>2, Ordered, LengthsAreNumbers
<1>4. k * Second - Second = (k - 1) * Second /\ k - 1 \in Int
  BY LengthsAreNumbers
<1>5. Whole(t - Second)
  BY <1>1, <1>4 DEF Whole
<1> QED BY <1>1, <1>3, <1>5

LEMMA MidnightsAreWhole == \A d \in Int : d * DayLength \in Int /\ Whole(d * DayLength)
<1> SUFFICES ASSUME NEW d \in Int PROVE d * DayLength \in Int /\ Whole(d * DayLength)
  OBVIOUS
<1>1. PICK h \in Int : DayLength = h * Second
  <2>1. DayLength % Second = 0 /\ DayLength \in Int
    BY ListingAssumption
  <2> QED BY <2>1, Remainder, LengthsAreNumbers
<1>2. d * (h * Second) = (d * h) * Second /\ d * h \in Int
  BY LengthsAreNumbers
<1>3. Whole(d * DayLength)
  BY <1>1, <1>2 DEF Whole
<1>4. d * DayLength \in Int
  BY LengthsAreNumbers
<1> QED BY <1>3, <1>4

LEMMA DaysOf ==
    ASSUME NEW t \in Int
    PROVE  /\ DayOf(t) \in Int
           /\ DayOf(t) * DayLength <= t /\ t < DayOf(t) * DayLength + DayLength
           /\ \A d \in Int : d * DayLength <= t /\ t < d * DayLength + DayLength => DayOf(t) = d
<1>1. \E q \in Int : q = t \div DayLength /\ q * DayLength <= t /\ t < q * DayLength + DayLength
  BY Quotient, LengthsAreNumbers
<1>2. \A d \in Int : d * DayLength <= t /\ t < d * DayLength + DayLength => t \div DayLength = d
  BY Divided, LengthsAreNumbers
<1> QED BY <1>1, <1>2 DEF DayOf

LEMMA DaysInOrder ==
    ASSUME NEW d \in Int, NEW e \in Int
    PROVE  /\ (d + 1) * DayLength = d * DayLength + DayLength
           /\ d < e => d * DayLength + DayLength <= e * DayLength
           /\ d <= e => d * DayLength <= e * DayLength
           /\ d * DayLength < e * DayLength => d < e
<1>1. (d + 1) * DayLength = d * DayLength + DayLength
  BY LengthsAreNumbers
<1>2. /\ d < e => d * DayLength + DayLength <= e * DayLength
      /\ d * DayLength < e * DayLength => d < e
  BY Ordered, LengthsAreNumbers
<1>3. d <= e => d * DayLength <= e * DayLength
  <2>1. CASE d = e
    BY <2>1, MidnightsAreWhole
  <2>2. CASE d # e
    <3>1. d * DayLength \in Int /\ e * DayLength \in Int
      BY MidnightsAreWhole
    <3> QED BY <2>2, <3>1, <1>2, LengthsAreNumbers
  <2> QED BY <2>1, <2>2
<1> QED BY <1>1, <1>2, <1>3

(* Where a range is split, both halves have a second of their own.          *)
LEMMA SplitIsInside ==
    ASSUME NEW start \in Seconds, NEW end \in Seconds, start < end, NEW cached,
           NEW mid, mid = SplitAt(start, end, cached)
    PROVE  /\ mid \in Seconds /\ mid - Second \in Seconds
           /\ start < mid /\ mid <= end /\ start <= mid - Second
<1>1. PICK a \in Int, b \in Int : start = a * Second /\ end = b * Second
  BY SecondsAreWhole DEF Whole
<1>2. start \in Int /\ end \in Int /\ 0 <= start /\ end <= Days * DayLength - 1
  BY SecondsAreWhole, LengthsAreNumbers
<1>3. a < b
  BY <1>1, Ordered, LengthsAreNumbers
<1>4. (end - start) \div Second = b - a
  <2>1. (b * Second - a * Second) \div Second = b - a
    BY LengthsAreNumbers
  <2> QED BY <1>1, <2>1
<1>5. PICK m \in Int : m = (b - a) \div 2 + 1 /\ 1 <= m /\ m <= b - a
  BY <1>3
<1>6. PICK middle : middle = start + (((end - start) \div Second) \div 2 + 1) * Second
  OBVIOUS
<1>7. middle = (a + m) * Second
  <2>1. a * Second + m * Second = (a + m) * Second
    BY LengthsAreNumbers
  <2> QED BY <1>1, <1>4, <1>5, <1>6, <2>1
<1>8. middle \in Int /\ Whole(middle) /\ start < middle /\ middle <= end
  <2>1. a < a + m /\ (a + m = b \/ a + m < b) /\ a + m \in Int
    BY <1>5
  <2>2. a * Second + Second <= (a + m) * Second
    BY <2>1, Ordered, LengthsAreNumbers
  <2>3. (a + m) * Second <= b * Second
    <3>1. a + m < b => (a + m) * Second + Second <= b * Second
      BY <2>1, Ordered, LengthsAreNumbers
    <3>2. (a + m) * Second \in Int /\ b * Second \in Int
      BY <2>1, LengthsAreNumbers
    <3> QED BY <2>1, <3>1, <3>2, LengthsAreNumbers
  <2>4. (a + m) * Second \in Int
    BY <2>1, LengthsAreNumbers
  <2>5. Whole(middle)
    BY <1>7, <2>1 DEF Whole
  <2> QED BY <1>1, <1>2, <1>7, <2>2, <2>3, <2>4, <2>5, LengthsAreNumbers
<1>9. PICK midnight \in Int : midnight = DayOf(middle) * DayLength /\ Whole(midnight)
  BY <1>8, DaysOf, MidnightsAreWhole
<1>10. Whole(midnight + DayLength) /\ midnight + DayLength \in Int
  <2>1. PICK d \in Int : d = DayOf(middle)
    BY <1>8, DaysOf
  <2>2. midnight + DayLength = (d + 1) * DayLength /\ d + 1 \in Int
    BY <1>9, <2>1, DaysInOrder
  <2> QED BY <1>9, <2>2, MidnightsAreWhole
<1>11. PICK day \in Int : Whole(day) /\ day = (IF midnight > start THEN midnight ELSE midnight + DayLength)
  BY <1>9, <1>10
<1>12. mid = IF cached /\ day > start /\ day <= end THEN day ELSE middle
  BY <1>6, <1>9, <1>11 DEF SplitAt
<1>13. mid \in Int /\ Whole(mid) /\ start < mid /\ mid <= end
  BY <1>8, <1>11, <1>12
<1>14. start + Second <= mid /\ Whole(mid - Second)
  <2>1. Whole(start)
    BY SecondsAreWhole
  <2> QED BY <1>2, <1>13, <2>1, SecondsApart
<1>15. mid \in 0 .. Days * DayLength - 1 /\ mid - Second \in 0 .. Days * DayLength - 1 /\ start <= mid - Second
  BY <1>2, <1>13, <1>14, LengthsAreNumbers
<1> QED BY <1>13, <1>14, <1>15, SecondsAreWhole

LEMMA RunsAreFinite == IsFiniteSet(Runs) /\ \A S : S \subseteq Runs => IsFiniteSet(S) /\ Cardinality(S) \in Nat
<1>1. IsFiniteSet(Seconds)
  <2>1. IsFiniteSet(0 .. Days * DayLength - 1)
    BY LengthsAreNumbers, FS_Interval
  <2>2. Seconds \subseteq 0 .. Days * DayLength - 1
    BY DEF Seconds
  <2> QED BY <2>1, <2>2, FS_Subset
<1>2. IsFiniteSet(1 .. MaxRuns)
  <2>1. MaxRuns \in Int
    BY ListingAssumption
  <2> QED BY <2>1, FS_Interval
<1>3. IsFiniteSet(Seconds \X (1 .. MaxRuns))
  BY <1>1, <1>2, FS_Product
<1>4. PICK f : f = [p \in Seconds \X (1 .. MaxRuns) |-> [at |-> p[1], id |-> p[2]]]
  OBVIOUS
<1>5. f \in Surjection(Seconds \X (1 .. MaxRuns), Runs)
  <2>1. f \in [Seconds \X (1 .. MaxRuns) -> Runs]
    BY <1>4 DEF Runs
  <2>2. ASSUME NEW r \in Runs PROVE \E p \in Seconds \X (1 .. MaxRuns) : f[p] = r
    <3>1. <<r.at, r.id>> \in Seconds \X (1 .. MaxRuns) /\ r = [at |-> r.at, id |-> r.id]
      BY DEF Runs
    <3>2. f[<<r.at, r.id>>] = r
      BY <1>4, <3>1
    <3> QED BY <3>1, <3>2
  <2> QED BY <2>1, <2>2 DEF Surjection
<1>6. IsFiniteSet(Runs)
  BY <1>3, <1>5, FS_Surjection
<1> QED BY <1>6, FS_Subset, FS_CardinalityType

---------------------------------------------------------------------------
(* The files.                                                               *)
DayRuns(d) == {r \in runs : DayOf(r.at) = d}
Filed(cache) ==
    \A d \in Calendar : cache[d] # None => cache[d].rows = DayRuns(d) /\ (d + 1) * DayLength <= Cutoff
Repository == runs \subseteq Runs /\ IsFiniteSet(runs)
Span(window) == window.start \in Int /\ window.end \in Int

LEMMA GreaterOf == \A a, b \in Int : Max({a, b}) \in Int /\ Max({a, b}) >= a /\ Max({a, b}) >= b /\ Max({a, b}) \in {a, b}
<1> SUFFICES ASSUME NEW a \in Int, NEW b \in Int
             PROVE  Max({a, b}) \in Int /\ Max({a, b}) >= a /\ Max({a, b}) >= b /\ Max({a, b}) \in {a, b}
  OBVIOUS
<1>1. \E x \in {a, b} : \A y \in {a, b} : x >= y
  OBVIOUS
<1>2. Max({a, b}) \in {a, b} /\ \A y \in {a, b} : Max({a, b}) >= y
  BY <1>1 DEF Max
<1> QED BY <1>2

LEMMA LesserOf == \A a, b \in Int : Min({a, b}) \in Int /\ Min({a, b}) <= a /\ Min({a, b}) <= b /\ Min({a, b}) \in {a, b}
<1> SUFFICES ASSUME NEW a \in Int, NEW b \in Int
             PROVE  Min({a, b}) \in Int /\ Min({a, b}) <= a /\ Min({a, b}) <= b /\ Min({a, b}) \in {a, b}
  OBVIOUS
<1>1. \E x \in {a, b} : \A y \in {a, b} : x <= y
  OBVIOUS
<1>2. Min({a, b}) \in {a, b} /\ \A y \in {a, b} : Min({a, b}) <= y
  BY <1>1 DEF Min
<1> QED BY <1>2

LEMMA LeastOf ==
    ASSUME NEW S, S \subseteq Nat, S # {}
    PROVE  Min(S) \in S /\ \A x \in S : Min(S) <= x
<1>1. PICK rank \in [S -> Nat] : rank = [x \in S |-> x]
  <2>1. [x \in S |-> x] \in [S -> Nat]
    OBVIOUS
  <2> QED BY <2>1
<1>2. \E x \in S : \A y \in S : rank[x] <= rank[y]
  BY LeastRank
<1>3. \E x \in S : \A y \in S : x <= y
  BY <1>1, <1>2
<1> QED BY <1>3 DEF Min

LEMMA InsideIsPart ==
    ASSUME Repository, NEW window
    PROVE  Inside(runs, window) \subseteq runs /\ Inside(runs, window) \subseteq Runs /\ IsFiniteSet(Inside(runs, window))
<1>1. Inside(runs, window) \subseteq runs
  BY DEF Inside
<1> QED BY <1>1, Fewer DEF Repository

(* The day after the last one that a list knows in part.                    *)
LEMMA FirstDayKnown ==
    ASSUME Repository, NEW window, Span(window), NEW budget \in Nat,
           NEW rows, rows = Newest(Inside(runs, window), budget),
           NEW d \in Calendar, d >= SavedFrom(window, rows, budget), (d + 1) * DayLength <= window.end
    PROVE  DayRuns(d) \subseteq rows
<1>1. PICK first \in Int : first = (window.start + DayLength - 1) \div DayLength /\ window.start <= first * DayLength
  <2>1. window.start \in Int /\ window.start + DayLength - 1 \in Int
    BY LengthsAreNumbers DEF Span
  <2>2. PICK q \in Int : /\ q = (window.start + DayLength - 1) \div DayLength
                         /\ window.start + DayLength - 1 < q * DayLength + DayLength
    BY <2>1, Quotient, LengthsAreNumbers
  <2>3. q * DayLength \in Int
    BY MidnightsAreWhole
  <2> QED BY <2>1, <2>2, <2>3, LengthsAreNumbers
<1>2. rows \subseteq Inside(runs, window) /\ rows \subseteq runs /\ rows \subseteq Runs /\ IsFiniteSet(rows)
  <2>1. rows \subseteq Inside(runs, window)
    BY NewestIsPart
  <2> QED BY <2>1, InsideIsPart, Fewer
<1>3. Cardinality(rows) \in Nat
  BY <1>2, FS_CardinalityType
<1>4. d \in Int /\ d * DayLength \in Int
  <2>1. d \in Int
    BY LengthsAreNumbers DEF Calendar
  <2> QED BY <2>1, MidnightsAreWhole
<1>5. ASSUME first <= d, NEW r \in DayRuns(d) PROVE r \in Inside(runs, window) /\ r \in Runs /\ d * DayLength <= r.at
  <2>1. r \in runs /\ r \in Runs /\ r.at \in Int /\ DayOf(r.at) = d
    BY TimesAreNumbers DEF DayRuns, Repository
  <2>2. d * DayLength <= r.at /\ r.at < d * DayLength + DayLength
    BY <2>1, DaysOf
  <2>3. first * DayLength <= d * DayLength /\ first * DayLength \in Int /\ (d + 1) * DayLength = d * DayLength + DayLength
    BY <1>4, <1>5, DaysInOrder, MidnightsAreWhole
  <2>4. r.at >= window.start /\ r.at < window.end
    BY <1>1, <1>4, <2>1, <2>2, <2>3, LengthsAreNumbers DEF Span
  <2> QED BY <2>1, <2>2, <2>4 DEF Inside
<1>6. CASE ~(budget > 0 /\ Cardinality(rows) >= budget)
  <2>1. first <= d
    BY <1>1, <1>4, <1>6 DEF SavedFrom
  <2>2. rows = Inside(runs, window)
    BY <1>3, <1>6, InsideIsPart, NewestIsAll
  <2> QED BY <1>5, <2>1, <2>2
<1>7. CASE budget > 0 /\ Cardinality(rows) >= budget
  <2> DEFINE days == {DayOf(r.at) : r \in rows}
  <2>1. rows # {}
    <3>1. rows = {} => Cardinality(rows) = 0
      BY FS_EmptySet
    <3> QED BY <1>3, <1>7, <3>1
  <2>2. days \subseteq Nat /\ days # {}
    <3>1. ASSUME NEW r \in rows PROVE DayOf(r.at) \in Nat
      <4>1. r.at \in Nat
        BY <1>2, TimesAreNumbers
      <4>2. PICK q \in Int : q = DayOf(r.at) /\ r.at < q * DayLength + DayLength
        BY <4>1, DaysOf
      <4>3. ~(q < 0)
        <5> SUFFICES ASSUME q < 0 PROVE FALSE
          OBVIOUS
        <5>1. q * DayLength + DayLength <= 0 * DayLength /\ q * DayLength \in Int
          BY DaysInOrder, MidnightsAreWhole, SMTT(40)
        <5> QED BY <4>1, <4>2, <5>1, LengthsAreNumbers
      <4> QED BY <4>2, <4>3
    <3> QED BY <2>1, <3>1
  <2>3. PICK m \in Nat : m = Min(days) /\ m \in days
    <3> HIDE DEF days
    <3> QED BY <2>2, LeastOf
  <2>4. PICK q \in rows : m = DayOf(q.at)
    BY <2>3
  <2>5. d >= Max({first, m + 1})
    BY <1>1, <1>7, <2>3 DEF SavedFrom
  <2>6. first <= d /\ m < d
    <3>1. Max({first, m + 1}) \in Int /\ Max({first, m + 1}) >= first /\ Max({first, m + 1}) >= m + 1
      BY GreaterOf
    <3> QED BY <1>4, <2>5, <3>1
  <2>7. q \in Runs /\ q.at \in Int /\ q.at < d * DayLength
    <3>1. q \in Runs /\ q.at \in Int
      BY <1>2, TimesAreNumbers
    <3>2. q.at < m * DayLength + DayLength /\ m * DayLength + DayLength <= d * DayLength /\ m * DayLength \in Int
      BY <1>4, <2>4, <2>6, <3>1, DaysOf, DaysInOrder, MidnightsAreWhole
    <3> QED BY <1>4, <3>1, <3>2, LengthsAreNumbers
  <2>8. ASSUME NEW r \in DayRuns(d) PROVE r \in rows
    <3>1. r \in Inside(runs, window) /\ r \in Runs /\ r.at \in Int /\ d * DayLength <= r.at
      BY <1>5, <2>6, TimesAreNumbers
    <3>2. Newer(r, q)
      BY <1>4, <2>7, <3>1 DEF Newer
    <3> QED BY <3>1, <3>2, InsideIsPart, NewestIsClosed
  <2> QED BY <2>8
<1> QED BY <1>6, <1>7

(* Whatever is written, it is a file.                                       *)
LEMMA SavesAreFiles ==
    ASSUME NEW window, NEW budget, NEW rows \in SUBSET Runs, NEW started \in Nat, NEW env \in Envs,
           NEW x, x = SaveDays(window, rows, started, budget, env)
    PROVE  x \in Envs /\ x.cached = env.cached /\ x.now = env.now /\ x.requests = env.requests
<1> DEFINE days == {d \in Calendar :
                      /\ d >= SavedFrom(window, rows, budget)
                      /\ (d + 1) * DayLength <= window.end
                      /\ (d + 1) * DayLength <= Cutoff
                      /\ d \notin env.saved \union env.broken}
<1>1. PICK some \in SUBSET Calendar : some = days
  OBVIOUS
<1>2. PICK cache : cache = [d \in Calendar |-> IF d \in some THEN File(d, rows, started, env) ELSE env.cache[d]]
  OBVIOUS
<1>3. x = [env EXCEPT !.cache = cache, !.saved = env.saved \union some]
  <2>1. DOMAIN env.cache = Calendar
    BY DEF Envs
  <2>2. x = [env EXCEPT !.cache = [d \in DOMAIN env.cache |-> IF d \in days THEN File(d, rows, started, env) ELSE env.cache[d]],
                        !.saved = env.saved \union days]
    BY DEF SaveDays
  <2> HIDE DEF days
  <2> QED BY <1>1, <1>2, <2>1, <2>2
<1>4. ASSUME NEW d \in Calendar PROVE cache[d] \in DayFile \union {None}
  <2>1. CASE d \notin some
    BY <1>2, <2>1 DEF Envs
  <2>2. CASE d \in some
    BY <1>2, <2>2 DEF File, DayFile, Envs
  <2> QED BY <2>1, <2>2
<1>5. cache \in [Calendar -> DayFile \union {None}] /\ env.saved \union some \in SUBSET Calendar
  BY <1>2, <1>4 DEF Envs
<1> QED BY <1>3, <1>5 DEF Envs

(* What is written is complete.                                             *)
LEMMA SavesDays ==
    ASSUME Repository, NEW window, Span(window), NEW budget \in Nat,
           NEW rows, rows = Newest(Inside(runs, window), budget),
           NEW started \in Nat, NEW env \in Envs, Filed(env.cache),
           NEW x, x = SaveDays(window, rows, started, budget, env)
    PROVE  Filed(x.cache)
<1> DEFINE days == {d \in Calendar :
                      /\ d >= SavedFrom(window, rows, budget)
                      /\ (d + 1) * DayLength <= window.end
                      /\ (d + 1) * DayLength <= Cutoff
                      /\ d \notin env.saved \union env.broken}
<1>1. PICK some \in SUBSET Calendar : some = days
  OBVIOUS
<1>2. PICK cache : cache = [d \in Calendar |-> IF d \in some THEN File(d, rows, started, env) ELSE env.cache[d]]
  OBVIOUS
<1>3. x = [env EXCEPT !.cache = cache, !.saved = env.saved \union some]
  <2>1. DOMAIN env.cache = Calendar
    BY DEF Envs
  <2>2. x = [env EXCEPT !.cache = [d \in DOMAIN env.cache |-> IF d \in days THEN File(d, rows, started, env) ELSE env.cache[d]],
                        !.saved = env.saved \union days]
    BY DEF SaveDays
  <2> HIDE DEF days
  <2> QED BY <1>1, <1>2, <2>1, <2>2
<1>4. rows \subseteq runs /\ rows \subseteq Runs
  <2>1. rows \subseteq Inside(runs, window)
    BY NewestIsPart
  <2> QED BY <2>1, InsideIsPart
<1>5. ASSUME NEW d \in Calendar, cache[d] # None
      PROVE  cache[d].rows = DayRuns(d) /\ (d + 1) * DayLength <= Cutoff
  <2>1. CASE d \notin some
    BY <1>2, <1>5, <2>1 DEF Filed
  <2>2. CASE d \in some
    <3>1. d >= SavedFrom(window, rows, budget) /\ (d + 1) * DayLength <= window.end /\ (d + 1) * DayLength <= Cutoff
      BY <1>1, <2>2
    <3>2. cache[d] = File(d, rows, started, env)
      BY <1>2, <2>2
    <3>3. DayRuns(d) \subseteq rows
      BY <3>1, FirstDayKnown
    <3>4. cache[d].rows = DayRuns(d)
      BY <1>4, <3>2, <3>3 DEF File, DayRuns
    <3> QED BY <3>1, <3>4
  <2> QED BY <2>1, <2>2
<1>6. x.cache = cache
  BY <1>3 DEF Envs
<1>7. Filed(cache)
  BY <1>5 DEF Filed
<1> QED BY <1>6, <1>7

---------------------------------------------------------------------------
(* A search.                                                                *)
Results == [ok : BOOLEAN, rows : SUBSET Runs, complete : BOOLEAN, started : Nat, env : Envs]
Length(c) == IF c.start < c.end THEN c.end - c.start ELSE 0
Divides(c) == c.start < c.end /\ c.env.requests # 0
Exhausts(c, newer) == c.budget > 0 /\ Cardinality(newer.rows) >= c.budget

LEMMA Checkpoints ==
    ASSUME NEW start, NEW end, NEW window, NEW result \in Results,
           NEW x, x = Checkpoint(start, end, window, result)
    PROVE  /\ x \in Results /\ x.ok = result.ok /\ x.rows = result.rows /\ x.complete = result.complete
           /\ x.env.cached = result.env.cached
<1>1. CASE ~(result.env.cached /\ result.complete)
  <2>1. x = result
    BY <1>1 DEF Checkpoint
  <2> QED BY <2>1
<1>2. CASE result.env.cached /\ result.complete
  <2>1. PICK covered : covered = [start |-> Max({start, window.start}), end |-> Min({end + Second, window.end})]
    OBVIOUS
  <2>2. PICK env : env = SaveDays(covered, result.rows, result.started, 0, result.env)
    OBVIOUS
  <2>3. x = [result EXCEPT !.env = env]
    BY <1>2, <2>1, <2>2 DEF Checkpoint
  <2>4. env \in Envs /\ env.cached = result.env.cached
    BY <2>2, SavesAreFiles DEF Results
  <2> QED BY <2>3, <2>4 DEF Results
<1> QED BY <1>1, <1>2

LEMMA Asking ==
    ASSUME NEW env \in Envs, env.requests # 0
    PROVE  /\ Spent(env) \in Envs /\ Spent(env).cache = env.cache /\ Spent(env).cached = env.cached
<1>1. PICK now \in Nat, requests \in Nat : now = env.now + 1 /\ requests = env.requests - 1
  BY DEF Envs
<1>2. Spent(env) = [env EXCEPT !.now = now, !.requests = requests]
  BY <1>1 DEF Spent
<1> QED BY <1>2 DEF Envs

LEMMA FirstHalf ==
    ASSUME NEW c \in Searches, Divides(c)
    PROVE  /\ NewerHalf(c) \in Searches /\ Length(NewerHalf(c)) < Length(c)
           /\ NewerHalf(c) = [start |-> Middle(c), end |-> c.end, budget |-> c.budget, env |-> Spent(c.env)]
           /\ Middle(c) \in Seconds /\ Middle(c) <= c.end /\ c.start < Middle(c)
<1>1. c.start \in Seconds /\ c.end \in Seconds /\ c.start < c.end /\ c.start \in Int /\ c.end \in Int
  BY SecondsAreWhole, LengthsAreNumbers DEF Searches, Divides
<1>2. PICK mid \in Seconds : mid = Middle(c) /\ c.start < mid /\ mid <= c.end /\ mid \in Int
  <2>1. Middle(c) \in Seconds /\ c.start < Middle(c) /\ Middle(c) <= c.end
    BY <1>1, SplitIsInside DEF Middle
  <2> QED BY <2>1, SecondsAreWhole, LengthsAreNumbers
<1>3. PICK asked \in Envs : asked = Spent(c.env)
  BY Asking DEF Searches, Divides
<1>4. NewerHalf(c) = [start |-> mid, end |-> c.end, budget |-> c.budget, env |-> asked]
  <2>1. NewerHalf(c) = [c EXCEPT !.start = mid, !.env = asked]
    BY <1>2, <1>3 DEF NewerHalf
  <2>2. c = [start |-> c.start, end |-> c.end, budget |-> c.budget, env |-> c.env]
    BY DEF Searches
  <2> QED BY <2>1, <2>2
<1>5. NewerHalf(c) \in Searches
  BY <1>4 DEF Searches
<1>6. Length(NewerHalf(c)) < Length(c)
  BY <1>1, <1>2, <1>4 DEF Length
<1> QED BY <1>2, <1>3, <1>4, <1>5, <1>6

LEMMA SecondHalf ==
    ASSUME NEW c \in Searches, Divides(c), NEW newer \in Results, ~Exhausts(c, newer)
    PROVE  \E left \in Nat :
             /\ left = IF c.budget > 0 THEN c.budget - Cardinality(newer.rows) ELSE 0
             /\ c.budget > 0 => left > 0
             /\ OlderHalf(c, newer) = [start |-> c.start, end |-> Middle(c) - Second, budget |-> left, env |-> newer.env]
             /\ OlderHalf(c, newer) \in Searches /\ Length(OlderHalf(c, newer)) < Length(c)
             /\ Middle(c) - Second \in Seconds /\ c.start <= Middle(c) - Second
<1>1. c.start \in Seconds /\ c.end \in Seconds /\ c.start < c.end /\ c.start \in Int /\ c.end \in Int
  BY SecondsAreWhole, LengthsAreNumbers DEF Searches, Divides
<1>2. PICK until \in Seconds : until = Middle(c) - Second /\ c.start <= until /\ until < c.end /\ until \in Int
  <2>1. /\ Middle(c) \in Seconds /\ Middle(c) - Second \in Seconds
        /\ c.start <= Middle(c) - Second /\ Middle(c) <= c.end
    BY <1>1, SplitIsInside DEF Middle
  <2>2. Middle(c) \in Int /\ Middle(c) - Second \in Int
    BY <2>1, SecondsAreWhole, LengthsAreNumbers
  <2> QED BY <1>1, <2>1, <2>2, LengthsAreNumbers
<1>3. PICK left \in Nat : /\ left = IF c.budget > 0 THEN c.budget - Cardinality(newer.rows) ELSE 0
                          /\ c.budget > 0 => left > 0
  <2>1. Cardinality(newer.rows) \in Nat /\ c.budget \in Nat
    BY RunsAreFinite DEF Results, Searches
  <2> QED BY <2>1 DEF Exhausts
<1>4. OlderHalf(c, newer) = [start |-> c.start, end |-> until, budget |-> left, env |-> newer.env]
  <2>1. OlderHalf(c, newer) = [c EXCEPT !.end = until, !.env = newer.env, !.budget = left]
    BY <1>2, <1>3 DEF OlderHalf
  <2>2. c = [start |-> c.start, end |-> c.end, budget |-> c.budget, env |-> c.env]
    BY DEF Searches
  <2> QED BY <2>1, <2>2
<1>5. OlderHalf(c, newer) \in Searches
  BY <1>1, <1>2, <1>3, <1>4 DEF Searches, Results
<1>6. Length(OlderHalf(c, newer)) < Length(c)
  BY <1>1, <1>2, <1>4 DEF Length
<1> QED BY <1>2, <1>3, <1>4, <1>5, <1>6

(* What is asked is found, or the listing fails.                            *)
LEMMA FoundAreRuns ==
    ASSUME runs \subseteq Runs, NEW c \in Searches
    PROVE  /\ Found(c.start, c.end, c.budget) \subseteq Between(c.start, c.end)
           /\ Between(c.start, c.end) \subseteq Runs
BY NewestIsPart, ListingAssumption DEF Found, Between, Cap, Searches

LEMMA GivingUp ==
    ASSUME NEW env \in Envs
    PROVE  GivesUp(env) \in Results /\ ~GivesUp(env).ok /\ GivesUp(env).env = env
BY DEF GivesUp, Results, Envs

LEMMA Settling ==
    ASSUME NEW c \in Searches, NEW window, NEW env \in Envs, NEW found \in SUBSET Runs,
           NEW x, x = Settled(c, window, found, env)
    PROVE  /\ x \in Results /\ x.ok /\ x.rows = found
           /\ (x.complete <=> Cardinality(found) < Cap(c.budget)) /\ x.env.cached = env.cached
<1>1. PICK result : result = [ok |-> TRUE, rows |-> found, complete |-> Cardinality(found) < Cap(c.budget),
                              started |-> c.env.now, env |-> env]
  OBVIOUS
<1>2. result \in Results
  BY <1>1 DEF Results, Searches, Envs
<1>3. x = Checkpoint(c.start, c.end, window, result)
  BY <1>1 DEF Settled
<1>4. /\ x \in Results /\ x.ok = result.ok /\ x.rows = result.rows /\ x.complete = result.complete
      /\ x.env.cached = result.env.cached
  BY <1>2, <1>3, Checkpoints
<1> QED BY <1>1, <1>4

JoinOf(c, window, newer, older, x) ==
    /\ x \in Results /\ x.ok /\ x.rows = Newest(newer.rows \union older.rows, c.budget)
    /\ (x.complete <=> newer.complete /\ older.complete) /\ x.env.cached = older.env.cached
    /\ \E result \in Results :
         /\ x = Checkpoint(c.start, c.end, window, result)
         /\ result.rows = x.rows /\ result.complete = x.complete /\ result.env = older.env

LEMMA Joining ==
    ASSUME NEW c \in Searches, NEW window, NEW newer \in Results, NEW older \in Results,
           NEW x, x = Joined(c, window, newer, older)
    PROVE  JoinOf(c, window, newer, older, x) /\ x \in Results
<1>1. PICK result : result = [ok |-> TRUE, rows |-> Newest(newer.rows \union older.rows, c.budget),
                              complete |-> newer.complete /\ older.complete,
                              started |-> Min({newer.started, older.started}), env |-> older.env]
  OBVIOUS
<1>2. result \in Results
  <2>1. Newest(newer.rows \union older.rows, c.budget) \subseteq Runs
    <3>1. newer.rows \union older.rows \subseteq Runs
      BY DEF Results
    <3>2. Newest(newer.rows \union older.rows, c.budget) \subseteq newer.rows \union older.rows
      BY NewestIsPart DEF Searches
    <3> QED BY <3>1, <3>2
  <2>2. Min({newer.started, older.started}) \in Nat
    <3>1. PICK a \in Nat, b \in Nat : a = newer.started /\ b = older.started
      BY DEF Results
    <3>2. Min({a, b}) \in {a, b}
      BY LesserOf, SMTT(40)
    <3> QED BY <3>1, <3>2
  <2>3. (newer.complete /\ older.complete) \in BOOLEAN
    OBVIOUS
  <2> QED BY <1>1, <2>1, <2>2, <2>3 DEF Results
<1>3. x = Checkpoint(c.start, c.end, window, result)
  BY <1>1 DEF Joined
<1>4. /\ x \in Results /\ x.ok = result.ok /\ x.rows = result.rows /\ x.complete = result.complete
      /\ x.env.cached = result.env.cached
  BY <1>2, <1>3, Checkpoints
<1>5. result.rows = x.rows /\ result.complete = x.complete /\ result.env = older.env
  BY <1>1, <1>4
<1>6. /\ x.ok /\ x.rows = Newest(newer.rows \union older.rows, c.budget)
      /\ (x.complete <=> newer.complete /\ older.complete) /\ x.env.cached = older.env.cached
  BY <1>1, <1>4
<1> QED BY <1>2, <1>3, <1>4, <1>5, <1>6 DEF JoinOf

(* A search finds rows, whatever its halves have found.                     *)
LEMMA SearchesFindRows ==
    ASSUME runs \subseteq Runs, NEW walk \in [Searches -> Results], NEW window, NEW c \in Searches
    PROVE  SearchRange(walk, window, c) \in Results
<1>1. PICK x : x = SearchRange(walk, window, c)
  OBVIOUS
<1>2. CASE c.env.requests = 0
  <2>1. x = GivesUp(c.env)
    BY <1>1, <1>2 DEF SearchRange
  <2> QED BY <1>1, <2>1, GivingUp DEF Searches
<1>3. CASE c.env.requests # 0 /\ Settles(Found(c.start, c.end, c.budget), c.budget)
  <2>1. x = Settled(c, window, Found(c.start, c.end, c.budget), Spent(c.env))
    BY <1>1, <1>3 DEF SearchRange
  <2>2. Spent(c.env) \in Envs
    BY <1>3, Asking DEF Searches
  <2> QED BY <1>1, <2>1, <2>2, Settling, FoundAreRuns
<1>4. CASE c.env.requests # 0 /\ ~Settles(Found(c.start, c.end, c.budget), c.budget) /\ Indivisible(c.start, c.end)
  <2>1. x = GivesUp(Spent(c.env))
    BY <1>1, <1>4 DEF SearchRange
  <2>2. Spent(c.env) \in Envs
    BY <1>4, Asking DEF Searches
  <2> QED BY <1>1, <2>1, <2>2, GivingUp
<1>5. CASE c.env.requests # 0 /\ ~Settles(Found(c.start, c.end, c.budget), c.budget) /\ ~Indivisible(c.start, c.end)
  <2>1. Divides(c)
    BY <1>5, SecondsAreWhole, LengthsAreNumbers DEF Divides, Indivisible, Searches
  <2>2. PICK newer \in Results : newer = walk[NewerHalf(c)]
    BY <2>1, FirstHalf
  <2>3. x = IF ~newer.ok THEN newer
            ELSE IF Exhausts(c, newer) THEN [newer EXCEPT !.complete = FALSE]
            ELSE IF ~walk[OlderHalf(c, newer)].ok THEN walk[OlderHalf(c, newer)]
            ELSE Joined(c, window, newer, walk[OlderHalf(c, newer)])
    BY <1>1, <1>5, <2>2 DEF SearchRange, Exhausts
  <2>4. [newer EXCEPT !.complete = FALSE] \in Results
    BY DEF Results
  <2>5. ASSUME ~Exhausts(c, newer) PROVE walk[OlderHalf(c, newer)] \in Results
    BY <2>1, <2>5, SecondHalf
  <2>6. ASSUME ~Exhausts(c, newer) PROVE Joined(c, window, newer, walk[OlderHalf(c, newer)]) \in Results
    BY <2>5, <2>6, Joining
  <2> QED BY <1>1, <2>3, <2>4, <2>5, <2>6
<1> QED BY <1>2, <1>3, <1>4, <1>5

(* Its halves decide what it finds.                                         *)
LEMMA SearchesAskLess ==
    ASSUME runs \subseteq Runs, NEW f \in [Searches -> Results], NEW g, NEW window, NEW c \in Searches,
           \A y \in Searches : Length(y) < Length(c) => f[y] = g[y]
    PROVE  SearchRange(f, window, c) = SearchRange(g, window, c)
<1>1. CASE c.env.requests = 0 \/ Settles(Found(c.start, c.end, c.budget), c.budget) \/ Indivisible(c.start, c.end)
  BY <1>1 DEF SearchRange
<1>2. CASE c.env.requests # 0 /\ ~Settles(Found(c.start, c.end, c.budget), c.budget) /\ ~Indivisible(c.start, c.end)
  <2>1. Divides(c)
    BY <1>2, SecondsAreWhole, LengthsAreNumbers DEF Divides, Indivisible, Searches
  <2>2. PICK newer \in Results : newer = f[NewerHalf(c)] /\ newer = g[NewerHalf(c)]
    BY <2>1, FirstHalf
  <2>3. ~Exhausts(c, newer) => f[OlderHalf(c, newer)] = g[OlderHalf(c, newer)]
    <3> SUFFICES ASSUME ~Exhausts(c, newer) PROVE f[OlderHalf(c, newer)] = g[OlderHalf(c, newer)]
      OBVIOUS
    <3>1. OlderHalf(c, newer) \in Searches /\ Length(OlderHalf(c, newer)) < Length(c)
      BY <2>1, SecondHalf
    <3> QED BY <3>1
  <2>4. SearchRange(f, window, c) =
            IF ~newer.ok THEN newer
            ELSE IF Exhausts(c, newer) THEN [newer EXCEPT !.complete = FALSE]
            ELSE IF ~f[OlderHalf(c, newer)].ok THEN f[OlderHalf(c, newer)]
            ELSE Joined(c, window, newer, f[OlderHalf(c, newer)])
    BY <1>2, <2>2 DEF SearchRange, Exhausts
  <2>5. SearchRange(g, window, c) =
            IF ~newer.ok THEN newer
            ELSE IF Exhausts(c, newer) THEN [newer EXCEPT !.complete = FALSE]
            ELSE IF ~g[OlderHalf(c, newer)].ok THEN g[OlderHalf(c, newer)]
            ELSE Joined(c, window, newer, g[OlderHalf(c, newer)])
    BY <1>2, <2>2 DEF SearchRange, Exhausts
  <2> QED BY <2>3, <2>4, <2>5
<1> QED BY <1>1, <1>2

LEMMA LengthsAreBounded == \A c \in Searches : Length(c) \in 0 .. Days * DayLength
<1> SUFFICES ASSUME NEW c \in Searches PROVE Length(c) \in 0 .. Days * DayLength
  OBVIOUS
<1>1. PICK s \in Int, t \in Int : /\ s = c.start /\ t = c.end /\ 0 <= s /\ 0 <= t
                                  /\ s <= Days * DayLength - 1 /\ t <= Days * DayLength - 1
  BY SecondsAreWhole, LengthsAreNumbers DEF Searches
<1> QED BY <1>1, LengthsAreNumbers DEF Length

LEMMA SomeResult == Results # {}
<1>1. PICK env : env = [now |-> 0, requests |-> 0, cache |-> [d \in Calendar |-> None], cached |-> TRUE,
                        saved |-> {}, broken |-> {}]
  OBVIOUS
<1>2. env \in Envs
  BY <1>1 DEF Envs
<1> QED BY <1>2, GivingUp

(* Walk is what its recursion says.                                         *)
LEMMA WalkIsDefined ==
    ASSUME runs \subseteq Runs, NEW window
    PROVE  \E walk : walk = [c \in Searches |-> SearchRange(walk, window, c)] /\ walk \in [Searches -> Results] /\ Walk(window) = walk
<1> DEFINE Def(f) == f = [c \in Searches |-> SearchRange(f, window, c)]
           whole == CHOOSE f : Def(f)
<1>1. Walk(window) = whole
  BY DEF Walk
<1>2. PICK G : G = [f \in [Searches -> Results] |-> [c \in Searches |-> SearchRange(f, window, c)]]
  BY Zenon
<1>3. \A f \in [Searches -> Results] : G[f] = [c \in Searches |-> SearchRange(f, window, c)]
  BY <1>2
<1>4. G \in [[Searches -> Results] -> [Searches -> Results]]
  <2>1. \A f \in [Searches -> Results] : [c \in Searches |-> SearchRange(f, window, c)] \in [Searches -> Results]
    BY SearchesFindRows
  <2> QED BY <1>2, <2>1
<1>5. PICK rank \in [Searches -> 0 .. Days * DayLength] : rank = [c \in Searches |-> Length(c)]
  <2>1. [c \in Searches |-> Length(c)] \in [Searches -> 0 .. Days * DayLength]
    BY LengthsAreBounded
  <2> QED BY <2>1
<1>6. ASSUME NEW f \in [Searches -> Results], NEW g \in [Searches -> Results], NEW c \in Searches,
             \A y \in Searches : rank[y] < rank[c] => f[y] = g[y]
      PROVE  G[f][c] = G[g][c]
  <2>1. \A y \in Searches : Length(y) < Length(c) => f[y] = g[y]
    BY <1>5, <1>6
  <2>2. SearchRange(f, window, c) = SearchRange(g, window, c)
    BY <2>1, SearchesAskLess
  <2>3. G[f][c] = SearchRange(f, window, c)
    BY <1>3
  <2>4. G[g][c] = SearchRange(g, window, c)
    BY <1>3
  <2> QED BY <2>2, <2>3, <2>4
<1>7. PICK f \in [Searches -> Results] : f = G[f]
  <2>1. PICK N \in Nat : N = Days * DayLength
    BY LengthsAreNumbers
  <2>2. Grounded(Searches, Results, N, rank, G)
    BY <1>4, <1>6, <2>1, SomeResult DEF Grounded
  <2> QED BY <2>2, RecursionIsDefined
<1>8. Def(f)
  BY <1>3, <1>7
<1>9. Def(whole)
  <2> HIDE DEF Def
  <2> QED BY <1>8
<1> HIDE DEF whole
<1>10. whole = f
  <2>1. f = [c \in Searches |-> f[c]] /\ whole = [c \in Searches |-> whole[c]]
    BY <1>9
  <2>2. PICK length \in [Searches -> Nat] : length = [c \in Searches |-> Length(c)]
    <3>1. [c \in Searches |-> Length(c)] \in [Searches -> Nat]
      BY LengthsAreBounded, LengthsAreNumbers
    <3> QED BY <3>1
  <2>3. ASSUME NEW c \in Searches, \A y \in Searches : length[y] < length[c] => f[y] = whole[y]
        PROVE  f[c] = whole[c]
    <3>1. \A y \in Searches : Length(y) < Length(c) => f[y] = whole[y]
      BY <2>2, <2>3
    <3>2. SearchRange(f, window, c) = SearchRange(whole, window, c)
      BY <3>1, SearchesAskLess
    <3>3. f[c] = SearchRange(f, window, c)
      BY <1>8
    <3>4. whole[c] = SearchRange(whole, window, c)
      BY <1>9
    <3> QED BY <3>2, <3>3, <3>4
  <2> HIDE DEF Def
  <2> QED BY <2>1, <2>3, RecursionIsUnique
<1> QED BY <1>1, <1>8, <1>10

---------------------------------------------------------------------------
(* What a search returns, and when that is all of its range.                *)
Within(window, c) == window.start <= c.start /\ c.end < window.end
Finds(c, x) ==
    /\ x \in Results /\ x.env.cached = c.env.cached
    /\ Filed(c.env.cache) => Filed(x.env.cache)
    /\ x.ok => x.rows = Newest(Between(c.start, c.end), c.budget)
    /\ x.ok /\ x.complete => /\ x.rows = Between(c.start, c.end)
                             /\ c.budget > 0 => Cardinality(x.rows) < c.budget

LEMMA CheckpointsAreComplete ==
    ASSUME Repository, NEW window, Span(window), NEW c \in Searches, Within(window, c),
           NEW result \in Results, result.complete => result.rows = Between(c.start, c.end), Filed(result.env.cache),
           NEW x, x = Checkpoint(c.start, c.end, window, result)
    PROVE  Filed(x.env.cache)
<1>1. CASE ~(result.env.cached /\ result.complete)
  BY <1>1 DEF Checkpoint
<1>2. CASE result.env.cached /\ result.complete
  <2>1. c.start \in Int /\ c.end \in Int /\ Whole(c.end) /\ window.start \in Int /\ window.end \in Int /\ c.end + Second \in Int
    BY SecondsAreWhole, LengthsAreNumbers DEF Searches, Span
  <2>2. PICK from \in Int, to \in Int : from = Max({c.start, window.start}) /\ to = Min({c.end + Second, window.end})
    BY <2>1, GreaterOf, LesserOf
  <2>3. from = c.start /\ (to = c.end + Second \/ (to = window.end /\ to <= c.end + Second))
    <3>1. from \in {c.start, window.start} /\ from >= c.start /\ from >= window.start
      BY <2>1, <2>2, GreaterOf
    <3>2. to \in {c.end + Second, window.end} /\ to <= c.end + Second
      BY <2>1, <2>2, LesserOf
    <3> QED BY <2>1, <3>1, <3>2 DEF Within
  <2>4. PICK covered : covered = [start |-> from, end |-> to]
    OBVIOUS
  <2>5. Inside(runs, covered) = Between(c.start, c.end)
    <3>1. ASSUME NEW r \in runs PROVE r.at < to <=> r.at <= c.end
      <4>1. r.at \in Int /\ Whole(r.at)
        BY TimesAreNumbers DEF Repository
      <4>2. c.end < r.at => c.end + Second <= r.at
        BY <2>1, <4>1, SecondsApart
      <4> QED BY <2>1, <2>3, <4>1, <4>2, LengthsAreNumbers DEF Within
    <3> QED BY <2>3, <2>4, <3>1 DEF Inside, Between
  <2>6. result.rows = Newest(Inside(runs, covered), 0)
    BY <1>2, <2>5, NewestIsPart
  <2>7. PICK env : env = SaveDays(covered, result.rows, result.started, 0, result.env)
    OBVIOUS
  <2>8. x = [result EXCEPT !.env = env]
    BY <1>2, <2>2, <2>4, <2>7 DEF Checkpoint
  <2>9. x.env = env
    BY <2>8 DEF Results
  <2>10. Filed(env.cache)
    <3>1. Span(covered) /\ result.started \in Nat /\ result.env \in Envs
      BY <2>4 DEF Span, Results
    <3> QED BY <2>6, <2>7, <3>1, SavesDays
  <2> QED BY <2>9, <2>10
<1> QED BY <1>1, <1>2

LEMMA SettledIsExact ==
    ASSUME Repository, NEW window, Span(window), NEW c \in Searches, Within(window, c), c.env.requests # 0,
           Settles(Found(c.start, c.end, c.budget), c.budget),
           NEW x, x = Settled(c, window, Found(c.start, c.end, c.budget), Spent(c.env))
    PROVE  Finds(c, x)
<1>1. PICK range \in SUBSET Runs : range = Between(c.start, c.end) /\ IsFiniteSet(range)
  BY FoundAreRuns, RunsAreFinite DEF Repository
<1>2. PICK found \in SUBSET range : found = Found(c.start, c.end, c.budget) /\ found = Newest(range, Cap(c.budget))
  BY <1>1, FoundAreRuns DEF Found, Repository
<1>3. PICK cap \in Nat \ {0} : /\ cap = Cap(c.budget)
                               /\ cap = IF c.budget > 0 /\ c.budget < SearchCap THEN c.budget ELSE SearchCap
  BY LengthsAreNumbers DEF Cap, Searches
<1>4. Cardinality(found) \in Nat /\ Cardinality(range) \in Nat /\ c.budget \in Nat
  BY RunsAreFinite DEF Searches
<1>5. Cardinality(found) < cap => found = range
  BY <1>1, <1>2, <1>3, NewestIsAll
<1>6. found = Newest(range, c.budget)
  <2>1. CASE c.budget > 0 /\ c.budget <= SearchCap
    <3>1. cap = c.budget
      BY <1>3, <1>4, <2>1, LengthsAreNumbers
    <3> QED BY <1>2, <1>3, <3>1
  <2>2. CASE ~(c.budget > 0 /\ c.budget <= SearchCap)
    <3>1. cap = SearchCap /\ Cardinality(found) < cap /\ found = range
      BY <1>2, <1>3, <1>4, <1>5, <2>2, LengthsAreNumbers DEF Settles
    <3>2. c.budget # 0 => Cardinality(range) < c.budget
      BY <1>4, <2>2, <3>1, LengthsAreNumbers
    <3> QED BY <1>1, <1>4, <3>1, <3>2, NewestOfFew
  <2> QED BY <2>1, <2>2
<1>7. Spent(c.env) \in Envs /\ Spent(c.env).cache = c.env.cache /\ Spent(c.env).cached = c.env.cached
  BY Asking DEF Searches
<1>8. /\ x \in Results /\ x.ok /\ x.rows = found /\ (x.complete <=> Cardinality(found) < cap)
      /\ x.env.cached = c.env.cached
  <2>1. found \in SUBSET Runs /\ x = Settled(c, window, found, Spent(c.env))
    BY <1>1, <1>2
  <2>2. /\ x \in Results /\ x.ok /\ x.rows = found /\ (x.complete <=> Cardinality(found) < Cap(c.budget))
        /\ x.env.cached = Spent(c.env).cached
    BY <1>7, <2>1, Settling
  <2> QED BY <1>3, <1>7, <2>2
<1>9. x.complete => found = range /\ (c.budget > 0 => Cardinality(found) < c.budget)
  <2>1. c.budget > 0 => cap <= c.budget
    BY <1>3, <1>4, LengthsAreNumbers
  <2>2. x.complete => Cardinality(found) < cap
    BY <1>8
  <2> QED BY <1>3, <1>4, <1>5, <2>1, <2>2
<1>10. Filed(c.env.cache) => Filed(x.env.cache)
  <2> SUFFICES ASSUME Filed(c.env.cache) PROVE Filed(x.env.cache)
    OBVIOUS
  <2>1. PICK result : result = [ok |-> TRUE, rows |-> found, complete |-> Cardinality(found) < cap,
                                started |-> c.env.now, env |-> Spent(c.env)]
    OBVIOUS
  <2>2. result \in Results /\ result.env = Spent(c.env) /\ result.rows = found /\ (result.complete => found = range)
    <3>1. result \in Results
      BY <1>1, <1>2, <1>7, <2>1 DEF Results, Searches, Envs
    <3> QED BY <1>5, <2>1, <3>1
  <2>3. x = Checkpoint(c.start, c.end, window, result)
    BY <1>2, <1>3, <2>1 DEF Settled
  <2>4. Filed(result.env.cache)
    BY <1>7, <2>2
  <2> QED BY <1>1, <2>2, <2>3, <2>4, CheckpointsAreComplete
<1> QED BY <1>1, <1>6, <1>8, <1>9, <1>10 DEF Finds

(* Both halves of a range make up the whole.                                *)
Shared(A, B, n, X, left, Y) ==
    /\ A \subseteq Runs /\ B \subseteq Runs /\ Before(A, B)
    /\ n \in Nat /\ X = Newest(A, n) /\ (n > 0 => Cardinality(X) < n)
    /\ left \in Nat /\ left = (IF n > 0 THEN n - Cardinality(X) ELSE 0) /\ Y = Newest(B, left)

LEMMA HalvesAreJoined ==
    ASSUME NEW A, NEW B, NEW n \in Nat, NEW X, NEW left \in Nat, NEW Y, Shared(A, B, n, X, left, Y),
           NEW rows, rows = Newest(X \union Y, n)
    PROVE  /\ rows = Newest(A \union B, n)
           /\ (left > 0 => Cardinality(Y) < left) => rows = A \union B /\ (n > 0 => Cardinality(rows) < n)
<1> /\ A \subseteq Runs /\ B \subseteq Runs /\ Before(A, B)
    /\ n \in Nat /\ X = Newest(A, n) /\ (n > 0 => Cardinality(X) < n)
    /\ left \in Nat /\ left = (IF n > 0 THEN n - Cardinality(X) ELSE 0) /\ Y = Newest(B, left)
  BY DEF Shared
<1>1. IsFiniteSet(A) /\ IsFiniteSet(B)
  BY RunsAreFinite
<1>2. X = A
  <2>1. n # 0 => Cardinality(Newest(A, n)) < n
    OBVIOUS
  <2> QED BY <1>1, <2>1, NewestIsAll
<1>3. rows = Newest(A \union B, n)
  <2>1. CASE n = 0
    BY <1>2, <2>1, NewestIsPart
  <2>2. CASE n # 0
    <3>1. left = n - Cardinality(A) /\ Cardinality(A) < n
      BY <1>2, <2>2
    <3> QED BY <1>1, <1>2, <3>1, NewestOfBoth
  <2> QED BY <2>1, <2>2
<1>4. ASSUME left > 0 => Cardinality(Y) < left PROVE rows = A \union B /\ (n > 0 => Cardinality(rows) < n)
  <2>1. CASE n = 0
    BY <1>3, <2>1, NewestIsPart
  <2>2. CASE n # 0
    <3>1. Cardinality(A) \in Nat /\ Cardinality(B) \in Nat /\ IsFiniteSet(A \union B)
          /\ Cardinality(A \union B) = Cardinality(A) + Cardinality(B)
      <4>1. Cardinality(A \union B) = Cardinality(A) + Cardinality(B) /\ IsFiniteSet(A \union B)
        BY <1>1, AheadOfBoth, Zenon
      <4> QED BY <4>1, RunsAreFinite
    <3>2. left = n - Cardinality(A) /\ left > 0
      BY <1>2, <2>2, <3>1
    <3>3. Y = B
      <4>1. left # 0 => Cardinality(Newest(B, left)) < left
        BY <1>4, <3>2
      <4> QED BY <1>1, <4>1, NewestIsAll
    <3>4. Cardinality(A \union B) < n
      BY <1>4, <3>1, <3>2, <3>3
    <3>5. Newest(A \union B, n) = A \union B
      BY <3>1, <3>4, NewestOfFew
    <3> QED BY <1>3, <3>4, <3>5
  <2> QED BY <2>1, <2>2
<1> QED BY <1>3, <1>4

LEMMA Halves ==
    ASSUME Repository, NEW c \in Searches, Divides(c)
    PROVE  \E A, B \in SUBSET Runs :
             /\ A = Between(Middle(c), c.end) /\ B = Between(c.start, Middle(c) - Second)
             /\ Before(A, B) /\ A \union B = Between(c.start, c.end)
<1>1. c.start \in Int /\ c.end \in Int
  BY SecondsAreWhole, LengthsAreNumbers DEF Searches
<1>2. PICK mid \in Int : mid = Middle(c) /\ Whole(mid) /\ c.start < mid /\ mid <= c.end
  <2>1. Middle(c) \in Seconds /\ Middle(c) <= c.end /\ c.start < Middle(c)
    BY FirstHalf
  <2> QED BY <2>1, SecondsAreWhole, LengthsAreNumbers
<1>3. PICK A \in SUBSET Runs, B \in SUBSET Runs :
        A = Between(mid, c.end) /\ B = Between(c.start, mid - Second)
  BY DEF Repository, Between
<1>4. ASSUME NEW r \in runs PROVE r.at \in Int /\ (r.at < mid <=> r.at <= mid - Second)
  <2>1. r.at \in Int /\ Whole(r.at)
    BY TimesAreNumbers DEF Repository
  <2>2. r.at < mid => r.at + Second <= mid
    BY <1>2, <2>1, SecondsApart
  <2> QED BY <1>2, <2>1, <2>2, LengthsAreNumbers
<1>5. Before(A, B)
  BY <1>2, <1>3, <1>4, LengthsAreNumbers DEF Before, Between, Newer
<1>6. A \union B = Between(c.start, c.end)
  BY <1>1, <1>2, <1>3, <1>4, LengthsAreNumbers DEF Between
<1> QED BY <1>2, <1>3, <1>5, <1>6

(* The newer half had all that was asked for.                               *)
LEMMA ExhaustedIsExact ==
    ASSUME Repository, NEW c \in Searches, Divides(c),
           NEW newer \in Results, newer.ok, Finds(NewerHalf(c), newer), Exhausts(c, newer)
    PROVE  Finds(c, [newer EXCEPT !.complete = FALSE])
<1>1. PICK x : x = [newer EXCEPT !.complete = FALSE]
  OBVIOUS
<1>2. x \in Results /\ x.rows = newer.rows /\ ~x.complete /\ x.env = newer.env
  BY <1>1 DEF Results
<1>3. PICK A \in SUBSET Runs, B \in SUBSET Runs :
        /\ A = Between(Middle(c), c.end) /\ Before(A, B) /\ A \union B = Between(c.start, c.end)
  BY Halves
<1>4. NewerHalf(c) = [start |-> Middle(c), end |-> c.end, budget |-> c.budget, env |-> Spent(c.env)]
  BY FirstHalf
<1>5. newer.rows = Newest(A, c.budget)
  BY <1>3, <1>4 DEF Finds
<1>6. c.budget \in Nat /\ c.budget # 0 /\ c.budget <= Cardinality(A) /\ IsFiniteSet(A) /\ IsFiniteSet(B)
  <2>1. IsFiniteSet(A) /\ IsFiniteSet(B) /\ newer.rows \subseteq A
    BY <1>5, RunsAreFinite, NewestIsPart DEF Searches
  <2>2. Cardinality(newer.rows) <= Cardinality(A) /\ Cardinality(newer.rows) \in Nat /\ Cardinality(A) \in Nat
    BY <2>1, Fewer
  <2> QED BY <2>1, <2>2 DEF Exhausts, Searches
<1>7. x.rows = Newest(Between(c.start, c.end), c.budget)
  BY <1>2, <1>3, <1>5, <1>6, NewestOfNewer
<1>8. x.env.cached = c.env.cached /\ (Filed(c.env.cache) => Filed(x.env.cache))
  <2>1. Spent(c.env).cache = c.env.cache /\ Spent(c.env).cached = c.env.cached
    BY Asking DEF Searches, Divides
  <2> QED BY <1>2, <1>4, <2>1 DEF Finds
<1>9. Finds(c, x)
  BY <1>2, <1>7, <1>8 DEF Finds
<1> QED BY <1>1, <1>9

(* Or its older half has the rest.                                          *)
LEMMA JoinedIsExact ==
    ASSUME Repository, NEW window, Span(window), NEW c \in Searches, Within(window, c), Divides(c),
           NEW newer \in Results, newer.ok, Finds(NewerHalf(c), newer), ~Exhausts(c, newer),
           NEW older \in Results, older.ok, Finds(OlderHalf(c, newer), older),
           NEW x, x = Joined(c, window, newer, older)
    PROVE  Finds(c, x)
<1>1. PICK A \in SUBSET Runs, B \in SUBSET Runs :
        /\ A = Between(Middle(c), c.end) /\ B = Between(c.start, Middle(c) - Second)
        /\ Before(A, B) /\ A \union B = Between(c.start, c.end)
  BY Halves
<1>2. NewerHalf(c) = [start |-> Middle(c), end |-> c.end, budget |-> c.budget, env |-> Spent(c.env)]
  BY FirstHalf
<1>3. PICK left \in Nat :
        /\ left = IF c.budget > 0 THEN c.budget - Cardinality(newer.rows) ELSE 0
        /\ OlderHalf(c, newer) = [start |-> c.start, end |-> Middle(c) - Second, budget |-> left, env |-> newer.env]
  BY SecondHalf
<1>4. newer.rows = Newest(A, c.budget) /\ older.rows = Newest(B, left)
  BY <1>1, <1>2, <1>3 DEF Finds
<1>5. c.budget \in Nat /\ (c.budget > 0 => Cardinality(newer.rows) < c.budget)
  <2>1. Cardinality(newer.rows) \in Nat /\ c.budget \in Nat
    BY RunsAreFinite DEF Results, Searches
  <2> QED BY <2>1 DEF Exhausts
<1>6. PICK rows : rows = Newest(newer.rows \union older.rows, c.budget)
  OBVIOUS
<1>7. /\ rows = Newest(A \union B, c.budget)
      /\ (left > 0 => Cardinality(older.rows) < left) =>
            rows = A \union B /\ (c.budget > 0 => Cardinality(rows) < c.budget)
  <2>1. PICK n \in Nat, X \in SUBSET Runs, Y \in SUBSET Runs : n = c.budget /\ X = newer.rows /\ Y = older.rows
    BY <1>5 DEF Results
  <2>2. Shared(A, B, n, X, left, Y) /\ rows = Newest(X \union Y, n)
    BY <1>1, <1>3, <1>4, <1>5, <1>6, <2>1 DEF Shared
  <2>3. /\ rows = Newest(A \union B, n)
        /\ (left > 0 => Cardinality(Y) < left) => rows = A \union B /\ (n > 0 => Cardinality(rows) < n)
    BY <2>2, HalvesAreJoined, SMTT(40)
  <2> QED BY <2>1, <2>3
<1>8. older.complete => rows = Between(c.start, c.end) /\ (c.budget > 0 => Cardinality(rows) < c.budget)
  <2>1. older.complete => (left > 0 => Cardinality(older.rows) < left)
    BY <1>3 DEF Finds
  <2> QED BY <1>1, <1>7, <2>1
<1>9. /\ x \in Results /\ x.ok /\ x.rows = rows /\ (x.complete <=> newer.complete /\ older.complete)
      /\ x.env.cached = older.env.cached
  <2>1. /\ x \in Results /\ x.ok /\ x.rows = Newest(newer.rows \union older.rows, c.budget)
        /\ (x.complete <=> newer.complete /\ older.complete) /\ x.env.cached = older.env.cached
    <3>1. JoinOf(c, window, newer, older, x)
      BY Joining
    <3> QED BY <3>1 DEF JoinOf
  <2> QED BY <1>6, <2>1
<1>10. older.env.cached = c.env.cached /\ (Filed(c.env.cache) => Filed(older.env.cache))
  <2>1. Spent(c.env).cache = c.env.cache /\ Spent(c.env).cached = c.env.cached
    BY Asking DEF Searches, Divides
  <2>2. newer.env.cached = c.env.cached /\ (Filed(c.env.cache) => Filed(newer.env.cache))
    BY <1>2, <2>1 DEF Finds
  <2> QED BY <1>3, <2>2 DEF Finds
<1>11. Filed(c.env.cache) => Filed(x.env.cache)
  <2> SUFFICES ASSUME Filed(c.env.cache) PROVE Filed(x.env.cache)
    OBVIOUS
  <2>1. PICK result \in Results :
          /\ x = Checkpoint(c.start, c.end, window, result)
          /\ result.rows = x.rows /\ result.complete = x.complete /\ result.env = older.env
    <3>1. JoinOf(c, window, newer, older, x)
      BY Joining
    <3> QED BY <3>1 DEF JoinOf
  <2>2. result.complete => result.rows = Between(c.start, c.end)
    BY <1>8, <1>9, <2>1
  <2>3. Filed(result.env.cache)
    BY <1>10, <2>1
  <2> QED BY <2>1, <2>2, <2>3, CheckpointsAreComplete
<1>12. /\ x.rows = Newest(Between(c.start, c.end), c.budget)
       /\ x.complete => x.rows = Between(c.start, c.end) /\ (c.budget > 0 => Cardinality(x.rows) < c.budget)
  BY <1>1, <1>7, <1>8, <1>9
<1> QED BY <1>9, <1>10, <1>11, <1>12 DEF Finds

(* A search of a range finds the newest runs of it, if those of shorter     *)
(* ones do.                                                                 *)
LEMMA RangeIsExact ==
    ASSUME Repository, NEW window, Span(window), NEW c \in Searches, Within(window, c),
           NEW walk \in [Searches -> Results],
           \A y \in Searches : Within(window, y) /\ Length(y) < Length(c) => Finds(y, walk[y])
    PROVE  Finds(c, SearchRange(walk, window, c))
<1>1. PICK x : x = SearchRange(walk, window, c)
  OBVIOUS
<1>2. runs \subseteq Runs /\ x \in Results /\ c.env \in Envs
  BY <1>1, SearchesFindRows DEF Repository, Searches
<1>3. CASE c.env.requests = 0
  <2>1. x = GivesUp(c.env)
    BY <1>1, <1>3 DEF SearchRange
  <2>2. ~x.ok /\ x.env = c.env
    BY <1>2, <2>1, GivingUp
  <2> QED BY <1>1, <1>2, <2>2 DEF Finds
<1>4. CASE c.env.requests # 0 /\ Settles(Found(c.start, c.end, c.budget), c.budget)
  <2>1. x = Settled(c, window, Found(c.start, c.end, c.budget), Spent(c.env))
    BY <1>1, <1>4 DEF SearchRange
  <2>2. Finds(c, x)
    BY <1>4, <2>1, SettledIsExact
  <2> QED BY <1>1, <2>2
<1>5. CASE c.env.requests # 0 /\ ~Settles(Found(c.start, c.end, c.budget), c.budget) /\ Indivisible(c.start, c.end)
  <2>1. x = GivesUp(Spent(c.env))
    BY <1>1, <1>5 DEF SearchRange
  <2>2. Spent(c.env) \in Envs /\ Spent(c.env).cache = c.env.cache /\ Spent(c.env).cached = c.env.cached
    BY <1>2, <1>5, Asking
  <2>3. ~x.ok /\ x.env = Spent(c.env)
    BY <2>1, <2>2, GivingUp
  <2> QED BY <1>1, <1>2, <2>2, <2>3 DEF Finds
<1>6. CASE c.env.requests # 0 /\ ~Settles(Found(c.start, c.end, c.budget), c.budget) /\ ~Indivisible(c.start, c.end)
  <2>1. Divides(c)
    BY <1>6, SecondsAreWhole, LengthsAreNumbers DEF Divides, Indivisible, Searches
  <2>2. c.start \in Int /\ c.end \in Int /\ Middle(c) \in Int /\ Middle(c) <= c.end /\ c.start < Middle(c)
    BY <2>1, FirstHalf, SecondsAreWhole, LengthsAreNumbers DEF Searches
  <2>3. PICK newer \in Results : newer = walk[NewerHalf(c)] /\ Finds(NewerHalf(c), newer)
    <3>1. /\ NewerHalf(c) \in Searches /\ Length(NewerHalf(c)) < Length(c)
          /\ NewerHalf(c) = [start |-> Middle(c), end |-> c.end, budget |-> c.budget, env |-> Spent(c.env)]
      BY <2>1, FirstHalf
    <3>2. Within(window, NewerHalf(c))
      BY <2>2, <3>1 DEF Within, Span
    <3> QED BY <3>1, <3>2
  <2>4. newer.env.cached = c.env.cached /\ (Filed(c.env.cache) => Filed(newer.env.cache))
    <3>1. Spent(c.env).cache = c.env.cache /\ Spent(c.env).cached = c.env.cached
      BY <1>2, <1>6, Asking
    <3>2. NewerHalf(c) = [start |-> Middle(c), end |-> c.end, budget |-> c.budget, env |-> Spent(c.env)]
      BY <2>1, FirstHalf
    <3> QED BY <2>3, <3>1, <3>2 DEF Finds
  <2>5. x = IF ~newer.ok THEN newer
            ELSE IF Exhausts(c, newer) THEN [newer EXCEPT !.complete = FALSE]
            ELSE IF ~walk[OlderHalf(c, newer)].ok THEN walk[OlderHalf(c, newer)]
            ELSE Joined(c, window, newer, walk[OlderHalf(c, newer)])
    BY <1>1, <1>6, <2>3 DEF SearchRange, Exhausts
  <2>6. CASE ~newer.ok
    <3>1. x = newer
      BY <2>5, <2>6
    <3> QED BY <1>1, <2>4, <2>6, <3>1 DEF Finds
  <2>7. CASE newer.ok /\ Exhausts(c, newer)
    <3>1. x = [newer EXCEPT !.complete = FALSE]
      BY <2>5, <2>7
    <3>2. Finds(c, x)
      BY <2>1, <2>3, <2>7, <3>1, ExhaustedIsExact
    <3> QED BY <1>1, <3>2
  <2>8. CASE newer.ok /\ ~Exhausts(c, newer)
    <3>1. PICK left \in Nat :
            /\ OlderHalf(c, newer) = [start |-> c.start, end |-> Middle(c) - Second, budget |-> left, env |-> newer.env]
            /\ OlderHalf(c, newer) \in Searches /\ Length(OlderHalf(c, newer)) < Length(c)
      BY <2>1, <2>8, SecondHalf
    <3>2. Within(window, OlderHalf(c, newer))
      BY <2>2, <3>1, LengthsAreNumbers DEF Within, Span
    <3>3. PICK older \in Results : older = walk[OlderHalf(c, newer)] /\ Finds(OlderHalf(c, newer), older)
      BY <3>1, <3>2
    <3>4. CASE ~older.ok
      <4>1. x = older
        BY <2>5, <2>8, <3>3, <3>4
      <4>2. older.env.cached = c.env.cached /\ (Filed(c.env.cache) => Filed(older.env.cache))
        BY <2>4, <3>1, <3>3 DEF Finds
      <4> QED BY <1>1, <3>4, <4>1, <4>2 DEF Finds
    <3>5. CASE older.ok
      <4>1. x = Joined(c, window, newer, older)
        BY <2>5, <2>8, <3>3, <3>5
      <4>2. Finds(c, x)
        BY <2>1, <2>3, <2>8, <3>3, <3>5, <4>1, JoinedIsExact
      <4> QED BY <1>1, <4>2
    <3> QED BY <3>4, <3>5
  <2> QED BY <2>6, <2>7, <2>8
<1> QED BY <1>3, <1>4, <1>5, <1>6

LEMMA WalkIsExact ==
    ASSUME Repository, NEW window, Span(window), NEW c \in Searches, Within(window, c)
    PROVE  Finds(c, Walk(window)[c])
<1>1. runs \subseteq Runs
  BY DEF Repository
<1>2. PICK walk : walk = [b \in Searches |-> SearchRange(walk, window, b)] /\ walk \in [Searches -> Results] /\ Walk(window) = walk
  BY <1>1, WalkIsDefined
<1> DEFINE P == {n \in Nat : \A b \in Searches : Within(window, b) /\ Length(b) < n => Finds(b, walk[b])}
<1>3. \A b \in Searches : Length(b) \in Nat
  BY LengthsAreBounded, LengthsAreNumbers
<1>4. 0 \in P
  BY <1>3
<1>5. ASSUME NEW n \in Nat, n \in P PROVE n + 1 \in P
  <2>1. ASSUME NEW b \in Searches, Within(window, b), Length(b) < n + 1 PROVE Finds(b, walk[b])
    <3>1. \A y \in Searches : Within(window, y) /\ Length(y) < Length(b) => Finds(y, walk[y])
      <4> SUFFICES ASSUME NEW y \in Searches, Within(window, y), Length(y) < Length(b) PROVE Finds(y, walk[y])
        OBVIOUS
      <4>1. Length(y) < n
        BY <1>3, <2>1
      <4> QED BY <1>5, <4>1
    <3>2. Finds(b, SearchRange(walk, window, b))
      BY <1>2, <2>1, <3>1, RangeIsExact
    <3>3. walk[b] = SearchRange(walk, window, b)
      BY <1>2
    <3> QED BY <3>2, <3>3
  <2> QED BY <2>1
<1>6. \A n \in Nat : n \in P
  <2> HIDE DEF P
  <2> QED BY <1>4, <1>5, Counting
<1>7. Length(c) + 1 \in P /\ Length(c) < Length(c) + 1
  BY <1>3, <1>6
<1> QED BY <1>2, <1>7

---------------------------------------------------------------------------
(* A search of a window.                                                    *)
Period(window) ==
    /\ window.start \in Nat /\ window.end \in Nat
    /\ window.start < window.end /\ window.end <= Days * DayLength
SearchFinds(window, budget, env, x) ==
    /\ x \in Results /\ x.env.cached = env.cached
    /\ Filed(env.cache) => Filed(x.env.cache)
    /\ x.ok => x.rows = Newest(Inside(runs, window), budget)

LEMMA WholeSeconds ==
    ASSUME NEW window, Period(window)
    PROVE  \E start, end \in Int :
             /\ start = ((window.start + Second - 1) \div Second) * Second
             /\ end = ((window.end - 1) \div Second) * Second
             /\ Whole(start) /\ window.start <= start /\ start < window.start + Second
             /\ Whole(end) /\ end < window.end /\ window.end <= end + Second
             /\ start <= end => start \in Seconds /\ end \in Seconds
<1>1. window.start + Second - 1 \in Int /\ window.end - 1 \in Int /\ window.start \in Int /\ window.end \in Int
  BY LengthsAreNumbers DEF Period
<1>2. PICK p \in Int : /\ p = (window.start + Second - 1) \div Second
                       /\ p * Second <= window.start + Second - 1 /\ window.start + Second - 1 < p * Second + Second
  BY <1>1, Quotient, LengthsAreNumbers
<1>3. PICK q \in Int : /\ q = (window.end - 1) \div Second
                       /\ q * Second <= window.end - 1 /\ window.end - 1 < q * Second + Second
  BY <1>1, Quotient, LengthsAreNumbers
<1>4. PICK start \in Int, end \in Int : start = p * Second /\ end = q * Second /\ Whole(start) /\ Whole(end)
  BY LengthsAreNumbers DEF Whole
<1>5. window.start <= start /\ start < window.start + Second /\ end < window.end /\ window.end <= end + Second
  BY <1>1, <1>2, <1>3, <1>4, LengthsAreNumbers
<1>6. start <= end => start \in 0 .. Days * DayLength - 1 /\ end \in 0 .. Days * DayLength - 1
  BY <1>5, LengthsAreNumbers DEF Period
<1> QED BY <1>2, <1>3, <1>4, <1>5, <1>6, SecondsAreWhole

LEMMA SearchIsExact ==
    ASSUME Repository, NEW window, Period(window), NEW budget \in Nat, NEW env \in Envs,
           NEW x, x = Search(window, budget, env)
    PROVE  SearchFinds(window, budget, env, x)
<1>1. PICK start \in Int, end \in Int :
        /\ start = ((window.start + Second - 1) \div Second) * Second
        /\ end = ((window.end - 1) \div Second) * Second
        /\ Whole(start) /\ window.start <= start /\ start < window.start + Second
        /\ Whole(end) /\ end < window.end /\ window.end <= end + Second
        /\ start <= end => start \in Seconds /\ end \in Seconds
  BY WholeSeconds
<1>2. window.start \in Int /\ window.end \in Int
  BY DEF Period
<1>3. Inside(runs, window) = Between(start, end)
  <2>1. ASSUME NEW r \in runs
        PROVE  (r.at >= window.start <=> r.at >= start) /\ (r.at < window.end <=> r.at <= end)
    <3>1. r.at \in Int /\ Whole(r.at)
      BY TimesAreNumbers DEF Repository
    <3>2. r.at < start => r.at + Second <= start
      BY <1>1, <3>1, SecondsApart
    <3>3. end < r.at => end + Second <= r.at
      BY <1>1, <3>1, SecondsApart
    <3> QED BY <1>1, <1>2, <3>1, <3>2, <3>3, LengthsAreNumbers
  <2> QED BY <2>1 DEF Inside, Between
<1>4. CASE end < start
  <2>1. x = [ok |-> TRUE, rows |-> {}, complete |-> TRUE, started |-> env.now, env |-> env]
    BY <1>1, <1>4 DEF Search
  <2>2. x \in Results
    BY <2>1 DEF Results, Envs
  <2>3. Between(start, end) = {}
    BY <1>4, TimesAreNumbers DEF Between, Repository
  <2>4. Newest({}, budget) = {}
    BY NewestIsPart
  <2> QED BY <1>3, <2>1, <2>2, <2>3, <2>4 DEF SearchFinds
<1>5. CASE ~(end < start)
  <2>1. PICK c \in Searches : c = [start |-> start, end |-> end, budget |-> budget, env |-> env]
    <3>1. start \in Seconds /\ end \in Seconds
      BY <1>1, <1>5
    <3> QED BY <3>1 DEF Searches
  <2>2. x = Walk(window)[c]
    BY <1>1, <1>5, <2>1 DEF Search
  <2>3. Within(window, c) /\ Span(window)
    BY <1>1, <1>2, <2>1 DEF Within, Span
  <2>4. Finds(c, x)
    BY <2>2, <2>3, WalkIsExact
  <2> QED BY <1>3, <2>1, <2>4 DEF Finds, SearchFinds
<1> QED BY <1>4, <1>5

---------------------------------------------------------------------------
(* The parts of a window, the newest first.                                 *)
Covers(window, parts) ==
    /\ Len(parts) \in Nat \ {0}
    /\ parts[1].end = window.end /\ parts[Len(parts)].start = window.start
    /\ \A i \in 1 .. Len(parts) : /\ parts[i].start \in Int /\ parts[i].end \in Int
                                  /\ window.start <= parts[i].start /\ parts[i].start < parts[i].end
                                  /\ parts[i].end <= window.end
    /\ \A i \in 1 .. Len(parts), j \in 1 .. Len(parts) :
         /\ j = i + 1 => parts[j].end = parts[i].start
         /\ i <= j => parts[j].start <= parts[i].start
    /\ \A i \in 1 .. Len(parts) :
         parts[i].cached => /\ parts[i].day \in Calendar /\ parts[i].start = parts[i].day * DayLength
                            /\ parts[i].end = parts[i].day * DayLength + DayLength

LEMMA DaysOfAWindow ==
    ASSUME NEW window, Period(window)
    PROVE  \E first, newest \in Int :
             /\ first = DayOf(window.start) /\ newest = DayOf(window.end - 1)
             /\ 0 <= first /\ first <= newest /\ newest < Days
             /\ first * DayLength <= window.start /\ window.start < first * DayLength + DayLength
             /\ newest * DayLength < window.end /\ window.end <= newest * DayLength + DayLength
<1>1. window.start \in Int /\ window.end \in Int /\ window.end - 1 \in Int
  BY DEF Period
<1>2. PICK first \in Int : /\ first = DayOf(window.start)
                           /\ first * DayLength <= window.start /\ window.start < first * DayLength + DayLength
  BY <1>1, DaysOf
<1>3. PICK newest \in Int : /\ newest = DayOf(window.end - 1)
                            /\ newest * DayLength <= window.end - 1 /\ window.end - 1 < newest * DayLength + DayLength
  BY <1>1, DaysOf
<1>4. first * DayLength \in Int /\ newest * DayLength \in Int /\ 0 * DayLength = 0
  BY MidnightsAreWhole, LengthsAreNumbers
<1>5. newest * DayLength < window.end /\ window.end <= newest * DayLength + DayLength
  BY <1>1, <1>3, <1>4, LengthsAreNumbers
<1>6. 0 <= first
  <2> SUFFICES ASSUME first < 0 PROVE FALSE
    OBVIOUS
  <2>1. first * DayLength + DayLength <= 0 * DayLength
    BY DaysInOrder
  <2> QED BY <1>1, <1>2, <1>4, <2>1, LengthsAreNumbers DEF Period
<1>7. first <= newest
  <2> SUFFICES ASSUME newest < first PROVE FALSE
    OBVIOUS
  <2>1. newest * DayLength + DayLength <= first * DayLength
    BY DaysInOrder
  <2> QED BY <1>1, <1>2, <1>4, <1>5, <2>1, LengthsAreNumbers DEF Period
<1>8. newest < Days
  <2>1. newest * DayLength < Days * DayLength
    BY <1>1, <1>4, <1>5, LengthsAreNumbers DEF Period
  <2> QED BY <2>1, DaysInOrder, LengthsAreNumbers
<1> QED BY <1>2, <1>3, <1>5, <1>6, <1>7, <1>8

(* The part of one day.                                                     *)
DayPart(window, d, start, end) ==
    /\ Period(window) /\ DayOf(window.start) <= d /\ d <= DayOf(window.end - 1)
    /\ start = Max({window.start, d * DayLength})
    /\ end = Min({window.end, (d + 1) * DayLength})

LEMMA PartOfADay ==
    ASSUME NEW window, NEW d \in Int, NEW start, NEW end, DayPart(window, d, start, end)
    PROVE  /\ d \in Calendar /\ start \in Int /\ end \in Int /\ (d + 1) * DayLength = d * DayLength + DayLength
           /\ window.start <= start /\ start < end /\ end <= window.end
           /\ start = IF d = DayOf(window.start) THEN window.start ELSE d * DayLength
           /\ end = IF d = DayOf(window.end - 1) THEN window.end ELSE d * DayLength + DayLength
           /\ d * DayLength >= window.start => start = d * DayLength
           /\ (d + 1) * DayLength <= window.end => end = d * DayLength + DayLength
<1> /\ Period(window) /\ DayOf(window.start) <= d /\ d <= DayOf(window.end - 1)
    /\ start = Max({window.start, d * DayLength})
    /\ end = Min({window.end, (d + 1) * DayLength})
  BY DEF DayPart
<1>1. window.start \in Int /\ window.end \in Int /\ window.start < window.end
  BY DEF Period
<1>2. PICK first \in Int, newest \in Int :
        /\ first = DayOf(window.start) /\ newest = DayOf(window.end - 1)
        /\ 0 <= first /\ first <= newest /\ newest < Days
        /\ first * DayLength <= window.start /\ window.start < first * DayLength + DayLength
        /\ newest * DayLength < window.end /\ window.end <= newest * DayLength + DayLength
  BY DaysOfAWindow
<1>3. PICK from \in Int : from = d * DayLength /\ (d + 1) * DayLength = from + DayLength
  BY MidnightsAreWhole, DaysInOrder
<1>4. d \in Calendar
  BY <1>2, LengthsAreNumbers DEF Calendar
<1>5. first < d => first * DayLength + DayLength <= from
  BY <1>2, <1>3, DaysInOrder
<1>6. d < newest => from + DayLength <= newest * DayLength
  BY <1>2, <1>3, DaysInOrder
<1>7. first * DayLength \in Int /\ newest * DayLength \in Int
  BY MidnightsAreWhole
<1>8. start \in Int /\ start >= window.start /\ start >= from /\ start \in {window.start, from}
  BY <1>1, <1>3, GreaterOf
<1>9. end \in Int /\ end <= window.end /\ end <= from + DayLength /\ end \in {window.end, from + DayLength}
  <2>1. from + DayLength \in Int
    BY LengthsAreNumbers
  <2> QED BY <1>1, <1>3, <2>1, LesserOf
<1>10. start = IF d = first THEN window.start ELSE from
  BY <1>1, <1>2, <1>3, <1>5, <1>7, <1>8, LengthsAreNumbers
<1>11. end = IF d = newest THEN window.end ELSE from + DayLength
  <2>1. d = newest => window.end <= from + DayLength
    BY <1>2, <1>3
  <2>2. d # newest => from + DayLength < window.end
    BY <1>1, <1>2, <1>3, <1>6, <1>7, LengthsAreNumbers
  <2> QED BY <1>1, <1>9, <2>1, <2>2, LengthsAreNumbers
<1>12. from >= window.start => start = from
  BY <1>1, <1>8
<1>13. from + DayLength <= window.end => end = from + DayLength
  BY <1>1, <1>9, LengthsAreNumbers
<1>14. start < end
  <2>1. from < window.end
    BY <1>1, <1>2, <1>3, <1>6, <1>7, LengthsAreNumbers
  <2>2. window.start < from + DayLength
    BY <1>1, <1>2, <1>3, <1>5, <1>7, LengthsAreNumbers
  <2> QED BY <1>1, <1>8, <1>9, <2>1, <2>2, LengthsAreNumbers
<1> QED BY <1>2, <1>3, <1>4, <1>8, <1>9, <1>10, <1>11, <1>12, <1>13, <1>14

LEMMA PartsCover ==
    ASSUME NEW window, Period(window), NEW refresh, NEW env, NEW parts, parts = Parts(window, refresh, env)
    PROVE  Covers(window, parts)
<1>1. PICK first \in Int, newest \in Int :
        /\ first = DayOf(window.start) /\ newest = DayOf(window.end - 1)
        /\ 0 <= first /\ first <= newest /\ newest < Days
  BY DaysOfAWindow
<1>2. PICK n \in Nat \ {0} : n = newest - first + 1
  BY <1>1
<1>3. PICK part : part = [i \in 1 .. n |-> LET d == newest - i + 1 IN
        [day |-> d,
         start |-> Max({window.start, d * DayLength}),
         end |-> Min({window.end, (d + 1) * DayLength}),
         cached |-> /\ ~refresh
                    /\ d * DayLength >= window.start /\ (d + 1) * DayLength <= window.end
                    /\ (d + 1) * DayLength <= Cutoff
                    /\ Fresh(d, env)]]
  OBVIOUS
<1>4. parts = part
  BY <1>1, <1>2, <1>3 DEF Parts
<1>5. Len(parts) = n
  BY <1>3, <1>4
<1>6. ASSUME NEW i \in 1 .. n
      PROVE  \E d \in Int :
               /\ d = newest - i + 1 /\ first <= d /\ d <= newest /\ parts[i].day = d
               /\ parts[i].start = Max({window.start, d * DayLength})
               /\ parts[i].end = Min({window.end, (d + 1) * DayLength})
               /\ parts[i].cached => d * DayLength >= window.start /\ (d + 1) * DayLength <= window.end
  <2>1. PICK d \in Int : d = newest - i + 1 /\ first <= d /\ d <= newest
    BY <1>1, <1>2
  <2>2. parts[i] = [day |-> d,
                    start |-> Max({window.start, d * DayLength}),
                    end |-> Min({window.end, (d + 1) * DayLength}),
                    cached |-> /\ ~refresh
                               /\ d * DayLength >= window.start /\ (d + 1) * DayLength <= window.end
                               /\ (d + 1) * DayLength <= Cutoff
                               /\ Fresh(d, env)]
    BY <1>3, <1>4, <2>1
  <2>3. /\ parts[i].day = d
        /\ parts[i].start = Max({window.start, d * DayLength})
        /\ parts[i].end = Min({window.end, (d + 1) * DayLength})
    BY <2>2
  <2>4. parts[i].cached => d * DayLength >= window.start /\ (d + 1) * DayLength <= window.end
    BY <2>2
  <2> QED BY <2>1, <2>3, <2>4
<1>7. ASSUME NEW i \in 1 .. n
      PROVE  \E d \in Int :
               /\ d = newest - i + 1 /\ parts[i].day = d /\ d \in Calendar
               /\ parts[i].start \in Int /\ parts[i].end \in Int
               /\ window.start <= parts[i].start /\ parts[i].start < parts[i].end /\ parts[i].end <= window.end
               /\ parts[i].start = IF d = first THEN window.start ELSE d * DayLength
               /\ parts[i].end = IF d = newest THEN window.end ELSE d * DayLength + DayLength
               /\ parts[i].cached => parts[i].start = d * DayLength /\ parts[i].end = d * DayLength + DayLength
  <2>1. PICK d \in Int :
          /\ d = newest - i + 1 /\ first <= d /\ d <= newest /\ parts[i].day = d
          /\ parts[i].start = Max({window.start, d * DayLength})
          /\ parts[i].end = Min({window.end, (d + 1) * DayLength})
          /\ parts[i].cached => d * DayLength >= window.start /\ (d + 1) * DayLength <= window.end
    BY <1>6
  <2>2. PICK start, end : start = parts[i].start /\ end = parts[i].end
    OBVIOUS
  <2>3. /\ d \in Calendar /\ start \in Int /\ end \in Int
        /\ window.start <= start /\ start < end /\ end <= window.end
        /\ start = IF d = first THEN window.start ELSE d * DayLength
        /\ end = IF d = newest THEN window.end ELSE d * DayLength + DayLength
        /\ d * DayLength >= window.start => start = d * DayLength
        /\ (d + 1) * DayLength <= window.end => end = d * DayLength + DayLength
    <3>1. DayPart(window, d, start, end)
      BY <1>1, <2>1, <2>2 DEF DayPart
    <3>2. /\ d \in Calendar /\ start \in Int /\ end \in Int
          /\ window.start <= start /\ start < end /\ end <= window.end
          /\ start = IF d = DayOf(window.start) THEN window.start ELSE d * DayLength
          /\ end = IF d = DayOf(window.end - 1) THEN window.end ELSE d * DayLength + DayLength
          /\ d * DayLength >= window.start => start = d * DayLength
          /\ (d + 1) * DayLength <= window.end => end = d * DayLength + DayLength
      BY <3>1, PartOfADay
    <3> QED BY <1>1, <3>2
  <2> QED BY <2>1, <2>2, <2>3
<1>8. parts[1].end = window.end
  <2>1. 1 \in 1 .. n
    BY <1>2
  <2> QED BY <1>7, <2>1
<1>9. parts[n].start = window.start
  <2>1. n \in 1 .. n /\ first = newest - n + 1
    BY <1>1, <1>2
  <2> QED BY <1>7, <2>1
<1>10. ASSUME NEW i \in 1 .. n, NEW j \in 1 .. n
       PROVE  (j = i + 1 => parts[j].end = parts[i].start) /\ (i <= j => parts[j].start <= parts[i].start)
  <2>1. PICK d \in Int :
          /\ d = newest - i + 1 /\ parts[i].start \in Int /\ window.start <= parts[i].start
          /\ parts[i].start = IF d = first THEN window.start ELSE d * DayLength
    BY <1>7
  <2>2. PICK e \in Int :
          /\ e = newest - j + 1 /\ parts[j].start \in Int
          /\ parts[j].start = IF e = first THEN window.start ELSE e * DayLength
          /\ parts[j].end = IF e = newest THEN window.end ELSE e * DayLength + DayLength
    BY <1>7
  <2>3. j = i + 1 => parts[j].end = parts[i].start
    <3> SUFFICES ASSUME j = i + 1 PROVE parts[j].end = parts[i].start
      OBVIOUS
    <3>1. e + 1 = d /\ e # newest /\ d # first
      BY <1>1, <1>2, <2>1, <2>2
    <3> QED BY <2>1, <2>2, <3>1, DaysInOrder
  <2>4. i <= j => parts[j].start <= parts[i].start
    <3> SUFFICES ASSUME i <= j PROVE parts[j].start <= parts[i].start
      OBVIOUS
    <3>1. e <= d /\ (e # first => d # first)
      BY <1>1, <1>2, <2>1, <2>2
    <3>2. e * DayLength <= d * DayLength
      BY <3>1, DaysInOrder
    <3> QED BY <2>1, <2>2, <3>1, <3>2
  <2> QED BY <2>3, <2>4
<1> QED BY <1>5, <1>7, <1>8, <1>9, <1>10, SMTT(40) DEF Covers

---------------------------------------------------------------------------
(* Gathering the parts.                                                     *)
Outcomes == [ok : BOOLEAN, rows : SUBSET Runs, env : Envs]
Full(limit, g) == limit > 0 /\ Cardinality(g.rows) >= limit
PartOf(parts, limit, g, next, sub, budget, found, saved) ==
    /\ next = NextHit(parts, g.i, g.env) /\ g.i < next /\ next <= Len(parts) + 1
    /\ sub = [start |-> parts[next - 1].start, end |-> parts[g.i].end] /\ Period(sub)
    /\ budget = IF limit > 0 THEN limit - Cardinality(g.rows) ELSE 0
    /\ found = Search(sub, budget, [g.env EXCEPT !.saved = {}])
    /\ saved = SaveDays(sub, found.rows, g.env.now, budget, found.env)
    /\ found.ok => found.rows = Newest(Inside(runs, sub), budget)
    /\ Filed(g.env.cache) => Filed(found.env.cache) /\ (found.ok => Filed(saved.cache))

LEMMA HitsAhead ==
    ASSUME NEW parts, Len(parts) \in Nat, NEW i \in 1 .. Len(parts), NEW env
    PROVE  NextHit(parts, i, env) \in i + 1 .. Len(parts) + 1
<1>1. PICK hits \in SUBSET Nat : /\ hits = {j \in i + 1 .. Len(parts) : Hit(parts[j], env)}
                                 /\ hits \subseteq i + 1 .. Len(parts)
  <2>1. {j \in i + 1 .. Len(parts) : Hit(parts[j], env)} \subseteq Nat
    OBVIOUS
  <2> QED BY <2>1
<1>2. NextHit(parts, i, env) = IF hits = {} THEN Len(parts) + 1 ELSE Min(hits)
  BY <1>1 DEF NextHit
<1>3. hits # {} => Min(hits) \in hits
  BY LeastOf
<1>4. Len(parts) + 1 \in i + 1 .. Len(parts) + 1 /\ \A j \in hits : j \in i + 1 .. Len(parts) + 1
  BY <1>1
<1> QED BY <1>2, <1>3, <1>4

LEMMA PartAsked ==
    ASSUME Repository, NEW window, Period(window), NEW parts, Covers(window, parts), NEW limit \in Nat,
           NEW g \in Gatherings(parts), g.i <= Len(parts), ~Full(limit, g)
    PROVE  \E next \in Nat, budget \in Nat, found \in Results, saved \in Envs :
             \E sub : PartOf(parts, limit, g, next, sub, budget, found, saved)
<1>1. g.i \in 1 .. Len(parts) /\ g.env \in Envs /\ Len(parts) \in Nat /\ Cardinality(g.rows) \in Nat
  BY RunsAreFinite DEF Gatherings, Covers
<1>2. PICK next \in Nat : next = NextHit(parts, g.i, g.env) /\ g.i < next /\ next <= Len(parts) + 1
  <2>1. NextHit(parts, g.i, g.env) \in g.i + 1 .. Len(parts) + 1
    BY <1>1, HitsAhead
  <2> QED BY <1>1, <2>1
<1>3. PICK sub : sub = [start |-> parts[next - 1].start, end |-> parts[g.i].end]
  OBVIOUS
<1>4. Period(sub)
  <2>1. PICK i \in 1 .. Len(parts), j \in 1 .. Len(parts) : i = g.i /\ j = next - 1 /\ i <= j
    BY <1>1, <1>2
  <2>2. /\ parts[j].start \in Int /\ parts[i].end \in Int /\ parts[i].start \in Int /\ parts[j].start <= parts[i].start
        /\ parts[i].start < parts[i].end /\ window.start <= parts[j].start /\ parts[i].end <= window.end
    <3>1. parts[j].start \in Int /\ window.start <= parts[j].start
      BY DEF Covers
    <3>2. parts[i].start \in Int /\ parts[i].end \in Int /\ parts[i].start < parts[i].end /\ parts[i].end <= window.end
      BY DEF Covers
    <3>3. parts[j].start <= parts[i].start
      BY <2>1 DEF Covers
    <3> QED BY <3>1, <3>2, <3>3
  <2>3. sub.start = parts[j].start /\ sub.end = parts[i].end
    BY <1>3, <2>1
  <2> QED BY <2>2, <2>3, LengthsAreNumbers, SMTT(40) DEF Period
<1>5. PICK budget \in Nat : budget = IF limit > 0 THEN limit - Cardinality(g.rows) ELSE 0
  BY <1>1 DEF Full
<1>6. PICK env \in Envs : env = [g.env EXCEPT !.saved = {}] /\ env.cache = g.env.cache
  <2>1. PICK old \in Envs : old = g.env
    BY <1>1
  <2>2. [old EXCEPT !.saved = {}] \in Envs /\ [old EXCEPT !.saved = {}].cache = old.cache
    BY DEF Envs
  <2> QED BY <2>1, <2>2
<1>7. PICK found : found = Search(sub, budget, env)
  OBVIOUS
<1>8. SearchFinds(sub, budget, env, found)
  BY <1>4, <1>7, SearchIsExact
<1>9. PICK saved : saved = SaveDays(sub, found.rows, g.env.now, budget, found.env)
  OBVIOUS
<1>10. found \in Results /\ found.rows \in SUBSET Runs /\ found.env \in Envs /\ g.env.now \in Nat
  BY <1>1, <1>8 DEF SearchFinds, Results, Envs
<1>11. saved \in Envs
  BY <1>9, <1>10, SavesAreFiles
<1>12. ASSUME Filed(g.env.cache) PROVE Filed(found.env.cache) /\ (found.ok => Filed(saved.cache))
  <2>1. Filed(found.env.cache)
    BY <1>6, <1>8, <1>12 DEF SearchFinds
  <2>2. ASSUME found.ok PROVE Filed(saved.cache)
    <3>1. found.rows = Newest(Inside(runs, sub), budget) /\ Span(sub)
      BY <1>4, <1>8, <2>2 DEF SearchFinds, Period, Span
    <3> QED BY <1>9, <1>10, <2>1, <3>1, SavesDays
  <2> QED BY <2>1, <2>2
<1>13. found.ok => found.rows = Newest(Inside(runs, sub), budget)
  BY <1>8, SMTT(40) DEF SearchFinds
<1>14. PartOf(parts, limit, g, next, sub, budget, found, saved)
  <2>1. found = Search(sub, budget, [g.env EXCEPT !.saved = {}])
    BY <1>6, <1>7, Zenon
  <2> QED BY <1>2, <1>3, <1>4, <1>5, <1>9, <1>12, <1>13, <2>1, Zenon DEF PartOf
<1>15. \E s : PartOf(parts, limit, g, next, s, budget, found, saved)
  BY <1>14
<1>16. found \in Results /\ saved \in Envs
  BY <1>10, <1>11
<1> QED BY <1>15, <1>16

LEMMA Reading ==
    ASSUME NEW window, NEW parts, Covers(window, parts), NEW g \in Gatherings(parts), g.i <= Len(parts),
           Hit(parts[g.i], g.env)
    PROVE  \E d \in Calendar :
             /\ d = parts[g.i].day /\ g.env.cache[d] \in DayFile /\ g.env.cache[d] # None
             /\ parts[g.i].start = d * DayLength /\ parts[g.i].end = d * DayLength + DayLength
             /\ Read(parts, g) = [i |-> g.i + 1, rows |-> g.rows \union g.env.cache[d].rows, env |-> g.env]
             /\ Read(parts, g) \in Gatherings(parts)
<1>1. g.i \in 1 .. Len(parts) /\ g.env \in Envs /\ g.rows \in SUBSET Runs /\ Len(parts) \in Nat
  BY DEF Gatherings, Covers
<1>2. parts[g.i].cached /\ g.env.cache[parts[g.i].day] # None
  BY DEF Hit, Fresh
<1>3. PICK d \in Calendar :
        /\ d = parts[g.i].day /\ parts[g.i].start = d * DayLength /\ parts[g.i].end = d * DayLength + DayLength
  BY <1>1, <1>2 DEF Covers
<1>4. g.env.cache[d] \in DayFile /\ g.env.cache[d] # None
  BY <1>1, <1>2, <1>3 DEF Envs
<1>5. PICK kept \in SUBSET Runs : kept = g.env.cache[d].rows
  BY <1>4 DEF DayFile
<1>6. Read(parts, g) = [i |-> g.i + 1, rows |-> g.rows \union kept, env |-> g.env]
  <2>1. g = [i |-> g.i, rows |-> g.rows, env |-> g.env]
    BY DEF Gatherings
  <2>2. Read(parts, g) = [g EXCEPT !.i = g.i + 1, !.rows = g.rows \union kept]
    BY <1>3, <1>5 DEF Read
  <2> QED BY <2>1, <2>2
<1>7. Read(parts, g) \in Gatherings(parts)
  BY <1>1, <1>6 DEF Gatherings
<1> QED BY <1>3, <1>4, <1>5, <1>6, <1>7, Zenon

(* What is gathered from a part, and what from those before it.             *)
LEMMA GatherEnds ==
    ASSUME NEW gather, NEW parts, NEW limit, NEW g, g.i > Len(parts) \/ Full(limit, g)
    PROVE  GatherFrom(gather, parts, limit, g) = [ok |-> TRUE, rows |-> Newest(g.rows, limit), env |-> g.env]
BY DEF GatherFrom, Full

LEMMA GatherReads ==
    ASSUME NEW gather, NEW parts, NEW limit, NEW g, ~(g.i > Len(parts) \/ Full(limit, g)), Hit(parts[g.i], g.env)
    PROVE  GatherFrom(gather, parts, limit, g) = gather[Read(parts, g)]
BY DEF GatherFrom, Full

LEMMA GatherAsks ==
    ASSUME NEW gather, NEW parts, NEW limit, NEW g, ~(g.i > Len(parts) \/ Full(limit, g)), ~Hit(parts[g.i], g.env),
           NEW next, NEW sub, NEW budget, NEW found, NEW saved,
           PartOf(parts, limit, g, next, sub, budget, found, saved)
    PROVE  GatherFrom(gather, parts, limit, g) =
               IF ~found.ok THEN [ok |-> FALSE, rows |-> {}, env |-> found.env]
               ELSE gather[[i |-> next, rows |-> g.rows \union found.rows, env |-> saved]]
<1>1. /\ next = NextHit(parts, g.i, g.env)
      /\ sub = [start |-> parts[next - 1].start, end |-> parts[g.i].end]
      /\ budget = IF limit > 0 THEN limit - Cardinality(g.rows) ELSE 0
      /\ found = Search(sub, budget, [g.env EXCEPT !.saved = {}])
      /\ saved = SaveDays(sub, found.rows, g.env.now, budget, found.env)
  BY DEF PartOf
<1>2. ~(g.i > Len(parts) \/ (limit > 0 /\ Cardinality(g.rows) >= limit))
  BY DEF Full
<1> QED BY <1>1, <1>2, Zenon DEF GatherFrom

LEMMA Extending ==
    ASSUME NEW parts, Len(parts) \in Nat, NEW limit, NEW g \in Gatherings(parts),
           NEW next \in Nat, NEW sub, NEW budget, NEW found \in Results, NEW saved \in Envs,
           PartOf(parts, limit, g, next, sub, budget, found, saved)
    PROVE  [i |-> next, rows |-> g.rows \union found.rows, env |-> saved] \in Gatherings(parts)
<1>1. next \in 1 .. Len(parts) + 1
  <2>1. g.i \in 1 .. Len(parts) + 1
    BY DEF Gatherings
  <2>2. g.i < next /\ next <= Len(parts) + 1
    BY DEF PartOf
  <2> QED BY <2>1, <2>2
<1>2. g.rows \union found.rows \in SUBSET Runs
  BY DEF Gatherings, Results
<1> QED BY <1>1, <1>2 DEF Gatherings

LEMMA GatheringsFindRows ==
    ASSUME Repository, NEW window, Period(window), NEW parts, Covers(window, parts), NEW limit \in Nat,
           NEW gather \in [Gatherings(parts) -> Outcomes], NEW g \in Gatherings(parts)
    PROVE  GatherFrom(gather, parts, limit, g) \in Outcomes
<1>1. PICK x : x = GatherFrom(gather, parts, limit, g)
  OBVIOUS
<1>2. Len(parts) \in Nat /\ g.i \in 1 .. Len(parts) + 1 /\ g.rows \in SUBSET Runs /\ g.env \in Envs
  BY DEF Covers, Gatherings
<1>3. CASE g.i > Len(parts) \/ Full(limit, g)
  <2>1. x = [ok |-> TRUE, rows |-> Newest(g.rows, limit), env |-> g.env]
    BY <1>1, <1>3, GatherEnds
  <2>2. Newest(g.rows, limit) \in SUBSET Runs
    BY <1>2, NewestIsPart
  <2> QED BY <1>1, <1>2, <2>1, <2>2 DEF Outcomes
<1>4. CASE ~(g.i > Len(parts) \/ Full(limit, g)) /\ Hit(parts[g.i], g.env)
  <2>1. x = gather[Read(parts, g)]
    BY <1>1, <1>4, GatherReads
  <2>2. Read(parts, g) \in Gatherings(parts)
    BY <1>2, <1>4, Reading
  <2> QED BY <1>1, <2>1, <2>2
<1>5. CASE ~(g.i > Len(parts) \/ Full(limit, g)) /\ ~Hit(parts[g.i], g.env)
  <2>1. PICK next \in Nat, budget \in Nat, found \in Results, saved \in Envs :
          \E sub : PartOf(parts, limit, g, next, sub, budget, found, saved)
    <3>1. g.i <= Len(parts) /\ ~Full(limit, g)
      BY <1>2, <1>5
    <3> QED BY <3>1, PartAsked
  <2>2. PICK sub : PartOf(parts, limit, g, next, sub, budget, found, saved)
    BY <2>1
  <2>3. x = IF ~found.ok THEN [ok |-> FALSE, rows |-> {}, env |-> found.env]
            ELSE gather[[i |-> next, rows |-> g.rows \union found.rows, env |-> saved]]
    BY <1>1, <1>5, <2>2, GatherAsks
  <2>4. [i |-> next, rows |-> g.rows \union found.rows, env |-> saved] \in Gatherings(parts)
    BY <1>2, <2>2, Extending
  <2>5. [ok |-> FALSE, rows |-> {}, env |-> found.env] \in Outcomes
    BY DEF Outcomes, Results
  <2> QED BY <1>1, <2>3, <2>4, <2>5
<1> QED BY <1>3, <1>4, <1>5

LEMMA GatheringsAskLess ==
    ASSUME Repository, NEW window, Period(window), NEW parts, Covers(window, parts), NEW limit \in Nat,
           NEW f, NEW h, NEW g \in Gatherings(parts),
           \A y \in Gatherings(parts) : y.i > g.i => f[y] = h[y]
    PROVE  GatherFrom(f, parts, limit, g) = GatherFrom(h, parts, limit, g)
<1>1. PICK x, z : x = GatherFrom(f, parts, limit, g) /\ z = GatherFrom(h, parts, limit, g)
  OBVIOUS
<1>2. Len(parts) \in Nat /\ g.i \in 1 .. Len(parts) + 1
  BY DEF Covers, Gatherings
<1>3. CASE g.i > Len(parts) \/ Full(limit, g)
  <2>1. x = [ok |-> TRUE, rows |-> Newest(g.rows, limit), env |-> g.env]
    BY <1>1, <1>3, GatherEnds
  <2>2. z = [ok |-> TRUE, rows |-> Newest(g.rows, limit), env |-> g.env]
    BY <1>1, <1>3, GatherEnds
  <2> QED BY <1>1, <2>1, <2>2
<1>4. CASE ~(g.i > Len(parts) \/ Full(limit, g)) /\ Hit(parts[g.i], g.env)
  <2>1. x = f[Read(parts, g)] /\ z = h[Read(parts, g)]
    BY <1>1, <1>4, GatherReads
  <2>2. Read(parts, g) \in Gatherings(parts) /\ Read(parts, g).i > g.i
    BY <1>2, <1>4, Reading
  <2> QED BY <1>1, <2>1, <2>2
<1>5. CASE ~(g.i > Len(parts) \/ Full(limit, g)) /\ ~Hit(parts[g.i], g.env)
  <2>1. PICK next \in Nat, budget \in Nat, found \in Results, saved \in Envs :
          \E sub : PartOf(parts, limit, g, next, sub, budget, found, saved)
    <3>1. g.i <= Len(parts) /\ ~Full(limit, g)
      BY <1>2, <1>5
    <3> QED BY <3>1, PartAsked
  <2>2. PICK sub : PartOf(parts, limit, g, next, sub, budget, found, saved)
    BY <2>1
  <2>3. PICK y \in Gatherings(parts) : y = [i |-> next, rows |-> g.rows \union found.rows, env |-> saved]
    BY <1>2, <2>2, Extending
  <2>4. x = IF ~found.ok THEN [ok |-> FALSE, rows |-> {}, env |-> found.env] ELSE f[y]
    BY <1>1, <1>5, <2>2, <2>3, GatherAsks
  <2>5. z = IF ~found.ok THEN [ok |-> FALSE, rows |-> {}, env |-> found.env] ELSE h[y]
    BY <1>1, <1>5, <2>2, <2>3, GatherAsks, SMTT(40)
  <2>6. y.i > g.i
    BY <1>2, <2>2, <2>3, Zenon DEF PartOf
  <2> QED BY <1>1, <2>3, <2>4, <2>5, <2>6
<1> QED BY <1>3, <1>4, <1>5

(* Gather is what its recursion says.                                       *)
Defines(gather, parts, limit) ==
    /\ gather = [g \in Gatherings(parts) |-> GatherFrom(gather, parts, limit, g)]
    /\ \A env : Gather(parts, limit, env) = gather[[i |-> 1, rows |-> {}, env |-> env]]

LEMMA GatherIsDefined ==
    ASSUME Repository, NEW window, Period(window), NEW parts, Covers(window, parts), NEW limit \in Nat
    PROVE  \E gather \in [Gatherings(parts) -> Outcomes] : Defines(gather, parts, limit)
<1> DEFINE D == Gatherings(parts)
           Def(f) == f = [g \in D |-> GatherFrom(f, parts, limit, g)]
           whole == CHOOSE f : Def(f)
<1>1. \A env : Gather(parts, limit, env) = whole[[i |-> 1, rows |-> {}, env |-> env]]
  BY DEF Gather
<1>2. PICK G : G = [f \in [D -> Outcomes] |-> [g \in D |-> GatherFrom(f, parts, limit, g)]]
  OBVIOUS
<1>3. \A f \in [D -> Outcomes] : G[f] = [g \in D |-> GatherFrom(f, parts, limit, g)]
  BY <1>2
<1>4. G \in [[D -> Outcomes] -> [D -> Outcomes]]
  <2>1. \A f \in [D -> Outcomes] : [g \in D |-> GatherFrom(f, parts, limit, g)] \in [D -> Outcomes]
    BY GatheringsFindRows
  <2> QED BY <1>2, <2>1
<1>5. PICK N \in Nat : N = Len(parts)
  BY DEF Covers
<1>6. \A g \in D : g.i \in 1 .. N + 1 /\ N + 1 - g.i \in 0 .. N
  BY <1>5 DEF Gatherings
<1>7. PICK rank \in [D -> 0 .. N] : rank = [g \in D |-> N + 1 - g.i]
  <2>1. [g \in D |-> N + 1 - g.i] \in [D -> 0 .. N]
    BY <1>6
  <2> QED BY <2>1
<1>8. \A x, y \in D : rank[y] < rank[x] <=> y.i > x.i
  BY <1>6, <1>7
<1>9. ASSUME NEW f, NEW h, NEW g \in D, \A y \in D : rank[y] < rank[g] => f[y] = h[y]
      PROVE  GatherFrom(f, parts, limit, g) = GatherFrom(h, parts, limit, g)
  <2>1. \A y \in Gatherings(parts) : y.i > g.i => f[y] = h[y]
    BY <1>8, <1>9
  <2> QED BY <2>1, GatheringsAskLess
<1>10. PICK f \in [D -> Outcomes] : f = G[f]
  <2>1. ASSUME NEW f \in [D -> Outcomes], NEW h \in [D -> Outcomes], NEW g \in D,
               \A y \in D : rank[y] < rank[g] => f[y] = h[y]
        PROVE  G[f][g] = G[h][g]
    <3>1. GatherFrom(f, parts, limit, g) = GatherFrom(h, parts, limit, g)
      BY <1>9, <2>1
    <3>2. G[f][g] = GatherFrom(f, parts, limit, g)
      BY <1>3
    <3>3. G[h][g] = GatherFrom(h, parts, limit, g)
      BY <1>3
    <3> QED BY <3>1, <3>2, <3>3
  <2>2. Outcomes # {}
    <3>1. PICK result : result \in Results
      BY SomeResult
    <3>2. [ok |-> result.ok, rows |-> result.rows, env |-> result.env] \in Outcomes
      BY <3>1 DEF Results, Outcomes
    <3> QED BY <3>2
  <2> HIDE DEF D
  <2>3. Grounded(D, Outcomes, N, rank, G)
    BY <1>4, <2>1, <2>2 DEF Grounded
  <2> QED BY <2>3, RecursionIsDefined
<1>11. Def(f)
  BY <1>3, <1>10
<1>12. Def(whole)
  <2> HIDE DEF Def
  <2> QED BY <1>11
<1> HIDE DEF whole, D
<1>13. whole = f
  <2>1. f = [g \in D |-> f[g]] /\ whole = [g \in D |-> whole[g]]
    BY <1>12
  <2>2. rank \in [D -> Nat]
    BY <1>7
  <2>3. ASSUME NEW g \in D, \A y \in D : rank[y] < rank[g] => f[y] = whole[y]
        PROVE  f[g] = whole[g]
    <3>1. GatherFrom(f, parts, limit, g) = GatherFrom(whole, parts, limit, g)
      BY <1>9, <2>3
    <3>2. f[g] = GatherFrom(f, parts, limit, g)
      BY <1>11
    <3>3. whole[g] = GatherFrom(whole, parts, limit, g)
      BY <1>12
    <3> QED BY <3>1, <3>2, <3>3
  <2> HIDE DEF Def
  <2> QED BY <2>1, <2>2, <2>3, RecursionIsUnique
<1> QED BY <1>1, <1>11, <1>13 DEF D, Defines

---------------------------------------------------------------------------
(* What has been gathered is the newest of the parts behind it.             *)
Edge(window, parts, i) == IF i <= Len(parts) THEN parts[i].end ELSE window.start
Since(window, parts, i) == Inside(runs, [start |-> Edge(window, parts, i), end |-> window.end])
Gathers(window, parts, limit, g) ==
    /\ Filed(g.env.cache)
    /\ g.rows \subseteq Since(window, parts, g.i)
    /\ Newest(g.rows, limit) = Newest(Since(window, parts, g.i), limit)
    /\ ~Full(limit, g) => g.rows = Since(window, parts, g.i)
Gathered(window, limit, x) ==
    /\ x \in Outcomes /\ Filed(x.env.cache)
    /\ x.ok => x.rows = Newest(Inside(runs, window), limit)

LEMMA WindowsMeet ==
    ASSUME Repository, NEW from \in Int, NEW mid \in Int, NEW to \in Int, from <= mid, mid <= to
    PROVE  \E A, B \in SUBSET Runs :
             /\ A = Inside(runs, [start |-> mid, end |-> to]) /\ B = Inside(runs, [start |-> from, end |-> mid])
             /\ Before(A, B) /\ A \union B = Inside(runs, [start |-> from, end |-> to])
<1>1. PICK A, B : A = Inside(runs, [start |-> mid, end |-> to]) /\ B = Inside(runs, [start |-> from, end |-> mid])
  OBVIOUS
<1>2. A = {r \in runs : r.at >= mid /\ r.at < to} /\ B = {r \in runs : r.at >= from /\ r.at < mid}
  BY <1>1 DEF Inside
<1>3. \A r \in runs : r \in Runs /\ r.at \in Int
  BY TimesAreNumbers DEF Repository
<1>4. Before(A, B)
  BY <1>2, <1>3 DEF Before, Newer
<1>5. A \union B = {r \in runs : r.at >= from /\ r.at < to}
  BY <1>2, <1>3
<1>6. A \in SUBSET Runs /\ B \in SUBSET Runs
  BY <1>2, <1>3
<1> QED BY <1>1, <1>4, <1>5, <1>6 DEF Inside

LEMMA EdgesDescend ==
    ASSUME NEW window, Period(window), NEW parts, Covers(window, parts), NEW i \in 1 .. Len(parts)
    PROVE  /\ Edge(window, parts, 1) = window.end
           /\ Edge(window, parts, i) = parts[i].end /\ parts[i].end \in Int /\ parts[i].end <= window.end
           /\ \A next \in Nat : i < next /\ next <= Len(parts) + 1 =>
                /\ Edge(window, parts, next) = parts[next - 1].start /\ parts[next - 1].start \in Int
                /\ window.start <= parts[next - 1].start /\ parts[next - 1].start <= parts[i].end
<1>1. Len(parts) \in Nat \ {0} /\ parts[1].end = window.end /\ parts[Len(parts)].start = window.start
  BY DEF Covers
<1>2. parts[i].end \in Int /\ parts[i].end <= window.end /\ parts[i].start \in Int /\ parts[i].start < parts[i].end
  BY DEF Covers
<1>3. Edge(window, parts, 1) = window.end /\ Edge(window, parts, i) = parts[i].end
  BY <1>1 DEF Edge
<1>4. ASSUME NEW next \in Nat, i < next, next <= Len(parts) + 1
      PROVE  /\ Edge(window, parts, next) = parts[next - 1].start /\ parts[next - 1].start \in Int
             /\ window.start <= parts[next - 1].start /\ parts[next - 1].start <= parts[i].end
  <2>1. PICK j \in 1 .. Len(parts) : j = next - 1 /\ i <= j
    BY <1>1, <1>4
  <2>2. parts[j].start \in Int /\ window.start <= parts[j].start
    BY DEF Covers
  <2>3. parts[j].start <= parts[i].start
    BY <2>1 DEF Covers
  <2>4. Edge(window, parts, next) = parts[j].start
    <3>1. CASE next <= Len(parts)
      <4>1. next \in 1 .. Len(parts) /\ next = j + 1
        BY <1>1, <1>4, <2>1, <3>1
      <4>2. parts[next].end = parts[j].start
        BY <4>1 DEF Covers
      <4> QED BY <3>1, <4>2 DEF Edge
    <3>2. CASE ~(next <= Len(parts))
      <4>1. j = Len(parts)
        BY <1>1, <1>4, <2>1, <3>2
      <4> QED BY <1>1, <3>2, <4>1 DEF Edge
    <3> QED BY <3>1, <3>2
  <2> QED BY <1>2, <2>1, <2>2, <2>3, <2>4
<1> QED BY <1>2, <1>3, <1>4

(* Enough has been gathered, or everything.                                 *)
LEMMA EndsExactly ==
    ASSUME Repository, NEW window, Period(window), NEW parts, Covers(window, parts), NEW limit \in Nat,
           NEW g \in Gatherings(parts), Gathers(window, parts, limit, g), g.i > Len(parts) \/ Full(limit, g)
    PROVE  Newest(g.rows, limit) = Newest(Inside(runs, window), limit)
<1>1. Len(parts) \in Nat /\ g.i \in 1 .. Len(parts) + 1 /\ window.start \in Int /\ window.end \in Int
  BY DEF Covers, Gatherings, Period
<1>2. Newest(g.rows, limit) = Newest(Since(window, parts, g.i), limit) /\ g.rows \subseteq Since(window, parts, g.i)
  BY DEF Gathers
<1>3. CASE g.i > Len(parts)
  <2>1. Edge(window, parts, g.i) = window.start
    BY <1>1, <1>3 DEF Edge
  <2>2. Since(window, parts, g.i) = Inside(runs, window)
    BY <2>1 DEF Since, Inside
  <2> QED BY <1>2, <2>2
<1>4. CASE ~(g.i > Len(parts))
  <2>1. PICK i \in 1 .. Len(parts) : i = g.i
    BY <1>1, <1>4
  <2>2. PICK mid \in Int : mid = Edge(window, parts, i) /\ window.start <= mid /\ mid <= window.end
    <3>1. Edge(window, parts, i) = parts[i].end /\ parts[i].end \in Int /\ parts[i].end <= window.end
      BY EdgesDescend
    <3>2. window.start <= parts[i].start /\ parts[i].start < parts[i].end /\ parts[i].start \in Int
      BY DEF Covers
    <3> QED BY <1>1, <3>1, <3>2
  <2>3. PICK A \in SUBSET Runs, B \in SUBSET Runs :
          /\ A = Inside(runs, [start |-> mid, end |-> window.end])
          /\ Before(A, B) /\ A \union B = Inside(runs, [start |-> window.start, end |-> window.end])
    <3>1. PICK from \in Int, to \in Int : from = window.start /\ to = window.end /\ from <= mid /\ mid <= to
      BY <1>1, <2>2
    <3>2. \E A, B \in SUBSET Runs :
            /\ A = Inside(runs, [start |-> mid, end |-> to]) /\ B = Inside(runs, [start |-> from, end |-> mid])
            /\ Before(A, B) /\ A \union B = Inside(runs, [start |-> from, end |-> to])
      BY <3>1, WindowsMeet
    <3> QED BY <3>1, <3>2
  <2>4. A = Since(window, parts, g.i) /\ A \union B = Inside(runs, window)
    BY <2>1, <2>2, <2>3 DEF Since, Inside
  <2>5. IsFiniteSet(A) /\ IsFiniteSet(B)
    BY RunsAreFinite
  <2>6. limit # 0 /\ limit <= Cardinality(A)
    <3>1. limit > 0 /\ Cardinality(g.rows) >= limit
      BY <1>4 DEF Full
    <3>2. Cardinality(g.rows) <= Cardinality(A) /\ Cardinality(g.rows) \in Nat /\ Cardinality(A) \in Nat
      BY <1>2, <2>4, <2>5, Fewer
    <3> QED BY <3>1, <3>2
  <2>7. Newest(A \union B, limit) = Newest(A, limit)
    BY <2>3, <2>5, <2>6, NewestOfNewer
  <2> QED BY <1>2, <2>4, <2>7
<1> QED BY <1>3, <1>4

(* A day of the cache is what its part is.                                  *)
LEMMA ReadsExactly ==
    ASSUME Repository, NEW window, Period(window), NEW parts, Covers(window, parts), NEW limit \in Nat,
           NEW g \in Gatherings(parts), Gathers(window, parts, limit, g),
           g.i <= Len(parts), ~Full(limit, g), Hit(parts[g.i], g.env)
    PROVE  Gathers(window, parts, limit, Read(parts, g))
<1>1. Len(parts) \in Nat /\ g.i \in 1 .. Len(parts) /\ window.start \in Int /\ window.end \in Int
  BY DEF Covers, Gatherings, Period
<1>2. PICK d \in Calendar :
        /\ d = parts[g.i].day /\ g.env.cache[d] # None
        /\ parts[g.i].start = d * DayLength /\ parts[g.i].end = d * DayLength + DayLength
        /\ Read(parts, g) = [i |-> g.i + 1, rows |-> g.rows \union g.env.cache[d].rows, env |-> g.env]
  BY Reading, SMTT(40)
<1>3. PICK from \in Int, to \in Int :
        /\ from = Edge(window, parts, g.i + 1) /\ to = Edge(window, parts, g.i) /\ from <= to /\ to <= window.end
        /\ from = d * DayLength /\ to = d * DayLength + DayLength
  <2>1. Edge(window, parts, g.i) = parts[g.i].end /\ parts[g.i].end \in Int /\ parts[g.i].end <= window.end
    BY <1>1, EdgesDescend
  <2>2. PICK next \in Nat : next = g.i + 1 /\ next - 1 = g.i /\ g.i < next /\ next <= Len(parts) + 1
    BY <1>1
  <2>3. /\ Edge(window, parts, next) = parts[next - 1].start /\ parts[next - 1].start \in Int
        /\ parts[next - 1].start <= parts[g.i].end
    BY <1>1, <2>2, EdgesDescend
  <2> QED BY <1>2, <2>1, <2>2, <2>3
<1>4. PICK A \in SUBSET Runs, B \in SUBSET Runs :
        /\ A = Inside(runs, [start |-> to, end |-> window.end]) /\ B = Inside(runs, [start |-> from, end |-> to])
        /\ A \union B = Inside(runs, [start |-> from, end |-> window.end])
  BY <1>1, <1>3, WindowsMeet, SMTT(40)
<1>5. g.env.cache[d].rows = B
  <2>1. g.env.cache[d].rows = DayRuns(d)
    BY <1>2 DEF Gathers, Filed
  <2>2. ASSUME NEW r \in runs PROVE DayOf(r.at) = d <=> r.at >= from /\ r.at < to
    <3>1. r.at \in Int /\ d \in Int
      BY TimesAreNumbers, LengthsAreNumbers DEF Repository, Calendar
    <3>2. ASSUME DayOf(r.at) = d PROVE r.at >= from /\ r.at < to
      <4>1. DayOf(r.at) * DayLength <= r.at /\ r.at < DayOf(r.at) * DayLength + DayLength
        BY <3>1, DaysOf
      <4> QED BY <1>3, <3>2, <4>1
    <3>3. ASSUME r.at >= from, r.at < to PROVE DayOf(r.at) = d
      <4>1. d * DayLength <= r.at /\ r.at < d * DayLength + DayLength
        BY <1>3, <3>1, <3>3
      <4> QED BY <3>1, <4>1, DaysOf
    <3> QED BY <3>2, <3>3
  <2> QED BY <1>4, <2>1, <2>2 DEF DayRuns, Inside
<1>6. g.rows = A
  BY <1>3, <1>4 DEF Gathers, Since
<1>7. PICK y : y = Read(parts, g)
  OBVIOUS
<1>8. y.i = g.i + 1 /\ y.rows = A \union B /\ y.env = g.env
  BY <1>2, <1>5, <1>6, <1>7
<1>9. y.rows = Since(window, parts, y.i)
  BY <1>3, <1>4, <1>8 DEF Since
<1>10. Gathers(window, parts, limit, y)
  BY <1>8, <1>9 DEF Gathers
<1> QED BY <1>7, <1>10

(* Neither does a search of the parts up to the next such day.              *)
LEMMA AsksExactly ==
    ASSUME Repository, NEW window, Period(window), NEW parts, Covers(window, parts), NEW limit \in Nat,
           NEW g \in Gatherings(parts), Gathers(window, parts, limit, g), g.i <= Len(parts), ~Full(limit, g),
           NEW next \in Nat, NEW sub, NEW budget \in Nat, NEW found \in Results, NEW saved \in Envs,
           PartOf(parts, limit, g, next, sub, budget, found, saved), found.ok
    PROVE  Gathers(window, parts, limit, [i |-> next, rows |-> g.rows \union found.rows, env |-> saved])
<1>1. Len(parts) \in Nat /\ g.i \in 1 .. Len(parts) /\ window.start \in Int /\ window.end \in Int
  BY SMTT(40) DEF Covers, Gatherings, Period
<1>2. /\ g.i < next /\ next <= Len(parts) + 1
      /\ sub = [start |-> parts[next - 1].start, end |-> parts[g.i].end]
      /\ budget = IF limit > 0 THEN limit - Cardinality(g.rows) ELSE 0
      /\ found.rows = Newest(Inside(runs, sub), budget)
      /\ Filed(saved.cache)
  BY Zenon DEF PartOf, Gathers
<1>3. PICK from \in Int, to \in Int :
        /\ from = Edge(window, parts, next) /\ to = Edge(window, parts, g.i) /\ from <= to /\ to <= window.end
        /\ sub = [start |-> from, end |-> to]
  <2>1. Edge(window, parts, g.i) = parts[g.i].end /\ parts[g.i].end \in Int /\ parts[g.i].end <= window.end
    BY <1>1, EdgesDescend
  <2>2. /\ Edge(window, parts, next) = parts[next - 1].start /\ parts[next - 1].start \in Int
        /\ parts[next - 1].start <= parts[g.i].end
    BY <1>1, <1>2, EdgesDescend
  <2> QED BY <1>2, <2>1, <2>2
<1>4. PICK A \in SUBSET Runs, B \in SUBSET Runs :
        /\ A = Inside(runs, [start |-> to, end |-> window.end]) /\ B = Inside(runs, [start |-> from, end |-> to])
        /\ Before(A, B) /\ A \union B = Inside(runs, [start |-> from, end |-> window.end])
  BY <1>1, <1>3, WindowsMeet
<1>5. g.rows = A /\ found.rows = Newest(B, budget) /\ IsFiniteSet(A) /\ IsFiniteSet(B)
  BY <1>2, <1>3, <1>4, RunsAreFinite DEF Gathers, Since
<1>6. PICK whole, rows : whole = A \union B /\ rows = A \union found.rows
  OBVIOUS
<1>7. rows \subseteq whole
  BY <1>5, <1>6, NewestIsPart
<1>8. Cardinality(A) \in Nat /\ Cardinality(B) \in Nat /\ (limit > 0 => Cardinality(A) < limit)
  BY <1>5, RunsAreFinite DEF Full
<1>9. Newest(rows, limit) = Newest(whole, limit)
  <2>1. CASE limit = 0
    <3>1. found.rows = B
      BY <1>2, <1>5, <2>1, NewestIsPart
    <3> QED BY <1>6, <3>1
  <2>2. CASE limit # 0
    <3>1. budget = limit - Cardinality(A) /\ Cardinality(A) < limit
      BY <1>2, <1>5, <1>8, <2>2
    <3>2. Newest(A \union Newest(B, limit - Cardinality(A)), limit) = Newest(A \union B, limit)
      BY <1>4, <1>5, <3>1, NewestOfBoth
    <3> QED BY <1>5, <1>6, <3>1, <3>2
  <2> QED BY <2>1, <2>2
<1>10. ASSUME ~(limit > 0 /\ Cardinality(rows) >= limit) PROVE rows = whole
  <2>1. CASE limit = 0
    <3>1. found.rows = B
      BY <1>2, <1>5, <2>1, NewestIsPart
    <3> QED BY <1>6, <3>1
  <2>2. CASE limit # 0
    <3>1. IsFiniteSet(found.rows) /\ found.rows \subseteq B /\ Before(A, found.rows) /\ found.rows \subseteq Runs
      <4>1. found.rows \subseteq B
        BY <1>5, NewestIsPart
      <4> QED BY <1>4, <4>1, RunsAreFinite DEF Before
    <3>2. Cardinality(A \union found.rows) = Cardinality(A) + Cardinality(found.rows)
      BY <1>4, <1>5, <3>1, AheadOfBoth, Zenon
    <3>3. Cardinality(found.rows) \in Nat /\ Cardinality(rows) \in Nat
      BY <1>4, <1>6, <3>1, RunsAreFinite
    <3>4. Cardinality(found.rows) < budget
      <4>1. budget = limit - Cardinality(A)
        BY <1>2, <1>5, <2>2
      <4>2. Cardinality(rows) = Cardinality(A) + Cardinality(found.rows) /\ Cardinality(rows) < limit
        BY <1>6, <1>10, <2>2, <3>2, <3>3
      <4> QED BY <1>8, <3>3, <4>1, <4>2
    <3>5. found.rows = B
      <4>1. budget # 0 => Cardinality(Newest(B, budget)) < budget
        BY <1>5, <3>4
      <4> QED BY <1>4, <1>5, <4>1, NewestIsAll
    <3> QED BY <1>6, <3>5
  <2> QED BY <2>1, <2>2
<1>11. PICK y : y = [i |-> next, rows |-> g.rows \union found.rows, env |-> saved]
  OBVIOUS
<1>12. y.i = next /\ y.rows = rows /\ y.env = saved
  BY <1>5, <1>6, <1>11
<1>13. Since(window, parts, y.i) = whole
  BY <1>3, <1>4, <1>6, <1>12 DEF Since
<1>14. Gathers(window, parts, limit, y)
  BY <1>2, <1>7, <1>9, <1>10, <1>12, <1>13 DEF Gathers, Full
<1> QED BY <1>11, <1>14

LEMMA GatherIsExact ==
    ASSUME Repository, NEW window, Period(window), NEW parts, Covers(window, parts), NEW limit \in Nat,
           NEW env \in Envs, Filed(env.cache)
    PROVE  Gathered(window, limit, Gather(parts, limit, env))
<1>1. PICK gather \in [Gatherings(parts) -> Outcomes] :
        /\ gather = [g \in Gatherings(parts) |-> GatherFrom(gather, parts, limit, g)]
        /\ \A e : Gather(parts, limit, e) = gather[[i |-> 1, rows |-> {}, env |-> e]]
  <2>1. PICK gather \in [Gatherings(parts) -> Outcomes] : Defines(gather, parts, limit)
    BY GatherIsDefined
  <2> QED BY <2>1 DEF Defines
<1>2. PICK N \in Nat \ {0} : N = Len(parts)
  BY DEF Covers
<1>3. \A g \in Gatherings(parts) : g.i \in 1 .. N + 1 /\ g.env \in Envs
  BY <1>2 DEF Gatherings
<1> DEFINE P == {n \in Nat : \A g \in Gatherings(parts) :
                    g.i + n > N + 1 /\ Gathers(window, parts, limit, g) => Gathered(window, limit, gather[g])}
<1>4. 0 \in P
  BY <1>3
<1>5. ASSUME NEW n \in Nat, n \in P PROVE n + 1 \in P
  <2> SUFFICES ASSUME NEW g \in Gatherings(parts), g.i + (n + 1) > N + 1, Gathers(window, parts, limit, g)
               PROVE  Gathered(window, limit, gather[g])
    OBVIOUS
  <2>1. PICK x \in Outcomes : x = gather[g] /\ x = GatherFrom(gather, parts, limit, g)
    BY <1>1
  <2>2. ASSUME NEW y \in Gatherings(parts), y.i > g.i, Gathers(window, parts, limit, y)
        PROVE  Gathered(window, limit, gather[y])
    <3>1. y.i + n > N + 1
      BY <1>3, <2>2
    <3> QED BY <1>5, <2>2, <3>1
  <2>3. CASE g.i > Len(parts) \/ Full(limit, g)
    <3>1. x = [ok |-> TRUE, rows |-> Newest(g.rows, limit), env |-> g.env]
      BY <2>1, <2>3, GatherEnds
    <3>2. Newest(g.rows, limit) = Newest(Inside(runs, window), limit)
      BY <2>3, EndsExactly
    <3> QED BY <2>1, <3>1, <3>2 DEF Gathered, Gathers
  <2>4. CASE ~(g.i > Len(parts) \/ Full(limit, g)) /\ Hit(parts[g.i], g.env)
    <3>1. g.i <= Len(parts) /\ ~Full(limit, g)
      BY <1>2, <1>3, <2>4
    <3>2. x = gather[Read(parts, g)]
      BY <2>1, <2>4, GatherReads
    <3>3. Gathers(window, parts, limit, Read(parts, g))
      BY <2>4, <3>1, ReadsExactly
    <3>4. Read(parts, g) \in Gatherings(parts) /\ Read(parts, g).i > g.i
      BY <1>3, <2>4, <3>1, Reading
    <3> QED BY <2>1, <2>2, <3>2, <3>3, <3>4
  <2>5. CASE ~(g.i > Len(parts) \/ Full(limit, g)) /\ ~Hit(parts[g.i], g.env)
    <3>1. g.i <= Len(parts) /\ ~Full(limit, g)
      BY <1>2, <1>3, <2>5
    <3>2. PICK next \in Nat, budget \in Nat, found \in Results, saved \in Envs :
            \E sub : PartOf(parts, limit, g, next, sub, budget, found, saved)
      BY <3>1, PartAsked
    <3>3. PICK sub : PartOf(parts, limit, g, next, sub, budget, found, saved)
      BY <3>2
    <3>4. PICK y \in Gatherings(parts) : y = [i |-> next, rows |-> g.rows \union found.rows, env |-> saved]
      BY <1>2, <3>3, Extending
    <3>5. x = IF ~found.ok THEN [ok |-> FALSE, rows |-> {}, env |-> found.env] ELSE gather[y]
      BY <2>1, <2>5, <3>3, <3>4, GatherAsks
    <3>6. CASE ~found.ok
      <4>1. x = [ok |-> FALSE, rows |-> {}, env |-> found.env]
        BY <3>5, <3>6
      <4>2. Filed(found.env.cache)
        BY <3>3, Zenon DEF PartOf, Gathers
      <4> QED BY <2>1, <4>1, <4>2 DEF Gathered
    <3>7. CASE found.ok
      <4>1. Gathers(window, parts, limit, y)
        BY <3>1, <3>3, <3>4, <3>7, AsksExactly, SMTT(40)
      <4>2. y.i > g.i
        BY <1>3, <3>3, <3>4, Zenon DEF PartOf
      <4> QED BY <2>1, <2>2, <3>5, <3>7, <4>1, <4>2
    <3> QED BY <3>6, <3>7
  <2> QED BY <2>3, <2>4, <2>5
<1>6. \A n \in Nat : n \in P
  <2> HIDE DEF P
  <2> QED BY <1>4, <1>5, Counting
<1>7. PICK g \in Gatherings(parts) : g = [i |-> 1, rows |-> {}, env |-> env]
  <2>1. 1 \in 1 .. Len(parts) + 1
    BY <1>2
  <2> QED BY <2>1 DEF Gatherings
<1>8. Gathers(window, parts, limit, g)
  <2>1. Since(window, parts, 1) = {}
    <3>1. 1 \in 1 .. Len(parts)
      BY <1>2
    <3>2. Edge(window, parts, 1) = window.end
      BY <3>1, EdgesDescend
    <3>3. \A r \in runs : ~(r.at >= window.end /\ r.at < window.end)
      BY TimesAreNumbers DEF Repository, Period
    <3> QED BY <3>2, <3>3 DEF Since, Inside
  <2> QED BY <1>7, <2>1 DEF Gathers
<1>9. N + 1 \in P /\ g.i + (N + 1) > N + 1
  BY <1>6, <1>7
<1> QED BY <1>1, <1>7, <1>8, <1>9

---------------------------------------------------------------------------
(* Every listing of any windows and limits, with any files and failures.    *)
ListingInv ==
    /\ runs \subseteq Runs
    /\ dayFiles \in [Calendar -> DayFile \union {None}] /\ clock \in Nat
    /\ Filed(dayFiles)
    /\ NewestAreListed /\ OmissionsAreReported

LEMMA Pruning ==
    ASSUME NEW env \in Envs, Filed(env.cache)
    PROVE  Pruned(env) \in Envs /\ Filed(Pruned(env).cache)
<1>1. PICK old \in [Calendar -> DayFile \union {None}] : old = env.cache
  BY DEF Envs
<1>2. PICK cache : cache = [d \in Calendar |-> IF old[d] # None /\ env.now - old[d].written >= TTL THEN None ELSE old[d]]
  OBVIOUS
<1>3. cache \in [Calendar -> DayFile \union {None}] /\ \A d \in Calendar : cache[d] # None => cache[d] = old[d]
  <2>1. ASSUME NEW d \in Calendar PROVE cache[d] \in {None, old[d]} /\ old[d] \in DayFile \union {None}
    BY <1>2
  <2>2. cache = [d \in Calendar |-> cache[d]]
    BY <1>2
  <2> QED BY <2>1, <2>2
<1>4. Pruned(env) = [env EXCEPT !.cache = cache]
  <2>1. DOMAIN old = Calendar
    BY <1>1
  <2>2. Pruned(env) = [env EXCEPT !.cache = [d \in DOMAIN old |->
                          IF old[d] # None /\ env.now - old[d].written >= TTL THEN None ELSE old[d]]]
    BY <1>1 DEF Pruned
  <2> QED BY <1>2, <2>1, <2>2
<1>5. Pruned(env) \in Envs /\ Pruned(env).cache = cache
  BY <1>3, <1>4 DEF Envs
<1>6. Filed(cache)
  BY <1>1, <1>3 DEF Filed
<1> QED BY <1>5, <1>6

(* What a listing returns.                                                  *)
Lists(window, limit, x) ==
    /\ x.env.cache \in [Calendar -> DayFile \union {None}] /\ x.env.now \in Nat
    /\ Filed(x.env.cache)
    /\ x.ok => x.rows = Newest(Inside(runs, window), limit)

LEMMA CachedListing ==
    ASSUME Repository, NEW window, Period(window), NEW limit \in Nat, NEW refresh,
           NEW env \in Envs, Filed(env.cache)
    PROVE  Lists(window, limit, Gather(Parts(window, refresh, Pruned(env)), limit, Pruned(env)))
<1>1. PICK pruned \in Envs : pruned = Pruned(env) /\ Filed(pruned.cache)
  BY Pruning
<1>2. PICK parts : parts = Parts(window, refresh, pruned) /\ Covers(window, parts)
  BY PartsCover
<1>3. PICK x : x = Gather(parts, limit, pruned)
  OBVIOUS
<1>4. Gathered(window, limit, x)
  BY <1>1, <1>2, <1>3, GatherIsExact
<1>5. Lists(window, limit, x)
  BY <1>4 DEF Gathered, Lists, Outcomes, Envs
<1> QED BY <1>1, <1>2, <1>3, <1>5

LEMMA UncachedListing ==
    ASSUME Repository, NEW window, Period(window), NEW limit \in Nat, NEW env \in Envs, Filed(env.cache)
    PROVE  Lists(window, limit, Search(window, limit, env))
<1>1. PICK x : x = Search(window, limit, env)
  OBVIOUS
<1>2. SearchFinds(window, limit, env, x)
  BY <1>1, SearchIsExact
<1>3. Lists(window, limit, x)
  BY <1>2 DEF SearchFinds, Lists, Results, Envs
<1> QED BY <1>1, <1>3

LEMMA ListingKeeps ==
    ASSUME ListingInv, NEW window \in Windows, NEW limit \in Limits, NEW cached \in BOOLEAN, NEW refresh \in BOOLEAN,
           NEW requests \in Nat, NEW broken \in SUBSET Calendar,
           List(window, limit, cached, refresh, requests, broken)
    PROVE  ListingInv'
<1>1. PICK env \in Envs : /\ env = [now |-> clock, requests |-> requests, cache |-> dayFiles, cached |-> cached,
                                    saved |-> {}, broken |-> broken]
                          /\ Filed(env.cache)
  <2>1. [now |-> clock, requests |-> requests, cache |-> dayFiles, cached |-> cached,
         saved |-> {}, broken |-> broken] \in Envs
    BY DEF ListingInv, Envs
  <2> QED BY <2>1 DEF ListingInv
<1>2. PICK x : x = IF cached THEN Gather(Parts(window, refresh, Pruned(env)), limit, Pruned(env))
                             ELSE Search(window, limit, env)
  OBVIOUS
<1>3. /\ dayFiles' = x.env.cache /\ clock' = x.env.now /\ runs' = runs
      /\ last' = IF x.ok THEN [pc |-> "listed", window |-> window, limit |-> limit,
                               rows |-> Inside(x.rows, window), truncated |-> Truncated(x.rows, limit)]
                 ELSE [pc |-> "failed"]
  <2>1. Listed(window, limit, x) /\ runs' = runs
    BY <1>1, <1>2 DEF List
  <2> QED BY <2>1 DEF Listed
<1>4. Repository /\ Period(window) /\ limit \in Nat
  BY RunsAreFinite, ListingAssumption DEF ListingInv, Repository, Period
<1>5. Lists(window, limit, x)
  BY <1>1, <1>2, <1>4, CachedListing, UncachedListing
<1>6. Filed(dayFiles)'
  BY <1>3, <1>5 DEF Lists, Filed, DayRuns
<1>7. CASE ~x.ok
  <2>1. last' = [pc |-> "failed"]
    BY <1>3, <1>7
  <2> QED BY <1>3, <1>5, <1>6, <2>1 DEF Lists, ListingInv, NewestAreListed, OmissionsAreReported
<1>8. CASE x.ok
  <2>1. PICK all \in SUBSET Runs, rows \in SUBSET Runs : all = Inside(runs, window) /\ rows = x.rows /\ rows = Newest(all, limit)
    <3>1. Inside(runs, window) \subseteq Runs /\ x.rows = Newest(Inside(runs, window), limit)
      BY <1>4, <1>5, <1>8, InsideIsPart DEF Lists
    <3>2. x.rows \subseteq Runs
      BY <1>4, <3>1, NewestIsPart
    <3> QED BY <3>1, <3>2
  <2>2. Inside(rows, window) = rows
    <3>1. rows \subseteq all
      BY <1>4, <2>1, NewestIsPart
    <3> QED BY <2>1, <3>1 DEF Inside
  <2>3. /\ last'.rows = rows /\ last'.window = window /\ last'.limit = limit
        /\ last'.truncated <=> (limit > 0 /\ Cardinality(rows) >= limit)
    BY <1>3, <1>8, <2>1, <2>2 DEF Truncated
  <2>4. Inside(runs, window)' = Inside(runs', window)
    BY DEF Inside
  <2>5. NewestAreListed'
    BY <1>3, <2>1, <2>3 DEF NewestAreListed
  <2>6. ASSUME rows # all PROVE limit > 0 /\ Cardinality(rows) >= limit
    <3>1. Cardinality(rows) \in Nat /\ IsFiniteSet(all)
      <4>1. rows \subseteq Runs
        BY <1>4, <2>1, NewestIsPart
      <4> QED BY <2>1, <4>1, RunsAreFinite
    <3>2. ~(limit # 0 => Cardinality(Newest(all, limit)) < limit)
      BY <1>4, <2>1, <2>6, <3>1, NewestIsAll
    <3> QED BY <1>4, <2>1, <3>1, <3>2
  <2>7. OmissionsAreReported'
    BY <1>3, <2>1, <2>3, <2>6 DEF OmissionsAreReported
  <2> QED BY <1>3, <1>5, <1>6, <2>5, <2>7 DEF Lists, ListingInv
<1> QED BY <1>7, <1>8

(* A new run is of no day that is on disk.                                  *)
LEMMA NewRunsKeep ==
    ASSUME ListingInv, NewRun
    PROVE  ListingInv'
<1>1. PICK r \in Runs \ runs : r.at >= Cutoff /\ runs' = runs \union {r}
  BY DEF NewRun
<1>2. ASSUME NEW d \in Calendar, dayFiles[d] # None PROVE {q \in runs' : DayOf(q.at) = d} = DayRuns(d)
  <2>1. d \in Int /\ (d + 1) * DayLength <= Cutoff
    BY <1>2, LengthsAreNumbers DEF ListingInv, Filed, Calendar
  <2>2. DayOf(r.at) # d
    <3> SUFFICES ASSUME DayOf(r.at) = d PROVE FALSE
      OBVIOUS
    <3>1. r.at \in Int
      BY TimesAreNumbers
    <3>2. r.at < d * DayLength + DayLength
      BY <3>1, DaysOf
    <3>3. (d + 1) * DayLength = d * DayLength + DayLength /\ d * DayLength \in Int
      BY <2>1, DaysInOrder, MidnightsAreWhole
    <3> QED BY <1>1, <2>1, <3>1, <3>2, <3>3, LengthsAreNumbers
  <2> QED BY <1>1, <2>2 DEF DayRuns
<1>3. dayFiles' = dayFiles /\ clock' = clock /\ last' = [pc |-> "none"]
  BY DEF NewRun
<1>4. Filed(dayFiles)'
  BY <1>2, <1>3 DEF ListingInv, Filed, DayRuns
<1> QED BY <1>1, <1>3, <1>4 DEF ListingInv, NewestAreListed, OmissionsAreReported

(* What is listed, and what is on disk, is the repository's.                *)
THEOREM ListingInvariant == ListingSafety => []ListingInv
<1>1. ListingInit => ListingInv
  <2> SUFFICES ASSUME ListingInit PROVE ListingInv
    OBVIOUS
  <2>1. runs \subseteq Runs
    BY DEF ListingInit, Repositories
  <2>2. dayFiles \in [Calendar -> DayFile \union {None}] /\ \A d \in Calendar : dayFiles[d] = None
    BY DEF ListingInit
  <2> QED BY <2>1, <2>2 DEF ListingInit, ListingInv, Filed, NewestAreListed, OmissionsAreReported
<1>2. ListingInv /\ [ListingNext]_listingVars => ListingInv'
  <2> SUFFICES ASSUME ListingInv, [ListingNext]_listingVars PROVE ListingInv'
    OBVIOUS
  <2>1. ASSUME NEW w \in Windows, NEW limit \in Limits, NEW refresh \in BOOLEAN, NEW broken \in Unwritable,
               List(w, limit, TRUE, refresh, Unfailing, broken)
        PROVE  ListingInv'
    BY <2>1, ListingKeeps, ListingAssumption
  <2>2. ASSUME NEW w \in Windows, NEW limit \in Limits, NEW requests \in Failures,
               List(w, limit, TRUE, FALSE, requests, {})
        PROVE  ListingInv'
    <3>1. requests \in Nat /\ {} \in SUBSET Calendar
      BY ListingAssumption
    <3> QED BY <2>2, <3>1, ListingKeeps
  <2>3. ASSUME NEW w \in Windows, NEW limit \in Limits, List(w, limit, FALSE, FALSE, Unfailing, {})
        PROVE  ListingInv'
    <3>1. Unfailing \in Nat /\ {} \in SUBSET Calendar
      BY ListingAssumption
    <3> QED BY <2>3, <3>1, ListingKeeps
  <2>4. CASE NewRun
    BY <2>4, NewRunsKeep
  <2>5. CASE Wait
    <3>1. clock' \in Nat
      BY <2>5 DEF Wait, ListingInv
    <3>2. Filed(dayFiles)'
      BY <2>5 DEF Wait, ListingInv, Filed, DayRuns
    <3> QED BY <2>5, <3>1, <3>2 DEF Wait, ListingInv, NewestAreListed, OmissionsAreReported
  <2>6. CASE UNCHANGED listingVars
    <3>1. Filed(dayFiles)'
      BY <2>6 DEF listingVars, ListingInv, Filed, DayRuns
    <3> QED BY <2>6, <3>1 DEF listingVars, ListingInv, NewestAreListed, OmissionsAreReported, Inside
  <2> QED BY <2>1, <2>2, <2>3, <2>4, <2>5, <2>6 DEF ListingNext
<1> QED BY <1>1, <1>2, PTL DEF ListingSafety

(* A listing is exactly the newest runs of its window, and says so if there *)
(* may be more; the days on disk are whole (collection_window.go:26,        *)
(* collect.go:646, run_cache.go:250).                                       *)
THEOREM ListingStaysExact == ListingSafety => []ListingIsExact
<1>1. ListingInv => ListingIsExact
  <2>1. ListingInv => CachedDaysAreComplete
    BY DEF ListingInv, CachedDaysAreComplete, Filed, DayRuns
  <2> QED BY <2>1 DEF ListingInv, ListingIsExact
<1> QED BY <1>1, ListingInvariant, PTL
=============================================================================
