------------------------------- MODULE Cordon -------------------------------
(***************************************************************************)
(* Taking a self-hosted runner of an organization out of service and back  *)
(* (pkg/runner/runner.go, cmd/cordon.go, cmd/uncordon.go). The only record *)
(* of what a cordon did is the runner's own labels on GitHub: a marker,    *)
(* the group it came from, and its custom labels under a prefix.           *)
(*                                                                         *)
(* An action is one API call of a command, which may fail, be lost with    *)
(* its effect done, or never be made because the command was killed; then  *)
(* commands are given again. Commands are given one at a time, all with    *)
(* the same --group and --label-prefix: nothing in the code coordinates    *)
(* operators. A command treats the runners it selects one after the other  *)
(* and they share nothing but the isolated group, so one runner is enough. *)
(*                                                                         *)
(* A label is a sequence of words, so that prefixes are what they are in   *)
(* the code. The labels GitHub manages itself are left out: no call        *)
(* changes them. So are dry runs, which change nothing.                    *)
(***************************************************************************)
EXTENDS Naturals, FiniteSets, SequencesExt, Nothing

CONSTANTS
    Words,        \* custom labels a runner may be registered with
    Groups,       \* runner groups, by ID
    Default,      \* the default group
    Isolated,     \* the group of the group strategy
    Unknown,      \* group ID 0
    LabelPrefix,  \* --label-prefix
    MaxCommands   \* bound: commands

CordonMarkerLabel == <<"cordoned">>
CordonGroupLabelPrefix == <<"cordoned-", "group-">>
GroupLabel(g) == Append(CordonGroupLabelPrefix, g)

ASSUME CordonAssumption ==
    /\ Words \subseteq Seq(STRING) /\ <<>> \notin Words
    /\ Default \in Groups /\ Isolated \in Groups /\ Unknown \notin Groups /\ None \notin Groups \union {Unknown}
    /\ LabelPrefix \in Seq(STRING) \ {<<>>}

VARIABLES
    labels,    \* the runner's custom labels
    group,     \* the group it is in
    exists,    \* the isolated group has been created
    command,   \* the command being executed
    commands,  \* number of commands so far
    origin     \* labels and group to go back to (history)

cordonVars == <<labels, group, exists, command, commands, origin>>

Idle(outcome) == [pc |-> "idle", outcome |-> outcome]

CordonInit ==
    /\ labels \in SUBSET Words
    /\ exists \in BOOLEAN
    /\ group \in IF exists THEN Groups ELSE Groups \ {Isolated}
    /\ command = Idle("none")
    /\ commands = 0
    /\ origin = [labels |-> labels, group |-> group]

---------------------------------------------------------------------------
HasPrefix(label, prefix) == IsPrefix(prefix, label)
TrimPrefix(label, prefix) == SubSeq(label, Len(prefix) + 1, Len(label))

IsCordoned(found) == CordonMarkerLabel \in found

BuildCordonLabels(found) == {CordonMarkerLabel} \union {LabelPrefix \o l : l \in found}

GroupMarks(found) == {l \in found : HasPrefix(l, CordonGroupLabelPrefix)}

(* parseCordonedLabels: the labels to restore ...                          *)
RestoredLabels(found) ==
    LET others == found \ ({CordonMarkerLabel} \union GroupMarks(found)) IN
    {IF HasPrefix(l, LabelPrefix) THEN TrimPrefix(l, LabelPrefix) ELSE l : l \in others}

(* ... and the groups it may take for the recorded one, None if there is   *)
(* none: of several the last one listed counts, and one that is no ID does *)
(* not.                                                                    *)
RestoredGroups(found) ==
    LET ids == {g \in Groups \union {Unknown} : GroupLabel(g) \in found} IN
    IF ids = {} THEN {None} ELSE ids

Begin(c) ==
    /\ command.pc = "idle" /\ commands < MaxCommands
    /\ commands' = commands + 1
    /\ command' = c

(* cordon: the runner is selected as it is now. One that is not cordoned   *)
(* yet has its labels and group put on record.                             *)
Cordon(strategy) ==
    /\ Begin(IF IsCordoned(labels) THEN Idle("already")
             ELSE [pc |-> IF strategy = "group" THEN "find" ELSE "rename", found |-> labels])
    /\ origin' = IF IsCordoned(labels) THEN origin ELSE [labels |-> labels, group |-> group]
    /\ UNCHANGED <<labels, group, exists>>

(* uncordon                                                                *)
Uncordon ==
    /\ \/ /\ ~IsCordoned(labels)
          /\ Begin(Idle("not"))
       \/ /\ IsCordoned(labels)
          /\ \E g \in RestoredGroups(labels) :
               Begin([pc |-> IF g = None THEN "relabel" ELSE IF g = Unknown THEN "default" ELSE "return",
                      found |-> labels, to |-> g])
    /\ UNCHANGED <<labels, group, exists, origin>>

(* A call's answer: the command goes on to c, or the answer is lost.       *)
Goes(c) == command' = c \/ command' = Idle("failed")

(* CordonByGroup: find the isolated group or create it, ...                *)
FindGroup ==
    /\ command.pc = "find"
    /\ exists' = TRUE
    /\ Goes([command EXCEPT !.pc = "locate"])
    /\ UNCHANGED <<labels, group, commands, origin>>

(* ... find the group the runner is in, which may not be listed, ...       *)
Locate ==
    /\ command.pc = "locate"
    /\ \E g \in {group, Unknown} :
         command' = [pc |-> "mark", found |-> command.found, from |-> g]
    /\ UNCHANGED <<labels, group, exists, commands, origin>>

(* ... record it on the runner ...                                         *)
Mark ==
    /\ command.pc = "mark"
    /\ labels' = labels \union {CordonMarkerLabel, GroupLabel(command.from)}
    /\ origin' = [origin EXCEPT !.group = IF command.from = Unknown THEN Default ELSE command.from]
    /\ Goes([command EXCEPT !.pc = "move"])
    /\ UNCHANGED <<group, exists, commands>>

(* ... and move it.                                                        *)
Move ==
    /\ command.pc = "move"
    /\ group' = Isolated
    /\ Goes(Idle("cordoned"))
    /\ UNCHANGED <<labels, exists, commands, origin>>

(* CordonByLabel                                                           *)
Rename ==
    /\ command.pc = "rename"
    /\ labels' = BuildCordonLabels(command.found)
    /\ Goes(Idle("cordoned"))
    /\ UNCHANGED <<group, exists, commands, origin>>

(* Uncordon: the default group stands for one that was not known; ...      *)
FindDefault ==
    /\ command.pc = "default"
    /\ command' = [command EXCEPT !.pc = "return", !.to = Default]
    /\ UNCHANGED <<labels, group, exists, commands, origin>>

(* Mutant: the labels come off before the runner is back in its group. *)
ReturnAfterLabels ==
    /\ command.pc = "return"
    /\ labels' = RestoredLabels(command.found)
    /\ Goes([command EXCEPT !.pc = "relabel"])
    /\ UNCHANGED <<group, exists, commands, origin>>

(* ... the runner goes back to its group, and only then do the labels that *)
(* recorded it come off.                                                   *)
Return ==
    /\ command.pc = "return"
    /\ group' = command.to
    /\ Goes([command EXCEPT !.pc = "relabel"])
    /\ UNCHANGED <<labels, exists, commands, origin>>

Relabel ==
    /\ command.pc = "relabel"
    /\ labels' = RestoredLabels(command.found)
    /\ Goes(Idle("uncordoned"))
    /\ UNCHANGED <<group, exists, commands, origin>>

(* A call fails without effect, or the command is killed before it.        *)
CommandFails ==
    /\ command.pc # "idle"
    /\ command' = Idle("failed")
    /\ UNCHANGED <<labels, group, exists, commands, origin>>

CordonNext ==
    \/ \E strategy \in {"group", "label"} : Cordon(strategy)
    \/ Uncordon \/ FindGroup \/ Locate \/ Mark \/ Move \/ Rename
    \/ FindDefault \/ Return \/ Relabel \/ CommandFails

CordonSpec == CordonInit /\ [][CordonNext]_cordonVars

---------------------------------------------------------------------------
(* The labels that come back as they were: those that are not taken for    *)
(* the marker or, once renamed, for the record of a group, and do not look *)
(* renamed themselves.                                                     *)
Plain(l) ==
    /\ l # CordonMarkerLabel
    /\ ~HasPrefix(l, LabelPrefix)
    /\ ~HasPrefix(l, CordonGroupLabelPrefix)
    /\ ~HasPrefix(LabelPrefix \o l, CordonGroupLabelPrefix)
AllPlain == \A l \in origin.labels : Plain(l)

(* Where an uncordon that ran to its end now would put the runner.         *)
GroupAfter(g) == IF g = None THEN group ELSE IF g = Unknown THEN Default ELSE g
WouldRestore ==
    /\ RestoredLabels(labels) = origin.labels
    /\ \A g \in RestoredGroups(labels) : GroupAfter(g) = origin.group

(* Whatever calls failed and however often commands were repeated, a       *)
(* runner that looks cordoned can be put back where it was, with the       *)
(* labels it had (runner.go:155), and one that does not look cordoned is   *)
(* there, with those labels: no command that failed half way leaves a      *)
(* runner out of service that `uncordon --all` does not find               *)
(* (uncordon.go:64).                                                       *)
NoRunnerIsLost ==
    AllPlain =>
        IF IsCordoned(labels) THEN WouldRestore
        ELSE command.pc = "idle" => labels = origin.labels /\ group = origin.group

(* CONTRADICTED by the code: see the run that expects a violation. *)

(* The comment at runner.go:155: uncordon reverses a cordon, whatever the  *)
(* runner's labels are called.                                             *)
UncordonReverses ==
    command = Idle("uncordoned") => labels = origin.labels

===========================================================================
