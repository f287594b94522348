----------------------------- MODULE ControlTree -----------------------------
(***************************************************************************)
(* The tree of result groups and control runs which `steampipe check`      *)
(* builds for one of its arguments (NewExecutionTree), as the sequence in  *)
(* which ResultGroup.execute walks the runs and the set of the groups.     *)
(*                                                                         *)
(* A control that is a child of several benchmarks has a run in each.  A   *)
(* benchmark has one parent here.                                          *)
(***************************************************************************)
EXTENDS Integers, SequencesExt

CONSTANTS
  Items,      \* the workspace mod and the benchmarks
  Children,   \* Children[i]: the sequence of the benchmarks and controls in item i
  ShortName,  \* ShortName[c]: the name of control c without that of its mod
  Arguments,  \* the items and controls that check is asked for
  Filters     \* the sets of short names which --where or --tag may select

ControlNames == DOMAIN ShortName
RootResultGroup == "root_result_group"

\* A benchmark with a child twice is not parsed (checkForDuplicateChildren), nor one
\* that is below itself: its children are decoded before it (resolveChildrenFromNames).
ASSUME ItemsAssumption ==
  /\ IsFiniteSet(Items) /\ IsFiniteSet(ControlNames)
  /\ Children \in [Items -> Seq(Items \cup ControlNames)]
  /\ \A i \in Items : IsInjective(Children[i])
  /\ \A i, j \in Items : i # j => Range(Children[i]) \cap Range(Children[j]) \cap Items = {}
  /\ Arguments \subseteq Items \cup ControlNames
  /\ RootResultGroup \notin Items /\ (Items \cup {RootResultGroup}) \cap ControlNames = {}
  /\ \E rank \in [Items -> 0..Cardinality(Items)] :
       \A i \in Items : \A j \in Items \cap Range(Children[i]) : rank[j] < rank[i]

Groups == Items \cup {RootResultGroup}
Run(c, g) == [control |-> c, group |-> g]

\* All the control runs a tree may have.
Controls ==
  {Run(c, RootResultGroup) : c \in Arguments \cap ControlNames}
    \cup UNION {{Run(c, i) : c \in Range(Children[i]) \cap ControlNames} : i \in Items}

\* The group of an item and those above it, in the tree of the whole workspace.
Above[g \in Groups] ==
  {g, RootResultGroup} \cup UNION {Above[i] : i \in {j \in Items : g \in Range(Children[j])}}

(* "note we use short name to determine whether to include a control"      *)
ShouldIncludeControl(c, filter) == ShortName[c] \in filter

(* A group: its control runs, those of the groups below it, and the ids of *)
(* itself and these groups.  ResultGroup.execute walks its own runs first. *)
EmptyGroup(item) == [controlRuns |-> <<>>, below |-> <<>>, groups |-> {item}]
Walk(group) == group.controlRuns \o group.below

(* "if the group has any control runs, add to tree"; groupOf[x] is the     *)
(* group of the benchmark x.                                               *)
AddChild(group, item, x, filter, groupOf) ==
  CASE x \in ControlNames /\ ShouldIncludeControl(x, filter) ->
         [group EXCEPT !.controlRuns = Append(@, Run(x, item))]
    [] x \in Items /\ Walk(groupOf[x]) # <<>> ->
         [group EXCEPT !.below = @ \o Walk(groupOf[x]), !.groups = @ \cup groupOf[x].groups]
    [] OTHER -> group

AddChildren(item, filter, groupOf) ==
  FoldLeft(LAMBDA group, x : AddChild(group, item, x, filter, groupOf),
           EmptyGroup(item), Children[item])

NewResultGroup(item, filter) ==
  LET groupOf[i \in Items] == AddChildren(i, filter, groupOf)
  IN groupOf[item]

(* An item has its group below the root group, a control its run in it.    *)
NewRootResultGroup(arg, filter) ==
  IF arg \in ControlNames
  THEN [walk |-> IF ShouldIncludeControl(arg, filter) THEN <<Run(arg, RootResultGroup)>> ELSE <<>>,
        groups |-> {RootResultGroup}]
  ELSE LET group == NewResultGroup(arg, filter)
       IN [walk |-> Walk(group), groups |-> {RootResultGroup} \cup group.groups]

(* What the user asks for: the controls at and below the argument that     *)
(* pass the filter.                                                        *)
Selected(arg, filter) ==
  {r \in Controls :
     /\ ShortName[r.control] \in filter
     /\ IF arg \in ControlNames THEN r = Run(arg, RootResultGroup)
                                ELSE arg \in Above[r.group]}

(* The groups it takes: the root, that of the argument, and those below it *)
(* which have a run.                                                       *)
GroupsOf(arg, filter) ==
  {RootResultGroup} \cup ({arg} \cap Items) \cup
    {g \in Items : arg \in Above[g] /\ \E r \in Selected(arg, filter) : g \in Above[r.group]}

(* The tree for an argument has each of the runs it asks for once, and no  *)
(* group that it does not take; every group has the root group above it.   *)
TreeCorrect ==
  /\ \A arg \in Arguments, filter \in Filters :
       LET tree == NewRootResultGroup(arg, filter)
       IN /\ tree.walk \in Seq(Controls) /\ IsInjective(tree.walk)
          /\ Range(tree.walk) = Selected(arg, filter)
          /\ tree.groups = GroupsOf(arg, filter)
  /\ \A g \in Groups : RootResultGroup \in Above[g]
=============================================================================
