-------------------------- MODULE DashboardExecution --------------------------
(***************************************************************************)
(* One execution of a dashboard (dashboard/dashboardexecute).  The tree of *)
(* runs mirrors the dashboard: the runs of dashboards and containers have  *)
(* children, a leaf run executes one query and a check run executes a      *)
(* benchmark or a control.  Every run executes in a goroutine of its own:  *)
(* it sets its status, publishes an event, reports to the channel of its   *)
(* parent, and then returns its error, which reaches the parent through a  *)
(* second channel.  A parent polls the statuses of its children whenever   *)
(* one of the two channels gives it something.                             *)
(*                                                                         *)
(* A run that depends on an input of its dashboard never executes: the     *)
(* inputs are kept under "input.<name>" and looked up under "<name>", so   *)
(* that the lookup always ends in an error (GetRuntimeDependency).         *)
(***************************************************************************)
EXTENDS Integers, FiniteSets

CONSTANTS
  Nodes,      \* the runs of the tree
  Root,       \* the run of the dashboard that is executed
  Children,   \* Children[n]: the children of run n
  Containers, \* the runs of dashboards and containers
  Checks,     \* the runs of benchmarks and controls
  Queries     \* the leaf runs that have a query

ASSUME DashboardTreeAssumption ==
  /\ IsFiniteSet(Nodes)
  /\ Root \in Containers /\ Containers \subseteq Nodes
  /\ Children \in [Nodes -> SUBSET (Nodes \ {Root})]
  /\ \A m, n \in Nodes : m # n => Children[m] \cap Children[n] = {}
  /\ \A n \in Nodes \ {Root} : \E m \in Nodes : n \in Children[m]
  /\ \A n \in Nodes \ Containers : Children[n] = {}
  /\ Checks \cup Queries \subseteq Nodes \ Containers
  /\ Checks \cap Queries = {}
  /\ "ExecuteDashboardNode" \notin Nodes

VARIABLES
  withInput,     \* the leaf runs that depend on an input of the dashboard
  runStatus,     \* the status of a run
  pc,            \* where the goroutine of a run is
  err,           \* Execute of the run returns an error
  errors,        \* the run has received an error of a child
  childComplete, \* how many children wait in the run's childComplete
  errChan,       \* how many errors wait in its errChan
  execution      \* where the goroutine of ExecuteDashboardNode is

vars == <<withInput, runStatus, pc, err, errors, childComplete, errChan, execution>>

Executor == "ExecuteDashboardNode"   \* the parent of the root run

Leaves == Nodes \ (Containers \cup Checks)
Parent(n) == IF n = Root THEN Executor ELSE CHOOSE m \in Nodes : n \in Children[m]

\* Mutant: channels made for a single child.
MutCapacity(n) == 1

Capacity(n) == IF n = Executor THEN 1 ELSE Cardinality(Children[n])

\* The runs that have something to execute, themselves or below them: the
\* smallest set that holds Checks and Queries and the parent of every member.
Ready ==
  {n \in Nodes : \A S \in SUBSET Nodes :
     /\ Checks \cup Queries \subseteq S
     /\ \A m \in Nodes : Children[m] \cap S # {} => m \in S
     => n \in S}

Final(n) == runStatus[n] \in {"complete", "error"}

\* Mutant: a container that stops waiting at the first message.
MutChildrenComplete(n) ==
  \/ \A m \in Children[n] : Final(m)
  \/ childComplete[n] + errChan[n] < Cardinality({m \in Children[n] : pc[m] = "done"})

ChildrenComplete(n) == \A m \in Children[n] : Final(m)

Init ==
  /\ withInput \in SUBSET Leaves
  /\ runStatus = [n \in Nodes |-> IF n \in Ready THEN "ready" ELSE "complete"]
  /\ pc = [n \in Nodes |-> "none"]
  /\ err = [n \in Nodes |-> FALSE]
  /\ errors = [n \in Nodes |-> FALSE]
  /\ childComplete = [n \in Nodes \cup {Executor} |-> 0]
  /\ errChan = [n \in Nodes |-> 0]
  /\ execution = "started"

Goto(n, from, to) ==
  /\ pc[n] = from
  /\ pc' = [pc EXCEPT ![n] = to]

(* SetError and SetComplete, up to the event. *)
SetStatus(n, failed) ==
  /\ runStatus' = [runStatus EXCEPT ![n] = IF failed THEN "error" ELSE "complete"]
  /\ err' = [err EXCEPT ![n] = failed]

-----------------------------------------------------------------------------
(* Mutants: what plausible slips in the code below would do.               *)

\* The root run is told of its own error once more.
MutRootReturns ==
  /\ execution = "root"
  /\ pc[Root] = "return"
  /\ err[Root] => childComplete[Executor] = 0
  /\ pc' = [pc EXCEPT ![Root] = "done"]
  /\ execution' = "complete"
  /\ UNCHANGED <<withInput, runStatus, err, errors, childComplete, errChan>>

\* An error that is reported as a completion as well.
MutReturnToParent(n) ==
  /\ n # Root
  /\ Goto(n, "return", "done")
  /\ IF err[n]
     THEN /\ errChan' = [errChan EXCEPT ![Parent(n)] = @ + 1]
          /\ childComplete' = [childComplete EXCEPT ![Parent(n)] = @ + 1]
     ELSE UNCHANGED <<childComplete, errChan>>
  /\ UNCHANGED <<withInput, runStatus, err, errors, execution>>

-----------------------------------------------------------------------------
(* ExecuteDashboardNode: the goroutine of the execution.                   *)

(* A tree with nothing to execute is complete as it is. *)
StartRoot ==
  /\ execution = "started"
  /\ IF runStatus[Root] = "complete"
     THEN execution' = "complete" /\ UNCHANGED pc
     ELSE execution' = "root" /\ Goto(Root, "none", "begin")
  /\ UNCHANGED <<withInput, runStatus, err, errors, childComplete, errChan>>

(* The error of the root run has set its status already. *)
RootReturns ==
  /\ execution = "root"
  /\ pc[Root] = "return"
  /\ err[Root] => runStatus[Root] = "error"
  /\ pc' = [pc EXCEPT ![Root] = "done"]
  /\ execution' = "complete"
  /\ UNCHANGED <<withInput, runStatus, err, errors, childComplete, errChan>>

-----------------------------------------------------------------------------
(* DashboardRun and DashboardContainerRun.                                 *)

(* Execute: a goroutine for every child. *)
ExecuteChildren(n) ==
  /\ n \in Containers
  /\ pc[n] = "begin"
  /\ pc' = [m \in Nodes |-> IF m = n THEN "loop"
                            ELSE IF m \in Children[n] THEN "begin" ELSE pc[m]]
  /\ UNCHANGED <<withInput, runStatus, err, errors, childComplete, errChan, execution>>

(* The head of the loop that waits for the children ... *)
WaitForChildren(n) ==
  /\ IF ChildrenComplete(n)
     THEN Goto(n, "loop", "send") /\ SetStatus(n, errors[n])
     ELSE Goto(n, "loop", "select") /\ UNCHANGED <<runStatus, err>>
  /\ UNCHANGED <<withInput, errors, childComplete, errChan, execution>>

(* ... and the two cases of the select in it. *)
ReceiveComplete(n) ==
  /\ Goto(n, "select", "loop")
  /\ childComplete[n] > 0
  /\ childComplete' = [childComplete EXCEPT ![n] = @ - 1]
  /\ UNCHANGED <<withInput, runStatus, err, errors, errChan, execution>>

ReceiveError(n) ==
  /\ Goto(n, "select", "loop")
  /\ errChan[n] > 0
  /\ errChan' = [errChan EXCEPT ![n] = @ - 1]
  /\ errors' = [errors EXCEPT ![n] = TRUE]
  /\ UNCHANGED <<withInput, runStatus, err, childComplete, execution>>

-----------------------------------------------------------------------------
(* LeafRun.                                                                *)

(* The input is not found: Execute returns, and the status stays as it is. *)
LeafWithInput(n) ==
  /\ n \in withInput
  /\ Goto(n, "begin", "return")
  /\ err' = [err EXCEPT ![n] = TRUE]
  /\ UNCHANGED <<withInput, runStatus, errors, childComplete, errChan, execution>>

LeafIdle(n) ==
  /\ n \in Leaves \ (Queries \cup withInput)
  /\ Goto(n, "begin", "return")
  /\ UNCHANGED <<withInput, runStatus, err, errors, childComplete, errChan, execution>>

LeafQuery(n) ==
  /\ n \in Queries \ withInput
  /\ Goto(n, "begin", "send")
  /\ \E failed \in BOOLEAN : SetStatus(n, failed)
  /\ UNCHANGED <<withInput, errors, childComplete, errChan, execution>>

(* CheckRun: only a control execution tree that cannot be built is an      *)
(* error; what the controls say is not.                                    *)
CheckExecutes(n) ==
  /\ n \in Checks
  /\ Goto(n, "begin", "send")
  /\ \E failed \in BOOLEAN : SetStatus(n, failed)
  /\ UNCHANGED <<withInput, errors, childComplete, errChan, execution>>

-----------------------------------------------------------------------------
(* What every run does with its result.                                    *)

(* After the event, which is handled before the call that publishes it     *)
(* returns.                                                                *)
TellParent(n) ==
  /\ Goto(n, "send", "return")
  /\ childComplete[Parent(n)] < Capacity(Parent(n))
  /\ childComplete' = [childComplete EXCEPT ![Parent(n)] = @ + 1]
  /\ UNCHANGED <<withInput, runStatus, err, errors, errChan, execution>>

(* executeChild *)
ReturnToParent(n) ==
  /\ n # Root
  /\ Goto(n, "return", "done")
  /\ IF err[n]
     THEN /\ errChan[Parent(n)] < Capacity(Parent(n))
          /\ errChan' = [errChan EXCEPT ![Parent(n)] = @ + 1]
     ELSE UNCHANGED errChan
  /\ UNCHANGED <<withInput, runStatus, err, errors, childComplete, execution>>

-----------------------------------------------------------------------------

(* A dashboard whose runs are over, or wait for ever, takes no more steps. *)
Run(n) ==
  \/ ExecuteChildren(n) \/ WaitForChildren(n)
  \/ ReceiveComplete(n) \/ ReceiveError(n)
  \/ LeafWithInput(n) \/ LeafIdle(n) \/ LeafQuery(n) \/ CheckExecutes(n)
  \/ TellParent(n) \/ ReturnToParent(n)

Next == StartRoot \/ RootReturns \/ \E n \in Nodes : Run(n)

Spec == Init /\ [][Next]_vars

FairSpec ==
  /\ Spec
  /\ WF_vars(StartRoot \/ RootReturns)
  /\ \A n \in Nodes : WF_vars(Run(n))

-----------------------------------------------------------------------------
(* Properties                                                              *)

TypeOK ==
  /\ withInput \subseteq Leaves
  /\ runStatus \in [Nodes -> {"ready", "complete", "error"}]
  /\ pc \in [Nodes -> {"none", "begin", "loop", "select", "send", "return", "done"}]
  /\ err \in [Nodes -> BOOLEAN]
  /\ errors \in [Nodes -> BOOLEAN]
  /\ childComplete \in [Nodes \cup {Executor} -> Nat]
  /\ errChan \in [Nodes -> Nat]
  /\ \A n \in Nodes : childComplete[n] <= Capacity(n) /\ errChan[n] <= Capacity(n)
  /\ execution \in {"started", "root", "complete"}

\* A run never waits for room in a channel of its parent: the channels hold
\* a message and an error of every child, and nobody reports twice.
NoSendBlocks ==
  \A n \in Nodes :
    /\ pc[n] = "send" => childComplete[Parent(n)] < Capacity(Parent(n))
    /\ pc[n] = "return" /\ err[n] /\ n # Root => errChan[Parent(n)] < Capacity(Parent(n))

Promise == INSTANCE DashboardResults WITH
  dependent <- withInput, result <- runStatus, over <- execution = "complete"

\* The execution keeps the promise of DashboardResults: a run gets its result
\* once, a container after all its children and an error only for one of
\* theirs, and nothing below the root runs when the execution is over.
Implements == Promise!ResultsSpec

\* An execution completes and leaves no goroutine behind, unless a query waits
\* for an input of its dashboard.
Completes ==
  withInput \cap Queries = {} ~>
    execution = "complete" /\ \A n \in Nodes : pc[n] \in {"none", "done"}
=============================================================================
