---------------------------- MODULE DashboardProofs ----------------------------
(***************************************************************************)
(* Proofs about the dashboards.                                            *)
(*  - DashboardExecution, for every tree of runs: its variables keep their *)
(*    types, it keeps the promise of DashboardResults, and no run ever     *)
(*    waits for room in a channel.                                         *)
(*  - DashboardServer, for any number of browsers, dashboards and          *)
(*    executions: its variables keep their types, and what a browser shows *)
(*    when nothing is under way is the latest, unless a refresh was lost.  *)
(***************************************************************************)
EXTENDS DashboardExecution, DashboardServer, FiniteSetTheorems, TLAPS

(***************************************************************************)
(* DashboardExecution: the runs of one execution.                          *)
(***************************************************************************)

AllRuns == Nodes \cup {Executor}

(* Containers alone wait for children. *)
LoopInv == \A n \in Nodes \ Containers : pc[n] \notin {"loop", "select"}

(* A run that has nothing to execute below it never waits for a child and  *)
(* so never hears of an error; any other is ready until it has a result.   *)
StatusInv ==
  /\ \A n \in Nodes \ Ready : runStatus[n] = "complete" /\ pc[n] # "select" /\ ~errors[n]
  /\ \A n \in Ready : pc[n] \in {"none", "begin", "loop", "select"} => runStatus[n] = "ready"
  /\ \A n \in Containers \cup Checks : pc[n] \in {"send", "return", "done"} => Final(n)

(* No run begins before its parent has started it. *)
StartInv == \A n \in Nodes : pc[n] \in {"none", "begin"} => \A m \in Children[n] : pc[m] = "none"

(* The run n has failed, or depends on an input. *)
Fails(n) == runStatus[n] = "error" \/ n \in withInput

(* An error comes from a run that has failed. *)
ErrorInv ==
  /\ \A n \in Nodes : err[n] => Fails(n)
  /\ \A n \in Nodes : errors[n] \/ errChan[n] > 0 => \E m \in Children[n] : Fails(m)

IInv == TypeOK /\ LoopInv /\ StatusInv /\ StartInv /\ ErrorInv

-----------------------------------------------------------------------------
(* The tree.                                                               *)

(* The parent of a run is the one it is a child of. *)
LEMMA ParentOf ==
  ASSUME NEW n \in Nodes, n # Root
  PROVE  Parent(n) \in Nodes /\ n \in Children[Parent(n)]
BY DashboardTreeAssumption DEF Parent

LEMMA ParentIsRun ==
  ASSUME NEW n \in Nodes
  PROVE  Parent(n) \in AllRuns
BY ParentOf DEF Parent, AllRuns

(* A channel has room for as many messages as the run has children. *)
LEMMA CapacityIsNat ==
  ASSUME NEW n \in AllRuns
  PROVE  Capacity(n) \in Nat
<1>1. CASE n = Executor
  BY <1>1 DEF Capacity
<1>2. CASE n # Executor
  <2>1. n \in Nodes /\ Children[n] \subseteq Nodes
    BY <1>2, DashboardTreeAssumption DEF AllRuns
  <2>2. IsFiniteSet(Children[n])
    BY <2>1, DashboardTreeAssumption, FS_Subset
  <2> QED
    BY <1>2, <2>2, FS_CardinalityType DEF Capacity
<1> QED
  BY <1>1, <1>2

(* What is ready: the runs that execute something, and all above them. *)
LEMMA ReadyRuns == Ready \subseteq Nodes
BY DEF Ready

LEMMA ExecutablesAreReady == Checks \cup Queries \subseteq Ready
BY DashboardTreeAssumption DEF Ready

LEMMA ParentsAreReady ==
  ASSUME NEW n \in Nodes, NEW m \in Children[n], m \in Ready
  PROVE  n \in Ready
<1>1. m \in Nodes
  BY DashboardTreeAssumption
<1>2. SUFFICES ASSUME NEW S \in SUBSET Nodes, Checks \cup Queries \subseteq S,
                      \A k \in Nodes : Children[k] \cap S # {} => k \in S
               PROVE  n \in S
  BY DEF Ready
<1>3. m \in S
  BY <1>2 DEF Ready
<1> QED
  BY <1>2, <1>3

-----------------------------------------------------------------------------
(* The inductive invariant.                                                *)

LEMMA InitInv == Init => IInv
<1> SUFFICES ASSUME Init PROVE IInv
  OBVIOUS
<1> USE DashboardTreeAssumption DEF Init
<1>1. TypeOK
  <2>1. \A n \in Nodes : childComplete[n] <= Capacity(n) /\ errChan[n] <= Capacity(n)
    BY CapacityIsNat DEF AllRuns
  <2> QED
    BY <2>1 DEF TypeOK
<1>2. StatusInv
  BY DEF StatusInv, Ready
<1>3. StartInv /\ LoopInv
  BY DEF StartInv, LoopInv
<1>4. ErrorInv
  BY DEF ErrorInv
<1> QED
  BY <1>1, <1>2, <1>3, <1>4 DEF IInv

(* Every step is one of the actions: the case split of the proofs below.   *)
LEMMA StepCases ==
  ASSUME [Next]_vars
  PROVE  \/ StartRoot \/ RootReturns
         \/ \E n \in Nodes : \/ ExecuteChildren(n) \/ WaitForChildren(n)
                             \/ ReceiveComplete(n) \/ ReceiveError(n)
                             \/ LeafWithInput(n) \/ LeafIdle(n) \/ LeafQuery(n)
                             \/ CheckExecutes(n) \/ TellParent(n) \/ ReturnToParent(n)
         \/ UNCHANGED vars
BY DEF Next, Run

(* The variables keep their types, and the channels their capacity.        *)
LEMMA TypeStep ==
  ASSUME TypeOK, [Next]_vars
  PROVE  TypeOK'
<1> USE DEF TypeOK, Goto, SetStatus
<1>1. CASE StartRoot
  BY <1>1, DashboardTreeAssumption DEF StartRoot
<1>2. CASE RootReturns
  BY <1>2 DEF RootReturns
<1>3. ASSUME NEW n \in Nodes, ExecuteChildren(n) PROVE TypeOK'
  BY <1>3 DEF ExecuteChildren
<1>4. ASSUME NEW n \in Nodes, WaitForChildren(n) PROVE TypeOK'
  BY <1>4 DEF WaitForChildren
<1>5. ASSUME NEW n \in Nodes, ReceiveComplete(n) PROVE TypeOK'
  BY <1>5, CapacityIsNat DEF ReceiveComplete, AllRuns
<1>6. ASSUME NEW n \in Nodes, ReceiveError(n) PROVE TypeOK'
  BY <1>6, CapacityIsNat DEF ReceiveError, AllRuns
<1>7. ASSUME NEW n \in Nodes, LeafWithInput(n) \/ LeafIdle(n) PROVE TypeOK'
  BY <1>7 DEF LeafWithInput, LeafIdle
<1>8. ASSUME NEW n \in Nodes, LeafQuery(n) \/ CheckExecutes(n) PROVE TypeOK'
  BY <1>8 DEF LeafQuery, CheckExecutes
<1>9. ASSUME NEW n \in Nodes, TellParent(n) PROVE TypeOK'
  <2>1. Parent(n) \in AllRuns /\ Capacity(Parent(n)) \in Nat
    BY ParentIsRun, CapacityIsNat
  <2> QED
    BY <1>9, <2>1 DEF TellParent, AllRuns
<1>10. ASSUME NEW n \in Nodes, ReturnToParent(n) PROVE TypeOK'
  <2>1. Parent(n) \in Nodes /\ Capacity(Parent(n)) \in Nat
    BY <1>10, ParentOf, CapacityIsNat DEF ReturnToParent, AllRuns
  <2> QED
    BY <1>10, <2>1 DEF ReturnToParent
<1>11. CASE UNCHANGED vars
  BY <1>11 DEF vars
<1> QED
  BY StepCases, <1>1, <1>2, <1>3, <1>4, <1>5, <1>6, <1>7, <1>8, <1>9, <1>10, <1>11

(* The variables have their types, whatever the tree.                      *)
THEOREM TypeCorrect == Spec => []TypeOK
<1>1. Init => TypeOK
  BY InitInv DEF IInv
<1>2. TypeOK /\ [Next]_vars => TypeOK'
  BY TypeStep
<1> QED
  BY <1>1, <1>2, PTL DEF Spec

-----------------------------------------------------------------------------
(* The steps, by what they change.                                         *)

(* A failed run stays failed: a status is set once, or to what it is.      *)
LEMMA StillFails ==
  ASSUME IInv, [Next]_vars, NEW m \in Nodes, Fails(m)
  PROVE  Fails(m)'
<1> SUFFICES ASSUME runStatus[m] = "error", runStatus' # runStatus, m \notin withInput
             PROVE  runStatus'[m] = "error"
  BY StepCases DEF Fails, vars, StartRoot, RootReturns, ExecuteChildren, WaitForChildren,
     ReceiveComplete, ReceiveError, LeafWithInput, LeafIdle, LeafQuery, CheckExecutes, TellParent,
     ReturnToParent
<1>1. pc[m] \notin {"none", "begin", "loop", "select"}
  BY DEF IInv, StatusInv
<1>2. PICK n \in Nodes : WaitForChildren(n) \/ LeafQuery(n) \/ CheckExecutes(n)
  BY StepCases DEF vars, StartRoot, RootReturns, ExecuteChildren,
     ReceiveComplete, ReceiveError, LeafWithInput, LeafIdle, TellParent, ReturnToParent
<1>3. pc[n] \in {"begin", "loop"} /\ \E s : runStatus' = [runStatus EXCEPT ![n] = s]
  BY <1>2 DEF WaitForChildren, LeafQuery, CheckExecutes, Goto, SetStatus
<1> QED
  BY <1>1, <1>3 DEF IInv, TypeOK

LEMMA LoopStep ==
  ASSUME IInv, [Next]_vars
  PROVE  LoopInv'
<1> USE DEF IInv, TypeOK, LoopInv, Goto
<1>1. ASSUME NEW n \in Nodes, ExecuteChildren(n) PROVE LoopInv'
  BY <1>1 DEF ExecuteChildren
<1>2. ASSUME NEW n \in Nodes, WaitForChildren(n) \/ ReceiveComplete(n) \/ ReceiveError(n)
      PROVE  LoopInv'
  BY <1>2 DEF WaitForChildren, ReceiveComplete, ReceiveError
<1>3. CASE StartRoot \/ RootReturns
  BY <1>3 DEF StartRoot, RootReturns
<1>4. ASSUME NEW n \in Nodes,
             \/ LeafWithInput(n) \/ LeafIdle(n) \/ LeafQuery(n) \/ CheckExecutes(n)
             \/ TellParent(n) \/ ReturnToParent(n)
      PROVE  LoopInv'
  BY <1>4 DEF LeafWithInput, LeafIdle, LeafQuery, CheckExecutes, TellParent, ReturnToParent
<1>5. CASE UNCHANGED vars
  BY <1>5 DEF vars
<1> QED
  BY StepCases, <1>1, <1>2, <1>3, <1>4, <1>5

LEMMA StatusStep ==
  ASSUME IInv, [Next]_vars
  PROVE  StatusInv'
<1> USE DashboardTreeAssumption, ReadyRuns DEF IInv, TypeOK, StatusInv, Goto, SetStatus, Final
<1>1. CASE StartRoot
  BY <1>1 DEF StartRoot
<1>2. CASE RootReturns
  BY <1>2 DEF RootReturns
<1>3. ASSUME NEW n \in Nodes, ExecuteChildren(n) PROVE StatusInv'
  BY <1>3 DEF ExecuteChildren, StartInv
<1>4. ASSUME NEW n \in Nodes, WaitForChildren(n) PROVE StatusInv'
  <2>1. CASE ChildrenComplete(n)
    BY <1>4, <2>1 DEF WaitForChildren
  <2>2. CASE ~ChildrenComplete(n)
    <3>1. PICK m \in Children[n] : ~Final(m)
      BY <2>2 DEF ChildrenComplete
    <3>2. n \in Ready
      BY <3>1, ParentsAreReady
    <3> QED
      BY <1>4, <2>2, <3>2 DEF WaitForChildren
  <2> QED
    BY <2>1, <2>2
<1>5. ASSUME NEW n \in Nodes, ReceiveComplete(n) \/ ReceiveError(n) PROVE StatusInv'
  BY <1>5 DEF ReceiveComplete, ReceiveError
<1>6. ASSUME NEW n \in Nodes, LeafWithInput(n) \/ LeafIdle(n) PROVE StatusInv'
  BY <1>6 DEF LeafWithInput, LeafIdle, Leaves
<1>7. ASSUME NEW n \in Nodes, LeafQuery(n) \/ CheckExecutes(n) PROVE StatusInv'
  BY <1>7, ExecutablesAreReady DEF LeafQuery, CheckExecutes
<1>8. ASSUME NEW n \in Nodes, TellParent(n) \/ ReturnToParent(n) PROVE StatusInv'
  BY <1>8 DEF TellParent, ReturnToParent
<1>9. CASE UNCHANGED vars
  BY <1>9 DEF vars
<1> QED
  BY StepCases, <1>1, <1>2, <1>3, <1>4, <1>5, <1>6, <1>7, <1>8, <1>9

LEMMA StartStep ==
  ASSUME IInv, [Next]_vars
  PROVE  StartInv'
<1> USE DashboardTreeAssumption DEF IInv, TypeOK, StartInv, Goto
<1>1. CASE StartRoot
  BY <1>1 DEF StartRoot
<1>2. ASSUME NEW n \in Nodes, ExecuteChildren(n) PROVE StartInv'
  <2> SUFFICES ASSUME NEW k \in Nodes, pc'[k] \in {"none", "begin"}, NEW m \in Children[k]
               PROVE  pc'[m] = "none"
    OBVIOUS
  <2>1. k # n /\ pc[k] \in {"none", "begin"} /\ pc[m] = "none" /\ m \in Nodes
    BY <1>2 DEF ExecuteChildren
  <2>2. m # n /\ m \notin Children[n]
    BY <1>2, <2>1 DEF ExecuteChildren
  <2> QED
    BY <1>2, <2>1, <2>2 DEF ExecuteChildren
<1>3. CASE RootReturns
  BY <1>3 DEF RootReturns
<1>4. ASSUME NEW n \in Nodes, WaitForChildren(n) \/ ReceiveComplete(n) \/ ReceiveError(n)
      PROVE  StartInv'
  BY <1>4 DEF WaitForChildren, ReceiveComplete, ReceiveError
<1>5. ASSUME NEW n \in Nodes, LeafWithInput(n) \/ LeafIdle(n) \/ LeafQuery(n) \/ CheckExecutes(n)
      PROVE  StartInv'
  BY <1>5 DEF LeafWithInput, LeafIdle, LeafQuery, CheckExecutes
<1>6. ASSUME NEW n \in Nodes, TellParent(n) \/ ReturnToParent(n) PROVE StartInv'
  BY <1>6 DEF TellParent, ReturnToParent
<1>7. CASE UNCHANGED vars
  BY <1>7 DEF vars
<1> QED
  BY StepCases, <1>1, <1>2, <1>3, <1>4, <1>5, <1>6, <1>7

LEMMA ErrorStep ==
  ASSUME IInv, [Next]_vars
  PROVE  ErrorInv'
<1> USE DashboardTreeAssumption DEF IInv, TypeOK, ErrorInv, Goto, SetStatus
<1>1. \A m \in Nodes : Fails(m) => Fails(m)'
  BY StillFails
<1>2. CASE UNCHANGED <<err, errors, errChan>>
  BY <1>1, <1>2
<1>3. ASSUME NEW n \in Nodes, WaitForChildren(n) PROVE ErrorInv'
  <2>1. UNCHANGED <<errors, errChan>>
    BY <1>3 DEF WaitForChildren
  <2>2. \A m \in Nodes : err'[m] => Fails(m)'
    BY <1>1, <1>3 DEF WaitForChildren, Fails
  <2> QED
    BY <1>1, <2>1, <2>2
<1>4. ASSUME NEW n \in Nodes, ReceiveError(n) PROVE ErrorInv'
  <2>1. err' = err /\ \A m \in Nodes : errors'[m] \/ errChan'[m] > 0 => errors[m] \/ errChan[m] > 0
    BY <1>4 DEF ReceiveError
  <2> QED
    BY <1>1, <2>1
<1>5. ASSUME NEW n \in Nodes, LeafWithInput(n) \/ LeafQuery(n) \/ CheckExecutes(n) PROVE ErrorInv'
  <2>1. UNCHANGED <<errors, errChan>>
    BY <1>5 DEF LeafWithInput, LeafQuery, CheckExecutes
  <2>2. \A m \in Nodes : err'[m] => Fails(m)'
    BY <1>1, <1>5 DEF LeafWithInput, LeafQuery, CheckExecutes, Fails
  <2> QED
    BY <1>1, <2>1, <2>2
<1>6. ASSUME NEW n \in Nodes, ReturnToParent(n) PROVE ErrorInv'
  <2>1. Parent(n) \in Nodes /\ n \in Children[Parent(n)]
    BY <1>6, ParentOf DEF ReturnToParent
  <2>2. UNCHANGED <<err, errors>>
    BY <1>6 DEF ReturnToParent
  <2>3. \A m \in Nodes : errChan'[m] > 0 => errChan[m] > 0 \/ (m = Parent(n) /\ err[n])
    BY <1>6, <2>1 DEF ReturnToParent
  <2> QED
    BY <1>1, <2>1, <2>2, <2>3
<1> QED
  BY StepCases, <1>2, <1>3, <1>4, <1>5, <1>6 DEF vars, StartRoot, RootReturns, ExecuteChildren,
     ReceiveComplete, LeafIdle, TellParent

(* IInv holds of every state.                                              *)
LEMMA Inductive == Spec => []IInv
<1>1. IInv /\ [Next]_vars => IInv'
  BY TypeStep, LoopStep, StatusStep, StartStep, ErrorStep DEF IInv
<1> QED
  BY InitInv, <1>1, PTL DEF Spec

-----------------------------------------------------------------------------
(* The refinement.                                                         *)

LEMMA PromiseInit == Init => Promise!ResultsInit
BY DashboardTreeAssumption DEF Init, Leaves, Promise!ResultsInit

(* A run that sets its status gives the result of the promise; the end of  *)
(* the root's goroutine, or a dashboard with nothing to execute, is End;   *)
(* all else changes neither.                                               *)
LEMMA PromiseStep ==
  ASSUME IInv, [Next]_vars
  PROVE  [Promise!ResultsNext]_(Promise!resultVars)
<1> USE DashboardTreeAssumption
    DEF IInv, TypeOK, StatusInv, Goto, SetStatus, Final, Promise!resultVars, Promise!ResultsNext,
        Promise!HasResult, Promise!Failed, Promise!Give
<1>1. CASE StartRoot
  BY <1>1 DEF StartRoot, Promise!End
<1>2. CASE RootReturns
  BY <1>2 DEF RootReturns, Promise!End
<1>3. ASSUME NEW n \in Nodes, WaitForChildren(n), ChildrenComplete(n)
      PROVE  [Promise!ResultsNext]_(Promise!resultVars)
  <2>1. n \in Containers /\ pc[n] = "loop" /\ UNCHANGED <<withInput, execution>>
    BY <1>3 DEF WaitForChildren, LoopInv
  <2>2. runStatus' = [runStatus EXCEPT ![n] = IF errors[n] THEN "error" ELSE "complete"]
    BY <1>3 DEF WaitForChildren
  <2>3. CASE n \in Ready
    <3>1. \A m \in Children[n] : Promise!HasResult(m)
      BY <1>3 DEF ChildrenComplete
    <3>2. errors[n] => \E m \in Children[n] : Promise!Failed(m)
      BY DEF ErrorInv, Fails
    <3>3. runStatus[n] = "ready"
      BY <2>1, <2>3
    <3>4. Promise!Conclude(n)
      BY <2>1, <2>2, <3>1, <3>2, <3>3 DEF Promise!Conclude
    <3> QED
      BY <3>4
  <2>4. CASE n \notin Ready
    BY <2>1, <2>2, <2>4
  <2> QED
    BY <2>3, <2>4
<1>4. ASSUME NEW n \in Nodes, LeafQuery(n) \/ CheckExecutes(n)
      PROVE  [Promise!ResultsNext]_(Promise!resultVars)
  <2>1. n \notin Containers \cup withInput
    BY <1>4 DEF LeafQuery, CheckExecutes, Leaves
  <2>2. runStatus[n] = "ready"
    BY <1>4, ExecutablesAreReady DEF LeafQuery, CheckExecutes
  <2>3. Promise!Execute(n)
    BY <1>4, <2>1, <2>2 DEF LeafQuery, CheckExecutes, Promise!Execute
  <2> QED
    BY <2>3
<1>5. CASE UNCHANGED <<withInput, runStatus, execution>>
  BY <1>5
<1> QED
  BY StepCases, <1>1, <1>2, <1>3, <1>4, <1>5
     DEF vars, ExecuteChildren, WaitForChildren, ReceiveComplete, ReceiveError, LeafWithInput,
         LeafIdle, TellParent, ReturnToParent

(* The runs keep the promise: each gets one result, a container after its  *)
(* children and an error only for one of theirs.                           *)
THEOREM ImplementsCorrect == Spec => Implements
<1>1. Init => Promise!ResultsInit
  BY PromiseInit
<1>2. IInv /\ [Next]_vars => [Promise!ResultsNext]_(Promise!resultVars)
  BY PromiseStep
<1> QED
  BY <1>1, <1>2, Inductive, PTL DEF Spec, Implements, Promise!ResultsSpec

-----------------------------------------------------------------------------
(* The channels.  A message is counted against the child that has sent it: *)
(* there are no more messages in a channel than children past the sending, *)
(* and so there is room for the child that is about to send.               *)

Told(n) == {m \in Children[n] : pc[m] \in {"return", "done"}}
Ended(n) == {m \in Children[n] : pc[m] = "done"}

CountInv ==
  /\ \A n \in Nodes : childComplete[n] <= Cardinality(Told(n))
                      /\ errChan[n] <= Cardinality(Ended(n))
  /\ pc[Root] \notin {"return", "done"} => childComplete[Executor] = 0

LEMMA Counting ==
  ASSUME NEW n \in Nodes, NEW T \in SUBSET Children[n], NEW U \in SUBSET T
  PROVE  /\ Cardinality(T) \in Nat /\ Cardinality(U) \in Nat
         /\ Cardinality(U) <= Cardinality(T)
         /\ \A m \in T \ U : Cardinality(U) + 1 <= Cardinality(T)
<1>1. IsFiniteSet(T)
  BY DashboardTreeAssumption, FS_Subset
<1>2. IsFiniteSet(U)
  BY <1>1, FS_Subset
<1>3. Cardinality(T) \in Nat /\ Cardinality(U) \in Nat /\ Cardinality(U) <= Cardinality(T)
  BY <1>1, <1>2, FS_Subset, FS_CardinalityType
<1>4. ASSUME NEW m \in T \ U PROVE Cardinality(U) + 1 <= Cardinality(T)
  <2>1. Cardinality(U \cup {m}) = Cardinality(U) + 1
    BY <1>2, FS_AddElement
  <2>2. U \cup {m} \in SUBSET T
    OBVIOUS
  <2> QED
    BY <1>1, <2>1, <2>2, FS_Subset
<1> QED
  BY <1>3, <1>4

(* Nobody returns to an earlier point than the sending. *)
LEMMA NeverBack ==
  ASSUME IInv, [Next]_vars, NEW n \in Nodes
  PROVE  /\ pc[n] \in {"return", "done"} => pc'[n] \in {"return", "done"}
         /\ pc[n] = "done" => pc'[n] = "done"
<1> USE DEF IInv, TypeOK, Goto
<1>1. ASSUME NEW k \in Nodes, ExecuteChildren(k)
      PROVE  pc[n] \in {"return", "done"} => pc'[n] = pc[n]
  <2>1. \A m \in Children[k] : pc[m] = "none"
    BY <1>1 DEF ExecuteChildren, StartInv
  <2> QED
    BY <1>1, <2>1 DEF ExecuteChildren
<1> QED
  BY StepCases, <1>1 DEF vars, StartRoot, RootReturns, WaitForChildren, ReceiveComplete, ReceiveError,
     LeafWithInput, LeafIdle, LeafQuery, CheckExecutes, TellParent, ReturnToParent

LEMMA CountStep ==
  ASSUME IInv, CountInv, [Next]_vars
  PROVE  CountInv'
<1> USE DashboardTreeAssumption DEF IInv, TypeOK, Goto
<1>1. ASSUME NEW n \in Nodes
      PROVE  Told(n) \subseteq Told(n)' /\ Ended(n) \subseteq Ended(n)'
  BY NeverBack DEF Told, Ended
<1>2. ASSUME NEW n \in Nodes
      PROVE  /\ Told(n)' \in SUBSET Children[n] /\ Told(n) \in SUBSET Told(n)'
             /\ Ended(n)' \in SUBSET Children[n] /\ Ended(n) \in SUBSET Ended(n)'
  BY <1>1 DEF Told, Ended
<1>3. CountInv' = (/\ \A n \in Nodes : childComplete'[n] <= Cardinality(Told(n)')
                                       /\ errChan'[n] <= Cardinality(Ended(n)')
                   /\ pc'[Root] \notin {"return", "done"} => childComplete'[Executor] = 0)
  BY DEF CountInv
<1>4. ASSUME NEW n \in Nodes
      PROVE  childComplete'[n] <= Cardinality(Told(n)')
  <2>1. /\ Cardinality(Told(n)') \in Nat /\ Cardinality(Told(n)) \in Nat
        /\ Cardinality(Told(n)) <= Cardinality(Told(n)')
        /\ \A m \in Told(n)' \ Told(n) : Cardinality(Told(n)) + 1 <= Cardinality(Told(n)')
    BY <1>2, Counting
  <2>2. childComplete[n] \in Nat /\ childComplete[n] <= Cardinality(Told(n))
    BY DEF CountInv
  <2>3. CASE childComplete'[n] = childComplete[n]
    BY <2>1, <2>2, <2>3
  <2>4. ASSUME NEW k \in Nodes, ReceiveComplete(k)
        PROVE  childComplete'[n] <= Cardinality(Told(n)')
    <3>1. childComplete'[n] \in {childComplete[n], childComplete[n] - 1}
      BY <2>4 DEF ReceiveComplete
    <3> QED
      BY <2>1, <2>2, <3>1
  <2>5. ASSUME NEW k \in Nodes, TellParent(k)
        PROVE  childComplete'[n] <= Cardinality(Told(n)')
    <3>1. CASE n # Parent(k)
      BY <2>3, <2>5, <3>1, ParentIsRun DEF TellParent, AllRuns
    <3>2. CASE n = Parent(k)
      <4>1. k \in Children[n]
        BY <3>2, ParentOf DEF Parent, Executor
      <4>2. k \in Told(n)' \ Told(n)
        BY <2>5, <4>1 DEF TellParent, Told
      <4>3. childComplete'[n] = childComplete[n] + 1
        BY <2>5, <3>2 DEF TellParent
      <4> QED
        BY <2>1, <2>2, <4>2, <4>3
    <3> QED
      BY <3>1, <3>2
  <2> QED
    BY StepCases, <2>3, <2>4, <2>5 DEF vars, StartRoot, RootReturns, ExecuteChildren, WaitForChildren,
       ReceiveError, LeafWithInput, LeafIdle, LeafQuery, CheckExecutes, ReturnToParent
<1>5. ASSUME NEW n \in Nodes
      PROVE  errChan'[n] <= Cardinality(Ended(n)')
  <2>1. /\ Cardinality(Ended(n)') \in Nat /\ Cardinality(Ended(n)) \in Nat
        /\ Cardinality(Ended(n)) <= Cardinality(Ended(n)')
        /\ \A m \in Ended(n)' \ Ended(n) : Cardinality(Ended(n)) + 1 <= Cardinality(Ended(n)')
    BY <1>2, Counting
  <2>2. errChan[n] \in Nat /\ errChan[n] <= Cardinality(Ended(n))
    BY DEF CountInv
  <2>3. CASE errChan'[n] = errChan[n]
    BY <2>1, <2>2, <2>3
  <2>4. ASSUME NEW k \in Nodes, ReceiveError(k)
        PROVE  errChan'[n] <= Cardinality(Ended(n)')
    <3>1. errChan'[n] \in {errChan[n], errChan[n] - 1}
      BY <2>4 DEF ReceiveError
    <3> QED
      BY <2>1, <2>2, <3>1
  <2>5. ASSUME NEW k \in Nodes, ReturnToParent(k)
        PROVE  errChan'[n] <= Cardinality(Ended(n)')
    <3>1. Parent(k) \in Nodes /\ k \in Children[Parent(k)]
      BY <2>5, ParentOf DEF ReturnToParent
    <3>2. CASE n # Parent(k) \/ ~err[k]
      BY <2>3, <2>5, <3>1, <3>2 DEF ReturnToParent
    <3>3. CASE n = Parent(k) /\ err[k]
      <4>1. k \in Ended(n)' \ Ended(n)
        BY <2>5, <3>1, <3>3 DEF ReturnToParent, Ended
      <4>2. errChan'[n] = errChan[n] + 1
        BY <2>5, <3>3 DEF ReturnToParent
      <4> QED
        BY <2>1, <2>2, <4>1, <4>2
    <3> QED
      BY <3>2, <3>3
  <2> QED
    BY StepCases, <2>3, <2>4, <2>5 DEF vars, StartRoot, RootReturns, ExecuteChildren, WaitForChildren,
       ReceiveComplete, LeafWithInput, LeafIdle, LeafQuery, CheckExecutes, TellParent
<1>6. pc'[Root] \notin {"return", "done"} => childComplete'[Executor] = 0
  <2> SUFFICES ASSUME pc'[Root] \notin {"return", "done"} PROVE childComplete'[Executor] = 0
    OBVIOUS
  <2>1. childComplete[Executor] = 0
    BY NeverBack DEF CountInv
  <2>2. ASSUME NEW k \in Nodes, ReceiveComplete(k) PROVE childComplete'[Executor] = 0
    BY <2>1, <2>2 DEF ReceiveComplete, Executor
  <2>3. ASSUME NEW k \in Nodes, TellParent(k) PROVE childComplete'[Executor] = 0
    <3>1. k # Root
      BY <2>3 DEF TellParent
    <3>2. Parent(k) # Executor
      BY <3>1, ParentOf DEF Executor
    <3> QED
      BY <2>1, <2>3, <3>2 DEF TellParent
  <2> QED
    BY StepCases, <2>1, <2>2, <2>3 DEF vars, StartRoot, RootReturns, ExecuteChildren, WaitForChildren,
       ReceiveError, LeafWithInput, LeafIdle, LeafQuery, CheckExecutes, ReturnToParent
<1> QED
  BY <1>3, <1>4, <1>5, <1>6

LEMMA RoomForAll == IInv /\ CountInv => NoSendBlocks
<1> SUFFICES ASSUME IInv, CountInv, NEW n \in Nodes
             PROVE  /\ pc[n] = "send" => childComplete[Parent(n)] < Capacity(Parent(n))
                    /\ pc[n] = "return" /\ err[n] /\ n # Root
                         => errChan[Parent(n)] < Capacity(Parent(n))
  BY DEF NoSendBlocks
<1> USE DashboardTreeAssumption DEF IInv, TypeOK
<1>1. CASE n = Root
  <2>1. Parent(n) = Executor /\ Capacity(Executor) = 1
    BY <1>1 DEF Parent, Capacity
  <2> QED
    BY <1>1, <2>1 DEF CountInv
<1>2. CASE n # Root
  <2>1. Parent(n) \in Nodes /\ n \in Children[Parent(n)]
    BY <1>2, ParentOf
  <2>2. Capacity(Parent(n)) = Cardinality(Children[Parent(n)])
    BY <2>1 DEF Capacity, Executor
  <2>3. Told(Parent(n)) \in SUBSET Children[Parent(n)] /\ Ended(Parent(n)) \in SUBSET Children[Parent(n)]
    BY DEF Told, Ended
  <2>4. /\ childComplete[Parent(n)] \in Nat /\ errChan[Parent(n)] \in Nat
        /\ childComplete[Parent(n)] <= Cardinality(Told(Parent(n)))
        /\ errChan[Parent(n)] <= Cardinality(Ended(Parent(n)))
    BY <2>1 DEF CountInv
  <2>5. ASSUME pc[n] = "send" PROVE childComplete[Parent(n)] < Capacity(Parent(n))
    <3>1. n \notin Told(Parent(n))
      BY <2>5 DEF Told
    <3>2. /\ Cardinality(Told(Parent(n))) + 1 <= Cardinality(Children[Parent(n)])
          /\ Cardinality(Told(Parent(n))) \in Nat /\ Cardinality(Children[Parent(n)]) \in Nat
      BY <2>1, <2>3, <3>1, Counting
    <3> QED
      BY <2>2, <2>4, <3>2
  <2>6. ASSUME pc[n] = "return" PROVE errChan[Parent(n)] < Capacity(Parent(n))
    <3>1. n \notin Ended(Parent(n))
      BY <2>6 DEF Ended
    <3>2. /\ Cardinality(Ended(Parent(n))) + 1 <= Cardinality(Children[Parent(n)])
          /\ Cardinality(Ended(Parent(n))) \in Nat /\ Cardinality(Children[Parent(n)]) \in Nat
      BY <2>1, <2>3, <3>1, Counting
    <3> QED
      BY <2>2, <2>4, <3>2
  <2> QED
    BY <2>5, <2>6
<1> QED
  BY <1>1, <1>2

(* However the runs of a tree interleave, none ever waits to report.       *)
THEOREM NoSendBlocksCorrect == Spec => []NoSendBlocks
<1>1. Init => CountInv
  <2> SUFFICES ASSUME Init PROVE CountInv
    OBVIOUS
  <2>1. \A n \in Nodes : Told(n) \in SUBSET Children[n] /\ Ended(n) \in SUBSET Children[n]
    BY DEF Told, Ended
  <2>2. \A n \in Nodes : Cardinality(Told(n)) \in Nat /\ Cardinality(Ended(n)) \in Nat
    BY <2>1, Counting
  <2> QED
    BY <2>2, DashboardTreeAssumption DEF Init, CountInv
<1> QED
  BY <1>1, Inductive, CountStep, RoomForAll, PTL DEF Spec

(***************************************************************************)
(* DashboardServer: the browsers, the watcher and the executions.          *)
(***************************************************************************)

RunRecords == [at : {"none", "started", "running", "complete"},
               dashboard : Dashboards \cup {NONE}, version : Versions \cup {NONE}]

(* What ServerTypeOK leaves open: the records, and the bound of the versions.    *)
RecordsOK ==
  /\ DOMAIN files = {"parts", "condition"}
  /\ \A d \in Dashboards, p \in Parts : files.parts[d][p] <= changes
  /\ runs \in [Runs -> RunRecords]
  /\ \A r \in Runs : runs[r].at = "none" => runs[r] = NoRun
  /\ \A c \in Callers : IF caller[c].at = "none" THEN caller[c] = NoCall
                                               ELSE caller[c].dashboard \in Dashboards
  /\ DOMAIN view = Clients

(* The entry of a dashboard in the map of executions is one of its runs.   *)
ExecutionsInv ==
  \A d \in Dashboards : executions[d] # NONE =>
    runs[executions[d]].dashboard = d /\ runs[executions[d]].at \in {"started", "running"}

(* An execution of the dashboard will be tried, or never any one again.    *)
Stirred(d) ==
  \/ watcher = "relock"
  \/ watcher \in {"event", "execute"} /\ d \in changed
  \/ \E c \in Callers : caller[c].dashboard = d

Executing(d) == {r \in Runs : runs[r].dashboard = d}

Shows(c, d) == view[c] = [dashboard |-> d, version |-> maps[d], complete |-> TRUE]

(* No refresh of a dashboard has been lost: it has one execution at most,  *)
(* and unless another will be tried, that one has the version of the       *)
(* workspace, and without it the browsers show that version.               *)
Current(d) ==
  /\ \A q, r \in Executing(d) : q = r
  /\ Watching(d) # {} /\ ~Stirred(d) =>
       /\ \A r \in Executing(d) : runs[r].version = maps[d]
       /\ Executing(d) = {} => \A c \in Watching(d) : Shows(c, d)

CurrentInv == \A d \in Dashboards \ missed : Current(d)

ServerInv == ServerTypeOK /\ RecordsOK /\ ExecutionsInv /\ CurrentInv
-----------------------------------------------------------------------------
(* The files and the workspace.                                            *)

(* Two versions of a dashboard that are not the same differ in a part.     *)
LEMMA VersionsDiffer ==
  ASSUME NEW prev \in [Dashboards -> Versions], NEW current \in [Dashboards -> Versions],
         NEW d \in Dashboards, prev[d] # current[d]
  PROVE  d \in Differ(prev, current, "own") \cup Differ(prev, current, "benchmark")
<1>1. PICK v \in Versions, w \in Versions : v = prev[d] /\ w = current[d]
  OBVIOUS
<1>2. v["own"] # w["own"] \/ v["benchmark"] # w["benchmark"]
  BY <1>1 DEF Versions, Parts
<1> QED
  BY <1>1, <1>2 DEF Differ

LEMMA RaisedDashboards ==
  ASSUME NEW prev, NEW current, NEW ds \in Raised(prev, current)
  PROVE  ds \subseteq Dashboards /\ Differ(prev, current, "own") \subseteq ds
BY DEF Raised, Differ

-----------------------------------------------------------------------------
(* The types.                                                              *)

(* The variables whose types the steps disturb together.                   *)
FilesOK ==
  /\ files.parts \in [Dashboards -> Versions] /\ files.condition \in {"valid"} \cup Conditions
  /\ DOMAIN files = {"parts", "condition"}
  /\ changes \in 0..MaxChanges
  /\ \A d \in Dashboards, p \in Parts : files.parts[d][p] <= changes
WorkspaceOK ==
  /\ maps \in [Dashboards -> Versions]
  /\ dirty \in BOOLEAN /\ watcherError \in BOOLEAN /\ loadLock \in BOOLEAN /\ crashed \in BOOLEAN
  /\ watcher \in {"idle", "reload", "relock", "event", "execute"}
  /\ loadLock <=> watcher \in {"reload", "relock"}
  /\ changed \subseteq Dashboards /\ missed \subseteq Dashboards
BrowsersOK ==
  /\ dashboard \in [Clients -> Dashboards \cup {NONE, "offline"}]
  /\ selects \in 0..MaxSelects
  /\ \A c \in Clients : view[c].dashboard \in Dashboards \cup {NONE}
  /\ DOMAIN view = Clients
CallsOK ==
  /\ caller \in [Callers -> Calls]
  /\ \A c \in Callers : IF caller[c].at = "none" THEN caller[c] = NoCall
                                               ELSE caller[c].dashboard \in Dashboards
RunsOK ==
  /\ executions \in [Dashboards -> Runs \cup {NONE}]
  /\ runs \in [Runs -> RunRecords]
  /\ \A r \in Runs : runs[r].at = "none" => runs[r] = NoRun

LEMMA TypeParts ==
  ServerTypeOK /\ RecordsOK <=> FilesOK /\ WorkspaceOK /\ BrowsersOK /\ CallsOK /\ RunsOK
<1>1. ServerTypeOK /\ RecordsOK => FilesOK /\ WorkspaceOK /\ BrowsersOK /\ CallsOK /\ RunsOK
  BY DEF ServerTypeOK, RecordsOK, FilesOK, WorkspaceOK, BrowsersOK, CallsOK, RunsOK
<1>2. ASSUME FilesOK, WorkspaceOK, BrowsersOK, CallsOK, RunsOK PROVE ServerTypeOK /\ RecordsOK
  <2>1. \A r \in Runs : runs[r].at \in {"none", "started", "running", "complete"}
    BY <1>2 DEF RunsOK, RunRecords
  <2> QED
    BY <1>2, <2>1 DEF ServerTypeOK, RecordsOK, FilesOK, WorkspaceOK, BrowsersOK, CallsOK, RunsOK
<1> QED
  BY <1>1, <1>2

LEMMA TypesNext ==
  ASSUME FilesOK', WorkspaceOK', BrowsersOK', CallsOK', RunsOK'
  PROVE  ServerTypeOK' /\ RecordsOK'
<1>1. \A r \in Runs : runs'[r].at \in {"none", "started", "running", "complete"}
  BY DEF RunsOK, RunRecords
<1> QED
  BY <1>1 DEF ServerTypeOK, RecordsOK, FilesOK, WorkspaceOK, BrowsersOK, CallsOK, RunsOK

(* What a step leaves alone keeps its type.                                *)
LEMMA PartsSame ==
  /\ FilesOK /\ UNCHANGED <<files, changes>> => FilesOK'
  /\ WorkspaceOK /\ UNCHANGED <<dirty, workspaceVars, watcher, changed, crashed, missed>> => WorkspaceOK'
  /\ BrowsersOK /\ UNCHANGED clientVars => BrowsersOK'
  /\ CallsOK /\ UNCHANGED caller => CallsOK'
  /\ RunsOK /\ UNCHANGED <<executions, runs>> => RunsOK'
<1>1. FilesOK /\ UNCHANGED <<files, changes>> => FilesOK'
  BY DEF FilesOK
<1>2. WorkspaceOK /\ UNCHANGED <<dirty, workspaceVars, watcher, changed, crashed, missed>> => WorkspaceOK'
  BY DEF WorkspaceOK, workspaceVars
<1>3. BrowsersOK /\ UNCHANGED clientVars => BrowsersOK'
  BY DEF BrowsersOK, clientVars
<1>4. CallsOK /\ UNCHANGED caller => CallsOK'
  BY DEF CallsOK
<1>5. RunsOK /\ UNCHANGED <<executions, runs>> => RunsOK'
  BY DEF RunsOK
<1> QED
  BY <1>1, <1>2, <1>3, <1>4, <1>5

LEMMA TypeOfChange ==
  ASSUME ServerTypeOK, RecordsOK, Change
  PROVE  ServerTypeOK' /\ RecordsOK'
<1> USE ServerAssumption
<1>1. FilesOK /\ WorkspaceOK /\ BrowsersOK /\ CallsOK /\ RunsOK
  BY TypeParts
<1>2. PICK parts : parts = files.parts
  OBVIOUS
<1>3. /\ parts \in [Dashboards -> Versions] /\ \A d \in Dashboards, p \in Parts : parts[d][p] <= changes
      /\ changes \in 0..MaxChanges /\ changes < MaxChanges /\ changes' = changes + 1
  BY <1>1, <1>2 DEF FilesOK, Change
<1>4. \A d \in Dashboards : parts[d] \in [Parts -> 0..MaxChanges]
  BY <1>3 DEF Versions
<1>5. ASSUME NEW d \in Dashboards, NEW p \in Parts
      PROVE  /\ [parts[d] EXCEPT ![p] = @ + 1] \in Versions
             /\ \A q \in Parts : [parts[d] EXCEPT ![p] = @ + 1][q] <= changes + 1
  <2>1. parts[d][p] \in 0..MaxChanges /\ parts[d][p] <= changes
    BY <1>3, <1>4
  <2>2. parts[d][p] + 1 \in 0..MaxChanges
    BY <1>3, <2>1
  <2>3. \A q \in Parts : parts[d][q] \in 0..MaxChanges /\ parts[d][q] <= changes
    BY <1>3, <1>4
  <2> QED
    BY <1>3, <1>4, <2>1, <2>2, <2>3 DEF Versions
<1>i. PICK condition \in Conditions :
        \/ \E d \in Dashboards :
             files' = [parts |-> [parts EXCEPT ![d]["own"] = @ + 1], condition |-> condition]
        \/ files' = [parts |-> [d \in Dashboards |-> [parts[d] EXCEPT !["benchmark"] = @ + 1]],
                     condition |-> condition]
  BY <1>2 DEF Change
<1>6. PICK new :
        /\ files' = [parts |-> new, condition |-> condition]
        /\ \/ \E d \in Dashboards : new = [parts EXCEPT ![d]["own"] = @ + 1]
           \/ new = [d \in Dashboards |-> [parts[d] EXCEPT !["benchmark"] = @ + 1]]
  BY <1>i
<1>7. /\ new \in [Dashboards -> Versions]
      /\ \A d \in Dashboards, p \in Parts : new[d][p] <= changes + 1
  <2>1. ASSUME NEW d \in Dashboards, new = [parts EXCEPT ![d]["own"] = @ + 1]
        PROVE  /\ new \in [Dashboards -> Versions]
               /\ \A e \in Dashboards, p \in Parts : new[e][p] <= changes + 1
    <3>1. PICK v \in Versions : v = [parts[d] EXCEPT !["own"] = @ + 1]
      BY <1>5 DEF Parts
    <3>2. new = [parts EXCEPT ![d] = v]
      BY <1>3, <2>1, <3>1
    <3>3. \A q \in Parts : v[q] <= changes + 1
      BY <1>5, <3>1 DEF Parts
    <3>4. \A e \in Dashboards, p \in Parts : parts[e][p] <= changes + 1
      <4> SUFFICES ASSUME NEW e \in Dashboards, NEW p \in Parts PROVE parts[e][p] <= changes + 1
        OBVIOUS
      <4>1. parts[e][p] \in 0..MaxChanges /\ parts[e][p] <= changes
        BY <1>3, <1>4
      <4> QED
        BY <1>3, <4>1
    <3> QED
      BY <1>3, <3>2, <3>3, <3>4
  <2>2. ASSUME new = [d \in Dashboards |-> [parts[d] EXCEPT !["benchmark"] = @ + 1]]
        PROVE  /\ new \in [Dashboards -> Versions]
               /\ \A e \in Dashboards, p \in Parts : new[e][p] <= changes + 1
    BY <1>5, <2>2 DEF Parts
  <2> QED
    BY <1>6, <2>1, <2>2
<1>8. FilesOK'
  <2>1. files'.parts = new /\ files'.condition = condition /\ DOMAIN files' = {"parts", "condition"}
    BY <1>6
  <2>2. changes' \in 0..MaxChanges
    BY <1>3
  <2> QED
    BY <1>3, <1>6, <1>7, <2>1, <2>2 DEF FilesOK
<1>9. WorkspaceOK'
  BY <1>1 DEF Change, WorkspaceOK, workspaceVars
<1> QED
  BY <1>1, <1>8, <1>9, PartsSame, TypesNext DEF Change, executionVars

LEMMA TypeOfHandler ==
  ASSUME ServerTypeOK, RecordsOK, HandleChanges
  PROVE  ServerTypeOK' /\ RecordsOK'
<1> USE ServerAssumption
<1>1. FilesOK /\ WorkspaceOK /\ BrowsersOK /\ CallsOK /\ RunsOK
  BY TypeParts
<1>2. FilesOK' /\ WorkspaceOK' /\ BrowsersOK' /\ CallsOK' /\ RunsOK' => ServerTypeOK' /\ RecordsOK'
  BY TypesNext
<1>3. CASE ReloadStarts
  <2>1. WorkspaceOK'
    BY <1>1, <1>3 DEF ReloadStarts, WorkspaceOK
  <2> QED
    BY <1>1, <1>2, <1>3, <2>1, PartsSame DEF ReloadStarts, executionVars
<1>4. CASE ReloadFails
  <2>1. maps' \in [Dashboards -> Versions] /\ missed' \subseteq Dashboards
    BY <1>1, <1>4 DEF ReloadFails, WorkspaceOK, FilesOK
  <2>2. WorkspaceOK'
    BY <1>1, <1>4, <2>1 DEF ReloadFails, WorkspaceOK, fileVars
  <2> QED
    BY <1>1, <1>2, <1>4, <2>2, PartsSame DEF ReloadFails, executionVars, fileVars
<1>5. CASE ReloadRelocks
  <2>1. WorkspaceOK'
    BY <1>1, <1>5 DEF ReloadRelocks, WorkspaceOK, FilesOK, fileVars
  <2> QED
    BY <1>1, <1>2, <1>5, <2>1, PartsSame DEF ReloadRelocks, executionVars, fileVars
<1>6. CASE ReloadSucceeds
  <2>1. PICK ds \in Raised(maps, files.parts) :
          /\ changed' = ds
          /\ watcher' = IF ds = {} THEN "idle" ELSE "event"
          /\ missed' = missed \cup (Differ(maps, files.parts, "benchmark") \ ds)
    BY <1>6 DEF ReloadSucceeds
  <2>2. changed' \subseteq Dashboards /\ missed' \subseteq Dashboards
    BY <1>1, <2>1, RaisedDashboards DEF Differ, WorkspaceOK
  <2>3. WorkspaceOK'
    BY <1>1, <1>6, <2>1, <2>2 DEF ReloadSucceeds, WorkspaceOK, FilesOK, fileVars
  <2> QED
    BY <1>1, <1>2, <1>6, <2>3, PartsSame DEF ReloadSucceeds, executionVars, fileVars
<1>7. CASE FindWatched \/ EventHandled
  <2>1. WorkspaceOK'
    BY <1>1, <1>7 DEF FindWatched, EventHandled, WorkspaceOK, fileVars, workspaceVars
  <2> QED
    BY <1>1, <1>2, <1>7, <2>1, PartsSame DEF FindWatched, EventHandled, executionVars, fileVars
<1>8. CASE ExecuteChanged
  <2>1. PICK d \in changed :
          /\ changed' = changed \ {d}
          /\ caller' = [caller EXCEPT ![Watcher] = [at |-> "check", dashboard |-> d, version |-> NONE]]
    BY <1>8 DEF ExecuteChanged
  <2>2. d \in Dashboards /\ Watcher \in Callers
    BY <1>1 DEF WorkspaceOK, Callers
  <2>3. CallsOK'
    BY <1>1, <2>1, <2>2 DEF CallsOK, Calls
  <2>4. WorkspaceOK'
    BY <1>1, <1>8, <2>1 DEF ExecuteChanged, WorkspaceOK, fileVars, workspaceVars
  <2> QED
    BY <1>1, <1>2, <1>8, <2>3, <2>4, PartsSame DEF ExecuteChanged, fileVars
<1> QED
  BY <1>3, <1>4, <1>5, <1>6, <1>7, <1>8 DEF HandleChanges
LEMMA TypeOfBrowse ==
  ASSUME ServerTypeOK, RecordsOK, NEW c \in Clients, Browse(c)
  PROVE  ServerTypeOK' /\ RecordsOK'
<1> USE ServerAssumption
<1>1. FilesOK /\ WorkspaceOK /\ BrowsersOK /\ CallsOK /\ RunsOK
  BY TypeParts
<1>2. FilesOK' /\ WorkspaceOK' /\ BrowsersOK' /\ CallsOK' /\ RunsOK' => ServerTypeOK' /\ RecordsOK'
  BY TypesNext
<1>3. CASE Connect(c)
  <2>1. BrowsersOK'
    BY <1>1, <1>3 DEF Connect, BrowsersOK
  <2> QED
    BY <1>1, <1>2, <1>3, <2>1, PartsSame DEF Connect, fileVars, executionVars
<1>4. CASE Disconnect(c)
  <2>1. BrowsersOK'
    BY <1>1, <1>4 DEF Disconnect, BrowsersOK, NothingShown
  <2> QED
    BY <1>1, <1>2, <1>4, <2>1, PartsSame DEF Disconnect, fileVars, executionVars
<1>5. ASSUME NEW d \in Dashboards, Select(c, d) PROVE ServerTypeOK' /\ RecordsOK'
  <2>1. selects' \in 0..MaxSelects
    BY <1>1, <1>5 DEF Select, BrowsersOK
  <2>2. BrowsersOK'
    BY <1>1, <1>5, <2>1 DEF Select, BrowsersOK, NothingShown
  <2>3. CallsOK'
    BY <1>1, <1>5 DEF Select, CallsOK, Calls, Callers
  <2> QED
    BY <1>1, <1>2, <1>5, <2>2, <2>3, PartsSame DEF Select, fileVars
<1> QED
  BY <1>3, <1>4, <1>5 DEF Browse

LEMMA TypeOfExecute ==
  ASSUME ServerTypeOK, RecordsOK, NEW c \in Callers, Execute(c)
  PROVE  ServerTypeOK' /\ RecordsOK'
<1> USE ServerAssumption
<1>1. FilesOK /\ WorkspaceOK /\ BrowsersOK /\ CallsOK /\ RunsOK
  BY TypeParts
<1>2. FilesOK' /\ WorkspaceOK' /\ BrowsersOK' /\ CallsOK' /\ RunsOK' => ServerTypeOK' /\ RecordsOK'
  BY TypesNext
<1>n. NoCall \in Calls /\ NoRun \in RunRecords
  BY DEF NoCall, NoRun, Calls, RunRecords
<1>c. PICK call \in Calls : call = caller[c]
  BY <1>1 DEF CallsOK
<1>3. CASE Refuse(c)
  <2>1. call.dashboard \in Dashboards
    BY <1>1, <1>3, <1>c DEF Refuse, CallsOK
  <2>2. CallsOK'
    BY <1>1, <1>3, <1>n DEF Refuse, CallsOK, NoCall
  <2>3. WorkspaceOK'
    BY <1>1, <1>3, <1>c, <2>1 DEF Refuse, WorkspaceOK, fileVars, workspaceVars
  <2> QED
    BY <1>1, <1>2, <1>3, <2>2, <2>3, PartsSame DEF Refuse, fileVars
<1>4. CASE CheckRunning(c)
  <2>1. [call EXCEPT !.at = "build"] \in Calls /\ [call EXCEPT !.at = "build"].at = "build"
        /\ [call EXCEPT !.at = "build"].dashboard = call.dashboard
    BY DEF Calls
  <2>2. caller' = [caller EXCEPT ![c] = [call EXCEPT !.at = "build"]]
    BY <1>4, <1>c DEF CheckRunning
  <2>3. CallsOK'
    BY <1>1, <1>4, <1>c, <2>1, <2>2 DEF CheckRunning, CallsOK
  <2> QED
    BY <1>1, <1>2, <1>4, <2>3, PartsSame DEF CheckRunning, fileVars
<1>5. CASE BuildTree(c)
  <2>1. PICK v : v = maps[call.dashboard]
    OBVIOUS
  <2>2. call.dashboard \in Dashboards /\ v \in Versions
    BY <1>1, <1>5, <1>c, <2>1 DEF BuildTree, CallsOK, WorkspaceOK
  <2>3. PICK new : new = [call EXCEPT !.at = "insert", !.version = v]
    OBVIOUS
  <2>4. new \in Calls /\ new.at = "insert" /\ new.dashboard = call.dashboard
    BY <2>2, <2>3 DEF Calls
  <2>5. caller' = [caller EXCEPT ![c] = new]
    BY <1>5, <1>c, <2>1, <2>3 DEF BuildTree
  <2>6. CallsOK'
    BY <1>1, <1>c, <2>2, <2>4, <2>5 DEF CallsOK
  <2> QED
    BY <1>1, <1>2, <1>5, <2>6, PartsSame DEF BuildTree, fileVars
<1>6. ASSUME NEW r \in Runs, Insert(c, r) PROVE ServerTypeOK' /\ RecordsOK'
  <2>1. call.dashboard \in Dashboards
    BY <1>1, <1>6, <1>c DEF Insert, CallsOK
  <2>2. PICK new : new = [call EXCEPT !.at = "started"]
    OBVIOUS
  <2>3. new \in RunRecords /\ new.at = "started"
    BY <2>2 DEF Calls, RunRecords
  <2>4. /\ runs' = [runs EXCEPT ![r] = new] /\ caller' = [caller EXCEPT ![c] = NoCall]
        /\ executions' = [executions EXCEPT ![call.dashboard] = r]
    BY <1>6, <1>c, <2>2 DEF Insert
  <2>5. RunsOK'
    BY <1>1, <2>1, <2>3, <2>4 DEF RunsOK
  <2>6. CallsOK'
    BY <1>1, <1>n, <2>4 DEF CallsOK, NoCall
  <2>7. WorkspaceOK'
    BY <1>1, <1>6, <1>c, <2>1 DEF Insert, WorkspaceOK, fileVars, workspaceVars
  <2> QED
    BY <1>1, <1>2, <1>6, <2>5, <2>6, <2>7, PartsSame DEF Insert, fileVars
<1> QED
  BY <1>3, <1>4, <1>5, <1>6 DEF Execute

LEMMA TypeOfRun ==
  ASSUME ServerTypeOK, RecordsOK, NEW r \in Runs, ServerRun(r)
  PROVE  ServerTypeOK' /\ RecordsOK'
<1> USE ServerAssumption
<1>1. FilesOK /\ WorkspaceOK /\ BrowsersOK /\ CallsOK /\ RunsOK
  BY TypeParts
<1>2. FilesOK' /\ WorkspaceOK' /\ BrowsersOK' /\ CallsOK' /\ RunsOK' => ServerTypeOK' /\ RecordsOK'
  BY TypesNext
<1>n. NoRun \in RunRecords
  BY DEF NoRun, RunRecords
<1>c. PICK run \in RunRecords : run = runs[r]
  BY <1>1 DEF RunsOK
<1>s. ASSUME NEW complete, Show(r, complete), UNCHANGED <<dashboard, selects>> PROVE BrowsersOK'
  <2>1. ASSUME NEW c \in Clients PROVE view'[c].dashboard \in Dashboards \cup {NONE}
    <3>1. view'[c] = IF c \in Watching(run.dashboard)
                     THEN [dashboard |-> run.dashboard, version |-> run.version, complete |-> complete]
                     ELSE view[c]
      BY <1>s, <1>c DEF Show
    <3> QED
      BY <1>1, <1>c, <3>1 DEF BrowsersOK, RunRecords
  <2>2. DOMAIN view' = Clients
    BY <1>s DEF Show
  <2> QED
    BY <1>1, <1>s, <2>1, <2>2 DEF BrowsersOK
<1>3. CASE PublishStarted(r)
  <2>1. PICK new : new = [run EXCEPT !.at = "running"]
    OBVIOUS
  <2>2. new \in RunRecords /\ new.at = "running"
    BY <2>1 DEF RunRecords
  <2>3. runs' = [runs EXCEPT ![r] = new]
    BY <1>3, <1>c, <2>1 DEF PublishStarted
  <2>4. RunsOK'
    BY <1>1, <1>3, <2>2, <2>3 DEF PublishStarted, RunsOK
  <2>5. BrowsersOK'
    BY <1>3, <1>s DEF PublishStarted
  <2>6. WorkspaceOK'
    BY <1>1, <1>3, PartsSame DEF PublishStarted, fileVars
  <2> QED
    BY <1>1, <1>2, <1>3, <2>4, <2>5, <2>6, PartsSame DEF PublishStarted, fileVars
<1>4. CASE DeleteExecution(r)
  <2>1. PICK new : new = [run EXCEPT !.at = "complete"]
    OBVIOUS
  <2>2. new \in RunRecords /\ new.at = "complete"
    BY <2>1 DEF RunRecords
  <2>3. runs' = [runs EXCEPT ![r] = new] /\ executions' = [executions EXCEPT ![run.dashboard] = NONE]
    BY <1>4, <1>c, <2>1 DEF DeleteExecution
  <2>4. RunsOK'
    BY <1>1, <2>2, <2>3 DEF RunsOK
  <2> QED
    BY <1>1, <1>2, <1>4, <2>4, PartsSame DEF DeleteExecution, fileVars
<1>5. CASE PublishComplete(r)
  <2>1. RunsOK'
    BY <1>1, <1>5, <1>n DEF PublishComplete, RunsOK, NoRun
  <2>2. BrowsersOK'
    BY <1>5, <1>s DEF PublishComplete
  <2> QED
    BY <1>1, <1>2, <1>5, <2>1, <2>2, PartsSame DEF PublishComplete, fileVars
<1> QED
  BY <1>3, <1>4, <1>5 DEF ServerRun

LEMMA ServerTypeStep ==
  ASSUME ServerTypeOK, RecordsOK, [ServerNext]_serverVars
  PROVE  ServerTypeOK' /\ RecordsOK'
<1>1. FilesOK /\ WorkspaceOK /\ BrowsersOK /\ CallsOK /\ RunsOK
  BY TypeParts
<1>2. CASE UNCHANGED serverVars
  BY <1>1, <1>2, PartsSame, TypesNext DEF serverVars, fileVars, executionVars
<1>3. CASE ConcurrentMapAccess
  <2>1. WorkspaceOK'
    BY <1>1, <1>3 DEF ConcurrentMapAccess, WorkspaceOK, fileVars, workspaceVars
  <2> QED
    BY <1>1, <1>3, <2>1, PartsSame, TypesNext DEF ConcurrentMapAccess, fileVars, executionVars
<1> QED
  BY <1>2, <1>3, TypeOfChange, TypeOfHandler, TypeOfBrowse, TypeOfExecute, TypeOfRun DEF ServerNext
-----------------------------------------------------------------------------
(* The executions.                                                         *)

(* A step inserts one execution, lets one go on, or leaves them alone.     *)
LEMMA ExecutionsStep ==
  ASSUME ServerTypeOK, RecordsOK, ExecutionsInv, [ServerNext]_serverVars
  PROVE  ExecutionsInv'
<1> SUFFICES ASSUME NEW d \in Dashboards, executions'[d] # NONE
             PROVE  /\ runs'[executions'[d]].dashboard = d
                    /\ runs'[executions'[d]].at \in {"started", "running"}
  BY DEF ExecutionsInv
<1>t. RunsOK /\ CallsOK
  BY TypeParts
<1>1. CASE UNCHANGED <<executions, runs>>
  BY <1>1 DEF ExecutionsInv
<1>2. ASSUME NEW c \in Callers, NEW r \in Runs, Insert(c, r)
      PROVE  /\ runs'[executions'[d]].dashboard = d
             /\ runs'[executions'[d]].at \in {"started", "running"}
  <2>1. PICK e \in Dashboards : e = caller[c].dashboard
    BY <1>2, <1>t DEF Insert, CallsOK
  <2>2. PICK new : new = [caller[c] EXCEPT !.at = "started"]
    OBVIOUS
  <2>3. new.at = "started" /\ new.dashboard = e
    <3>1. PICK call \in Calls : call = caller[c]
      BY <1>t DEF CallsOK
    <3> QED
      BY <2>1, <2>2, <3>1 DEF Calls
  <2>4. runs[r] = NoRun /\ runs' = [runs EXCEPT ![r] = new] /\ executions' = [executions EXCEPT ![e] = r]
    BY <1>2, <2>1, <2>2 DEF Insert
  <2>5. CASE d = e
    BY <1>t, <2>3, <2>4, <2>5 DEF RunsOK
  <2>6. CASE d # e
    <3>1. /\ executions'[d] = executions[d] /\ executions[d] \in Runs
          /\ runs[executions[d]].at \in {"started", "running"} /\ runs[executions[d]].dashboard = d
      BY <1>t, <2>4, <2>6 DEF RunsOK, ExecutionsInv
    <3>2. executions[d] # r
      BY <2>4, <3>1 DEF NoRun
    <3> QED
      BY <1>t, <2>4, <3>1, <3>2 DEF RunsOK
  <2> QED
    BY <2>5, <2>6
<1>3. ASSUME NEW r \in Runs, ServerRun(r)
      PROVE  /\ runs'[executions'[d]].dashboard = d
             /\ runs'[executions'[d]].at \in {"started", "running"}
  <2>1. PICK run \in RunRecords : run = runs[r]
    BY <1>t DEF RunsOK
  <2>2. executions'[d] = executions[d]
    BY <1>3, <1>t DEF ServerRun, PublishStarted, DeleteExecution, PublishComplete, RunsOK
  <2>3. /\ executions[d] \in Runs /\ runs[executions[d]].dashboard = d
        /\ runs[executions[d]].at \in {"started", "running"}
    BY <1>t, <2>2 DEF RunsOK, ExecutionsInv
  <2>4. CASE executions[d] # r
    <3>1. runs'[executions[d]] = runs[executions[d]]
      BY <1>3, <1>t, <2>3, <2>4 DEF ServerRun, PublishStarted, DeleteExecution, PublishComplete, RunsOK
    <3> QED
      BY <2>2, <2>3, <3>1
  <2>5. CASE executions[d] = r
    <3>1. PublishStarted(r)
      <4>1. ~PublishComplete(r)
        BY <2>3, <2>5 DEF PublishComplete
      <4>2. ~DeleteExecution(r)
        BY <1>t, <2>2, <2>3, <2>5 DEF DeleteExecution, RunsOK
      <4> QED
        BY <1>3, <4>1, <4>2 DEF ServerRun
    <3>2. runs'[r] = [run EXCEPT !.at = "running"]
      BY <1>t, <2>1, <3>1 DEF PublishStarted, RunsOK
    <3>3. runs'[r].at = "running" /\ runs'[r].dashboard = d
      BY <2>1, <2>3, <2>5, <3>2 DEF RunRecords
    <3> QED
      BY <2>2, <2>5, <3>3
  <2> QED
    BY <2>4, <2>5
<1>4. ASSUME ~UNCHANGED <<executions, runs>>
      PROVE  (\E c \in Callers, r \in Runs : Insert(c, r)) \/ \E r \in Runs : ServerRun(r)
  <2>1. ServerNext
    BY <1>4 DEF serverVars, executionVars
  <2>2. ~Change /\ ~HandleChanges /\ ~ConcurrentMapAccess
    BY <1>4 DEF Change, HandleChanges, ReloadStarts, ReloadFails, ReloadRelocks, ReloadSucceeds,
       FindWatched, ExecuteChanged, EventHandled, ConcurrentMapAccess, executionVars
  <2>3. \A c \in Clients : ~Browse(c)
    BY <1>4 DEF Browse, Connect, Disconnect, Select, executionVars
  <2>4. \A c \in Callers : Execute(c) => \E r \in Runs : Insert(c, r)
    BY <1>4 DEF Execute, Refuse, CheckRunning, BuildTree
  <2> QED
    BY <2>1, <2>2, <2>3, <2>4 DEF ServerNext
<1> QED
  BY <1>1, <1>2, <1>3, <1>4

-----------------------------------------------------------------------------
(* The versions that the browsers show.                                    *)

(* A step that has nothing to do with a dashboard, or has it executed.     *)
LEMMA CurrentKept ==
  ASSUME NEW d \in Dashboards, Current(d), Executing(d)' = Executing(d),
         \/ Stirred(d)'
         \/ /\ maps'[d] = maps[d]
            /\ \A r \in Executing(d) : runs'[r].version = runs[r].version
            /\ Watching(d)' \subseteq Watching(d)
            /\ Watching(d)' # {} => (Stirred(d) => Stirred(d)')
            /\ \A c \in Watching(d)' : view'[c] = view[c]
  PROVE  Current(d)'
<1>1. CASE Stirred(d)'
  BY <1>1 DEF Current
<1>2. CASE /\ maps'[d] = maps[d]
           /\ \A r \in Executing(d) : runs'[r].version = runs[r].version
           /\ Watching(d)' \subseteq Watching(d)
           /\ Watching(d)' # {} => (Stirred(d) => Stirred(d)')
           /\ \A c \in Watching(d)' : view'[c] = view[c]
  <2>1. \A q, r \in Executing(d)' : q = r
    BY DEF Current
  <2>2. ASSUME Watching(d)' # {}, ~Stirred(d)'
        PROVE  /\ \A r \in Executing(d)' : runs'[r].version = maps'[d]
               /\ Executing(d)' = {} => \A c \in Watching(d)' : Shows(c, d)'
    BY <1>2, <2>2 DEF Current, Shows
  <2> QED
    BY <2>1, <2>2 DEF Current
<1> QED
  BY <1>1, <1>2
LEMMA CurrentOfHandler ==
  ASSUME ServerTypeOK, RecordsOK, CurrentInv, HandleChanges, NEW d \in Dashboards \ missed'
  PROVE  Current(d)'
<1>s. Executing(d)' = Executing(d) /\ UNCHANGED <<runs, dashboard, view>>
  BY DEF HandleChanges, ReloadStarts, ReloadFails, ReloadRelocks, ReloadSucceeds, FindWatched,
     ExecuteChanged, EventHandled, executionVars, clientVars, Executing
<1>w. Watching(d)' = Watching(d)
  BY <1>s DEF Watching, Connected
<1>m. d \notin missed /\ Current(d)
  BY DEF HandleChanges, ReloadStarts, ReloadFails, ReloadRelocks, ReloadSucceeds, FindWatched,
     ExecuteChanged, EventHandled, CurrentInv
<1>k. ASSUME maps'[d] = maps[d], Watching(d) # {} => (Stirred(d) => Stirred(d)')
      PROVE  Current(d)'
  BY <1>k, <1>s, <1>w, <1>m, CurrentKept
<1>1. CASE ReloadStarts
  BY <1>1, <1>k DEF ReloadStarts, Stirred, executionVars
<1>2. CASE ReloadFails
  <2>1. maps'[d] = maps[d]
    BY <1>2 DEF ReloadFails
  <2> QED
    BY <1>2, <1>k, <2>1 DEF ReloadFails, Stirred, executionVars
<1>3. CASE ReloadRelocks
  <2>1. Stirred(d)'
    BY <1>3 DEF ReloadRelocks, Stirred
  <2> QED
    BY <1>s, <1>m, <2>1, CurrentKept
<1>4. CASE ReloadSucceeds
  <2>1. PICK ds \in Raised(maps, files.parts) :
          /\ changed' = ds
          /\ watcher' = IF ds = {} THEN "idle" ELSE "event"
          /\ missed' = missed \cup (Differ(maps, files.parts, "benchmark") \ ds)
    BY <1>4 DEF ReloadSucceeds
  <2>2. CASE maps[d] # files.parts[d]
    <3>1. d \in ds
      <4>1. maps \in [Dashboards -> Versions] /\ files.parts \in [Dashboards -> Versions]
        BY DEF ServerTypeOK
      <4> QED
        BY <2>1, <2>2, <4>1, VersionsDiffer, RaisedDashboards
    <3>2. Stirred(d)'
      BY <2>1, <3>1 DEF Stirred
    <3> QED
      BY <1>s, <1>m, <3>2, CurrentKept
  <2>3. CASE maps[d] = files.parts[d]
    BY <1>4, <1>k, <2>3 DEF ReloadSucceeds, Stirred, executionVars
  <2> QED
    BY <2>2, <2>3
<1>5. CASE FindWatched
  BY <1>5, <1>k DEF FindWatched, Stirred, executionVars, workspaceVars
<1>6. CASE ExecuteChanged
  <2>1. PICK e \in changed :
          /\ changed' = changed \ {e}
          /\ caller' = [caller EXCEPT ![Watcher] = [at |-> "check", dashboard |-> e, version |-> NONE]]
    BY <1>6 DEF ExecuteChanged
  <2>2. Watcher \in Callers /\ DOMAIN caller = Callers
    BY DEF Callers, ServerTypeOK
  <2>3. \A k \in Callers : caller[k].dashboard = d => caller'[k].dashboard = d
    BY <1>6, <2>1, <2>2, ServerAssumption DEF ExecuteChanged, NoCall
  <2>4. Stirred(d) => Stirred(d)'
    BY <1>6, <2>1, <2>2, <2>3 DEF ExecuteChanged, Stirred
  <2> QED
    BY <1>6, <1>k, <2>4 DEF ExecuteChanged, workspaceVars
<1>7. CASE EventHandled
  BY <1>7, <1>k DEF EventHandled, Stirred, executionVars, workspaceVars
<1> QED
  BY <1>1, <1>2, <1>3, <1>4, <1>5, <1>6, <1>7 DEF HandleChanges

LEMMA CurrentOfBrowse ==
  ASSUME ServerTypeOK, RecordsOK, CurrentInv, NEW c \in Clients, Browse(c), NEW d \in Dashboards \ missed'
  PROVE  Current(d)'
<1>s. Executing(d)' = Executing(d) /\ UNCHANGED <<runs, maps, watcher, changed, missed>>
  BY DEF Browse, Connect, Disconnect, Select, executionVars, workspaceVars, Executing
<1>m. Current(d)
  BY <1>s DEF CurrentInv
<1>t. DOMAIN dashboard = Clients /\ DOMAIN view = Clients /\ c \in Callers /\ DOMAIN caller = Callers
  BY DEF ServerTypeOK, RecordsOK, Callers
<1>1. CASE Connect(c)
  <2>1. Watching(d)' \subseteq Watching(d)
    BY <1>1, <1>t, ServerAssumption DEF Connect, Watching, Connected
  <2>2. Stirred(d) => Stirred(d)'
    BY <1>1 DEF Connect, Stirred, executionVars
  <2> QED
    BY <1>1, <1>s, <1>m, <2>1, <2>2, CurrentKept DEF Connect
<1>2. CASE Disconnect(c)
  <2>1. Watching(d)' \subseteq Watching(d) /\ c \notin Watching(d)'
    BY <1>2, <1>t DEF Disconnect, Watching, Connected
  <2>2. \A k \in Watching(d)' : view'[k] = view[k]
    BY <1>2, <1>t, <2>1 DEF Disconnect
  <2>3. Stirred(d) => Stirred(d)'
    BY <1>2 DEF Disconnect, Stirred, executionVars
  <2> QED
    BY <1>s, <1>m, <2>1, <2>2, <2>3, CurrentKept
<1>3. ASSUME Select(c, d) PROVE Current(d)'
  <2>1. caller'[c].dashboard = d
    BY <1>3, <1>t DEF Select
  <2>2. Stirred(d)'
    BY <1>t, <2>1 DEF Stirred
  <2> QED
    BY <1>s, <1>m, <2>2, CurrentKept
<1>4. ASSUME NEW e \in Dashboards \ {d}, Select(c, e) PROVE Current(d)'
  <2>1. Watching(d)' \subseteq Watching(d) /\ c \notin Watching(d)'
    BY <1>4, <1>t DEF Select, Watching, Connected
  <2>2. \A k \in Watching(d)' : view'[k] = view[k]
    BY <1>4, <1>t, <2>1 DEF Select
  <2>3. \A k \in Callers : caller[k].dashboard = d => caller'[k].dashboard = d
    BY <1>4, <1>t, ServerAssumption DEF Select, NoCall
  <2>4. Stirred(d) => Stirred(d)'
    BY <1>s, <2>3 DEF Stirred
  <2> QED
    BY <1>s, <1>m, <2>1, <2>2, <2>4, CurrentKept
<1> QED
  BY <1>1, <1>2, <1>3, <1>4 DEF Browse

LEMMA CurrentOfExecute ==
  ASSUME ServerTypeOK, RecordsOK, ExecutionsInv, CurrentInv, NEW c \in Callers, Execute(c),
         NEW d \in Dashboards \ missed'
  PROVE  Current(d)'
<1>s. UNCHANGED <<maps, watcher, changed, dashboard, view>>
  BY DEF Execute, Refuse, CheckRunning, BuildTree, Insert, workspaceVars, clientVars
<1>w. Watching(d)' = Watching(d)
  BY <1>s DEF Watching, Connected
<1>t. RunsOK /\ CallsOK
  BY TypeParts
<1>c. PICK call \in Calls : call = caller[c]
  BY <1>t DEF CallsOK
<1>o. \A k \in Callers \ {c} : caller'[k] = caller[k]
  BY <1>t DEF Execute, Refuse, CheckRunning, BuildTree, Insert, CallsOK
<1>k. ASSUME Current(d), Executing(d)' = Executing(d),
             \A r \in Executing(d) : runs'[r].version = runs[r].version,
             call.dashboard = d => caller'[c].dashboard = d
      PROVE  Current(d)'
  <2>1. Stirred(d) => Stirred(d)'
    BY <1>c, <1>k, <1>o, <1>s DEF Stirred
  <2> QED
    BY <1>k, <1>s, <1>w, <2>1, CurrentKept
<1>1. CASE Refuse(c)
  <2>1. UNCHANGED runs /\ Executing(d)' = Executing(d)
    BY <1>1 DEF Refuse, Executing
  <2>2. d \notin missed /\ Current(d)
    BY <1>1 DEF Refuse, CurrentInv
  <2>3. CASE call.dashboard # d
    BY <1>k, <2>1, <2>2, <2>3
  <2>4. CASE call.dashboard = d
    <3>1. executions[d] # NONE /\ runs[executions[d]].version = maps[d]
      BY <1>1, <1>c, <2>4 DEF Refuse
    <3>2. executions[d] \in Executing(d)
      BY <1>t, <3>1 DEF RunsOK, ExecutionsInv, Executing
    <3>3. Executing(d) = {executions[d]}
      BY <2>2, <3>2 DEF Current
    <3> QED
      BY <1>s, <2>1, <3>1, <3>3 DEF Current
  <2> QED
    BY <2>3, <2>4
<1>2. CASE CheckRunning(c) \/ BuildTree(c)
  <2>1. UNCHANGED <<runs, missed>> /\ Executing(d)' = Executing(d)
    BY <1>2 DEF CheckRunning, BuildTree, Executing
  <2>2. caller'[c].dashboard = call.dashboard
    <3>1. CASE CheckRunning(c)
      <4>1. caller'[c] = [call EXCEPT !.at = "build"]
        BY <1>c, <1>t, <3>1 DEF CheckRunning, CallsOK
      <4> QED
        BY <4>1 DEF Calls
    <3>2. CASE BuildTree(c)
      <4>1. PICK v : v = maps[call.dashboard]
        OBVIOUS
      <4>2. caller'[c] = [call EXCEPT !.at = "insert", !.version = v]
        BY <1>c, <1>t, <3>2, <4>1 DEF BuildTree, CallsOK
      <4> QED
        BY <4>2 DEF Calls
    <3> QED
      BY <1>2, <3>1, <3>2
  <2> QED
    BY <1>k, <2>1, <2>2 DEF CurrentInv
<1>3. ASSUME NEW r \in Runs, Insert(c, r) PROVE Current(d)'
  <2>1. PICK new : new = [call EXCEPT !.at = "started"]
    OBVIOUS
  <2>2. new.dashboard = call.dashboard /\ new.version = call.version
    BY <2>1 DEF Calls
  <2>3. runs[r] = NoRun /\ runs' = [runs EXCEPT ![r] = new]
    BY <1>3, <1>c, <2>1 DEF Insert
  <2>4. CASE call.dashboard = d
    <3>1. ~Overlaps(d) /\ call.version = maps[d]
      BY <1>3, <1>c, <2>4 DEF Insert
    <3>2. Executing(d)' = {r}
      BY <1>t, <2>2, <2>3, <2>4, <3>1 DEF Executing, Overlaps, RunsOK
    <3>3. runs'[r].version = maps'[d]
      BY <1>s, <1>t, <2>2, <2>3, <3>1 DEF RunsOK
    <3> QED
      BY <3>2, <3>3 DEF Current
  <2>5. CASE call.dashboard # d
    <3>1. r \notin Executing(d)
      BY <2>3, ServerAssumption DEF Executing, NoRun
    <3>2. Executing(d)' = Executing(d)
      BY <1>t, <2>2, <2>3, <2>5, <3>1 DEF Executing, RunsOK
    <3>3. \A q \in Executing(d) : runs'[q].version = runs[q].version
      BY <1>t, <2>3, <3>1 DEF Executing, RunsOK
    <3>4. d \notin missed
      BY <1>3, <1>c, <2>5 DEF Insert
    <3> QED
      BY <1>k, <2>5, <3>2, <3>3, <3>4 DEF CurrentInv
  <2> QED
    BY <2>4, <2>5
<1> QED
  BY <1>1, <1>2, <1>3 DEF Execute

LEMMA CurrentOfRun ==
  ASSUME ServerTypeOK, RecordsOK, CurrentInv, NEW r \in Runs, ServerRun(r), NEW d \in Dashboards \ missed'
  PROVE  Current(d)'
<1>s. UNCHANGED <<maps, watcher, changed, dashboard, caller, missed>>
  BY DEF ServerRun, PublishStarted, DeleteExecution, PublishComplete, workspaceVars, clientVars
<1>w. Watching(d)' = Watching(d)
  BY <1>s DEF Watching, Connected
<1>t. RunsOK
  BY TypeParts
<1>m. Current(d)
  BY <1>s DEF CurrentInv
<1>i. Stirred(d)' <=> Stirred(d)
  BY <1>s DEF Stirred
<1>c. PICK run \in RunRecords : run = runs[r]
  BY <1>t DEF RunsOK
<1>o. \A q \in Runs \ {r} : runs'[q] = runs[q]
  BY <1>t DEF ServerRun, PublishStarted, DeleteExecution, PublishComplete, RunsOK
(* The dashboard is another one, whose browsers the run tells nothing.     *)
<1>1. CASE run.dashboard # d
  <2>1. r \notin Executing(d)
    BY <1>1, <1>c DEF Executing
  <2>2. runs'[r].dashboard # d
    <3>1. CASE PublishStarted(r)
      <4>1. runs'[r] = [run EXCEPT !.at = "running"]
        BY <1>c, <1>t, <3>1 DEF PublishStarted, RunsOK
      <4> QED
        BY <1>1, <4>1 DEF RunRecords
    <3>2. CASE DeleteExecution(r)
      <4>1. runs'[r] = [run EXCEPT !.at = "complete"]
        BY <1>c, <1>t, <3>2 DEF DeleteExecution, RunsOK
      <4> QED
        BY <1>1, <4>1 DEF RunRecords
    <3>3. CASE PublishComplete(r)
      BY <1>t, <3>3, ServerAssumption DEF PublishComplete, RunsOK, NoRun
    <3> QED
      BY <3>1, <3>2, <3>3 DEF ServerRun
  <2>3. Executing(d)' = Executing(d) /\ \A q \in Executing(d) : runs'[q].version = runs[q].version
    BY <1>o, <2>1, <2>2 DEF Executing
  <2>4. \A k \in Watching(d)' : view'[k] = view[k]
    BY <1>1, <1>c, <1>w DEF ServerRun, PublishStarted, DeleteExecution, PublishComplete, Show, Watching, Connected,
       clientVars
  <2> QED
    BY <1>s, <1>w, <1>m, <1>i, <2>3, <2>4, CurrentKept
<1>2. CASE run.dashboard = d
  <2>1. Executing(d) = {r}
    BY <1>2, <1>c, <1>m DEF Executing, Current
  <2>2. Watching(d) # {} /\ ~Stirred(d) => run.version = maps[d]
    BY <1>c, <1>m, <2>1 DEF Current
  <2>3. CASE PublishStarted(r) \/ DeleteExecution(r)
    <3>1. PICK new : new \in {[run EXCEPT !.at = "running"], [run EXCEPT !.at = "complete"]}
                     /\ runs'[r] = new
      BY <1>c, <1>t, <2>3 DEF PublishStarted, DeleteExecution, RunsOK
    <3>2. new.dashboard = d /\ new.version = run.version
      BY <1>2, <3>1 DEF RunRecords
    <3>3. Executing(d)' = {r}
      BY <1>o, <2>1, <3>1, <3>2 DEF Executing
    <3> QED
      BY <1>s, <1>w, <1>i, <2>2, <3>1, <3>2, <3>3 DEF Current
  <2>4. CASE PublishComplete(r)
    <3>1. runs'[r] = NoRun
      BY <1>t, <2>4 DEF PublishComplete, RunsOK
    <3>2. Executing(d)' = {}
      BY <1>o, <2>1, <3>1, ServerAssumption DEF Executing, NoRun
    <3>3. ASSUME NEW k \in Watching(d), ~Stirred(d) PROVE Shows(k, d)'
      <4>1. view'[k] = [dashboard |-> d, version |-> run.version, complete |-> TRUE]
        BY <1>2, <1>c, <2>4, <3>3 DEF PublishComplete, Show, Watching, Connected
      <4> QED
        BY <1>s, <2>2, <3>3, <4>1 DEF Shows
    <3> QED
      BY <1>w, <1>i, <3>2, <3>3 DEF Current
  <2> QED
    BY <2>3, <2>4 DEF ServerRun
<1> QED
  BY <1>1, <1>2

LEMMA CurrentStep ==
  ASSUME ServerTypeOK, RecordsOK, ExecutionsInv, CurrentInv, [ServerNext]_serverVars
  PROVE  CurrentInv'
<1> SUFFICES ASSUME NEW d \in Dashboards \ missed' PROVE Current(d)'
  BY DEF CurrentInv
<1>1. CASE UNCHANGED serverVars \/ Change \/ ConcurrentMapAccess
  <2>1. UNCHANGED <<workspaceVars, watcher, changed, clientVars, executionVars, missed>>
    BY <1>1 DEF serverVars, Change, ConcurrentMapAccess
  <2>2. Current(d) /\ Executing(d)' = Executing(d) /\ Watching(d)' = Watching(d)
        /\ (Stirred(d)' <=> Stirred(d))
    BY <2>1 DEF CurrentInv, Executing, Watching, Connected, Stirred, clientVars, executionVars
  <2> QED
    BY <2>1, <2>2, CurrentKept DEF workspaceVars, clientVars, executionVars
<1> QED
  BY <1>1, CurrentOfHandler, CurrentOfBrowse, CurrentOfExecute, CurrentOfRun DEF ServerNext

-----------------------------------------------------------------------------
(* The theorems.                                                           *)

LEMMA ServerInvInit == ServerInit => ServerInv
<1> SUFFICES ASSUME ServerInit PROVE ServerInv
  OBVIOUS
<1> USE ServerAssumption
<1>1. PICK parts : parts = [d \in Dashboards |-> [p \in Parts |-> 0]]
  OBVIOUS
<1>2. parts \in [Dashboards -> Versions] /\ \A d \in Dashboards, p \in Parts : parts[d][p] = 0
  BY <1>1 DEF Versions
<1>3. FilesOK
  <2>1. files = [parts |-> parts, condition |-> "valid"]
    BY <1>1 DEF ServerInit
  <2>2. files.parts = parts /\ files.condition = "valid" /\ DOMAIN files = {"parts", "condition"}
    BY <2>1
  <2> QED
    BY <1>2, <2>2 DEF ServerInit, FilesOK
<1>4. WorkspaceOK
  BY <1>3 DEF ServerInit, WorkspaceOK, FilesOK
<1>5. BrowsersOK
  BY DEF ServerInit, BrowsersOK, NothingShown
<1>6. CallsOK
  BY DEF ServerInit, CallsOK, Calls, NoCall
<1>7. RunsOK
  BY DEF ServerInit, RunsOK, RunRecords, NoRun
<1>8. ExecutionsInv
  BY DEF ServerInit, ExecutionsInv
<1>9. CurrentInv
  BY DEF ServerInit, CurrentInv, Current, Watching, Connected, Executing, NoRun
<1> QED
  BY <1>3, <1>4, <1>5, <1>6, <1>7, <1>8, <1>9, TypeParts DEF ServerInv

(* The inductive invariant holds in every reachable state.                 *)
THEOREM ServerInvariance == ServerSpec => []ServerInv
<1>1. ServerInit => ServerInv
  BY ServerInvInit
<1>2. ServerInv /\ [ServerNext]_serverVars => ServerInv'
  BY ServerTypeStep, ExecutionsStep, CurrentStep DEF ServerInv
<1> QED
  BY <1>1, <1>2, PTL DEF ServerSpec

(* Every variable keeps its type, and the reload alone holds the loadLock. *)
THEOREM ServerTypeCorrect == ServerSpec => []ServerTypeOK
<1>1. ServerInv => ServerTypeOK
  BY DEF ServerInv
<1> QED
  BY <1>1, ServerInvariance, PTL

(* When nothing is under way, a browser shows the last version of the      *)
(* dashboard it selected, unless a refresh of the dashboard was lost in    *)
(* one of the ways the model records.                                      *)
THEOREM ShowsLatestCorrect == ServerSpec => []ShowsLatest
<1>1. ServerInv => ShowsLatest
  <2> SUFFICES ASSUME ServerInv, Quiet, NEW c \in Connected, dashboard[c] \in Dashboards \ missed
               PROVE  view[c] = [dashboard |-> dashboard[c], version |-> maps[dashboard[c]],
                                 complete |-> TRUE]
    BY DEF ShowsLatest
  <2>1. PICK d \in Dashboards \ missed : d = dashboard[c]
    OBVIOUS
  <2>2. Current(d) /\ c \in Watching(d)
    BY <2>1 DEF ServerInv, CurrentInv, Watching
  <2>3. ~Stirred(d)
    BY ServerAssumption DEF Quiet, Stirred, NoCall
  <2>4. Executing(d) = {}
    BY ServerAssumption DEF Quiet, Executing, NoRun
  <2> QED
    BY <2>1, <2>2, <2>3, <2>4 DEF Current, Shows
<1> QED
  BY <1>1, ServerInvariance, PTL
================================================================================
