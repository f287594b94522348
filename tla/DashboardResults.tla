---------------------------- MODULE DashboardResults ----------------------------
(***************************************************************************)
(* What the execution of a dashboard promises to those who watch it: each  *)
(* run gets one result, which it keeps; a container only after all its     *)
(* children, and an error only when one of them failed; and the execution  *)
(* is over when the dashboard has its result.  How the runs tell each      *)
(* other is DashboardExecution.                                            *)
(***************************************************************************)
CONSTANTS
  Nodes,       \* the runs
  Root,        \* the run of the dashboard
  Children,    \* Children[n]: the children of run n
  Containers,  \* the runs that execute children only
  Ready        \* the runs with something to execute, themselves or below them

VARIABLES
  dependent,   \* the runs that depend on an input of the dashboard
  result,      \* the status of each run
  over         \* the execution is complete

resultVars == <<dependent, result, over>>

HasResult(n) == result[n] \in {"complete", "error"}

\* A run that has nothing to execute fails all the same when it depends on an input.
Failed(n) == result[n] = "error" \/ n \in dependent

ResultsInit ==
  /\ dependent \in SUBSET (Nodes \ Containers)
  /\ result = [n \in Nodes |-> IF n \in Ready THEN "ready" ELSE "complete"]
  /\ over = FALSE

Give(n, r) ==
  /\ result[n] = "ready"
  /\ result' = [result EXCEPT ![n] = r]
  /\ UNCHANGED <<dependent, over>>

Execute(n) ==
  /\ n \notin Containers \cup dependent
  /\ \E r \in {"complete", "error"} : Give(n, r)

(* A container may miss the error of a child: see ReturnToParent. *)
Conclude(n) ==
  /\ n \in Containers
  /\ \A m \in Children[n] : HasResult(m)
  /\ \/ Give(n, "complete")
     \/ (\E m \in Children[n] : Failed(m)) /\ Give(n, "error")

End ==
  /\ ~over /\ HasResult(Root)
  /\ over' = TRUE
  /\ UNCHANGED <<dependent, result>>

ResultsNext == End \/ \E n \in Nodes : Execute(n) \/ Conclude(n)

ResultsSpec == ResultsInit /\ [][ResultsNext]_resultVars
=============================================================================
