--------------------------- MODULE ControlExecution ---------------------------
(***************************************************************************)
(* The execution of a benchmark (control/controlexecute): Execute walks a  *)
(* tree of result groups and starts one goroutine per control, at most     *)
(* MaxParallel at a time.  A control run takes a session from a pool of    *)
(* MaxParallel database connections, starts its query and gathers the rows *)
(* in a goroutine of its own; the summary of the run is added to its       *)
(* result group and to every group above it.  The user may cancel at any   *)
(* moment.                                                                 *)
(*                                                                         *)
(* A summary keeps three of the five statuses: skip and info are counted   *)
(* like ok.                                                                *)
(***************************************************************************)
EXTENDS ControlTree

CONSTANTS
  MaxParallel,  \* bound: permits of the semaphore, and connections of the pool
  MaxRows       \* bound: rows a query returns

ASSUME BoundsAssumption == MaxParallel \in Nat \ {0} /\ MaxRows \in Nat

VARIABLES
  cancelled,    \* the context is cancelled
  check,        \* the arguments of the check and the tree built for them
  main,         \* where Execute is
  next,         \* the index in its walk of the next control
  failures,     \* what Execute returned, or -1
  pc,           \* where the goroutine of a control run is
  gather,       \* where the goroutine that gathers its rows is
  sessions,     \* how many sessions the run holds: one per nested execute
  attempts,     \* how many of its queries were retried
  runStatus,    \* its status
  doneChan,     \* its doneChan, with room for one, is full
  summary,      \* the run's own summary
  groupSummary, \* the summaries of the groups
  progress      \* the counters of the progress display

runVars == <<pc, sessions, attempts>>
mainVars == <<check, main, next, failures>>
vars == <<cancelled, mainVars, runVars, gather, runStatus, doneChan, summary,
          groupSummary, progress>>

MaxControlRunAttempts == 2

Statuses == {"ok", "alarm", "error"}
NoResults == [s \in Statuses |-> 0]
Total(sum) == sum["ok"] + sum["alarm"] + sum["error"]
Failed(sum) == sum["alarm"] + sum["error"]

\* The goroutines that hold a permit of the semaphore.
Running == {c \in Controls : pc[c] \notin {"idle", "done"}}
SessionsHeld ==
  Cardinality({s \in Controls \X (1..MaxControlRunAttempts) : s[2] <= sessions[s[1]]})
Finished(c) == runStatus[c] \in {"complete", "error"}

Init ==
  /\ cancelled = FALSE
  /\ \E arg \in Arguments, filter \in Filters, dryRun \in BOOLEAN, maxParallel \in 1..MaxParallel :
       LET tree == NewRootResultGroup(arg, filter)
       IN check = [arg |-> arg, filter |-> filter, dryRun |-> dryRun, maxParallel |-> maxParallel,
                   walk |-> tree.walk, groups |-> tree.groups]
  /\ main = "walk"
  /\ next = 1
  /\ failures = -1
  /\ pc = [c \in Controls |-> "idle"]
  /\ gather = [c \in Controls |-> "none"]
  /\ sessions = [c \in Controls |-> 0]
  /\ attempts = [c \in Controls |-> 0]
  /\ runStatus = [c \in Controls |-> "ready"]
  /\ doneChan = [c \in Controls |-> FALSE]
  /\ summary = [c \in Controls |-> NoResults]
  /\ groupSummary = [g \in Groups |-> NoResults]
  /\ progress = [pending |-> Len(check.walk), executing |-> 0, complete |-> 0, error |-> 0]

Goto(c, from, to) ==
  /\ pc[c] = from
  /\ pc' = [pc EXCEPT ![c] = to]

GatherGoto(c, from, to) ==
  /\ gather[c] = from
  /\ gather' = [gather EXCEPT ![c] = to]

(* setError and setRunStatus, up to the send on doneChan. *)
SetError(c) ==
  /\ summary' = [summary EXCEPT ![c]["error"] = @ + 1]
  /\ runStatus' = [runStatus EXCEPT ![c] = "error"]
  /\ progress' = [progress EXCEPT !.error = @ + 1]

SetComplete(c) ==
  /\ runStatus' = [runStatus EXCEPT ![c] = "complete"]
  /\ progress' = [progress EXCEPT !.complete = @ + 1]
  /\ UNCHANGED summary

(* The send on doneChan: it blocks while the channel is full. *)
SendDone(c) ==
  /\ ~doneChan[c]
  /\ doneChan' = [doneChan EXCEPT ![c] = TRUE]

(* updateSummary: add the run's summary to its group and to those above it.*)
UpdateSummary(c) ==
  groupSummary' =
    [g \in Groups |-> IF g \in Above[c.group] \cap check.groups
                      THEN [s \in Statuses |-> groupSummary[g][s] + summary[c][s]]
                      ELSE groupSummary[g]]

-----------------------------------------------------------------------------
(* Mutants: what plausible slips in the code below would do.               *)

\* Wait without a timeout for the cancelled runs.
MutExecuteWaits ==
  /\ main = "wait"
  /\ Running = {}
  /\ main' = "done"
  /\ failures' = Failed(groupSummary[RootResultGroup])
  /\ UNCHANGED <<cancelled, check, next, runVars, gather, runStatus, doneChan, summary,
                 groupSummary, progress>>

\* Return when the walk is over, without a wait for the runs.
MutExecuteReturns ==
  /\ main = "wait"
  /\ main' = "done"
  /\ failures' = Failed(groupSummary[RootResultGroup])
  /\ UNCHANGED <<cancelled, check, next, runVars, gather, runStatus, doneChan, summary,
                 groupSummary, progress>>

\* An attempt too many.
MutQueryRetriedAgain(c) ==
  /\ attempts[c] < MaxControlRunAttempts
  /\ Goto(c, "query", "acquire")
  /\ attempts' = [attempts EXCEPT ![c] = @ + 1]
  /\ UNCHANGED <<cancelled, mainVars, sessions, gather, runStatus, doneChan, summary,
                 groupSummary, progress>>

\* An error row that does not end the gathering.
MutGatherRowError(c) ==
  /\ gather[c] = "read"
  /\ Total(summary[c]) < MaxRows
  /\ SetError(c)
  /\ UNCHANGED <<cancelled, mainVars, runVars, gather, doneChan, groupSummary>>

\* A run that updates its group only when it has completed.
MutUnwind(c) ==
  /\ Goto(c, "unwind", IF sessions[c] = 1 THEN "done" ELSE "unwind")
  /\ sessions' = [sessions EXCEPT ![c] = @ - 1]
  /\ progress' = [progress EXCEPT !.executing = @ - 1]
  /\ IF runStatus[c] = "complete" THEN UpdateSummary(c) ELSE UNCHANGED groupSummary
  /\ UNCHANGED <<cancelled, mainVars, attempts, gather, runStatus, doneChan, summary>>

-----------------------------------------------------------------------------
(* ExecutionTree.Execute and the walk of ResultGroup.execute.              *)

(* The context is cancelled: the control gets the error, is not started,   *)
(* and no group hears of it.                                               *)
WalkCancelled ==
  /\ main = "walk"
  /\ next <= Len(check.walk)
  /\ cancelled
  /\ SetError(check.walk[next])
  /\ SendDone(check.walk[next])
  /\ next' = next + 1
  /\ UNCHANGED <<cancelled, check, main, failures, runVars, gather, groupSummary>>

(* A dry run skips the control. *)
WalkSkip ==
  /\ main = "walk"
  /\ next <= Len(check.walk)
  /\ ~cancelled
  /\ check.dryRun
  /\ SetComplete(check.walk[next])
  /\ SendDone(check.walk[next])
  /\ next' = next + 1
  /\ UNCHANGED <<cancelled, check, main, failures, runVars, gather, groupSummary>>

WalkControl ==
  /\ main = "walk"
  /\ next <= Len(check.walk)
  /\ ~cancelled
  /\ ~check.dryRun
  /\ main' = "acquire"
  /\ UNCHANGED <<cancelled, check, next, failures, runVars, gather, runStatus, doneChan,
                 summary, groupSummary, progress>>

(* parallelismLock.Acquire: start the control's goroutine.                 *)
StartRun ==
  /\ main = "acquire"
  /\ Cardinality(Running) < check.maxParallel
  /\ Goto(check.walk[next], "idle", "acquire")
  /\ main' = "walk"
  /\ next' = next + 1
  /\ UNCHANGED <<cancelled, check, failures, sessions, attempts, gather, runStatus, doneChan,
                 summary, groupSummary, progress>>

(* parallelismLock.Acquire fails when it is cancelled while it waits.      *)
StartCancelled ==
  /\ main = "acquire"
  /\ Cardinality(Running) = check.maxParallel
  /\ cancelled
  /\ SetError(check.walk[next])
  /\ SendDone(check.walk[next])
  /\ main' = "walk"
  /\ next' = next + 1
  /\ UNCHANGED <<cancelled, check, failures, runVars, gather, groupSummary>>

WalkDone ==
  /\ main = "walk"
  /\ next = Len(check.walk) + 1
  /\ main' = "wait"
  /\ UNCHANGED <<cancelled, check, next, failures, runVars, gather, runStatus, doneChan,
                 summary, groupSummary, progress>>

(* Acquire all the permits, so that all the runs are over.  Once cancelled *)
(* this wait ends at any time: after 30 seconds when the cancellation came *)
(* before the wait, at once when it comes during it.                       *)
ExecuteReturns ==
  /\ main = "wait"
  /\ Running = {} \/ cancelled
  /\ main' = "done"
  /\ failures' = Failed(groupSummary[RootResultGroup])
  /\ UNCHANGED <<cancelled, check, next, runVars, gather, runStatus, doneChan, summary,
                 groupSummary, progress>>

-----------------------------------------------------------------------------
(* ControlRun.execute.                                                     *)

(* AcquireSession waits for a connection of the pool without a timeout.    *)
AcquireSession(c) ==
  /\ SessionsHeld < check.maxParallel
  /\ ~cancelled
  /\ Goto(c, "acquire", "query")
  /\ sessions' = [sessions EXCEPT ![c] = @ + 1]
  /\ runStatus' = [runStatus EXCEPT ![c] = "started"]
  /\ progress' = [progress EXCEPT !.executing = @ + 1, !.pending = @ - 1]
  /\ UNCHANGED <<cancelled, mainVars, attempts, gather, doneChan, summary, groupSummary>>

(* AcquireSession fails when it is cancelled, or when a connection cannot  *)
(* be made or initialised.  The run gets no error and keeps its status,    *)
(* and execute's deferred function adds its summary to the groups.         *)
AcquireSessionFails(c) ==
  /\ cancelled \/ SessionsHeld < check.maxParallel
  /\ Goto(c, "acquire", IF sessions[c] = 0 THEN "done" ELSE "unwind")
  /\ UpdateSummary(c)
  /\ UNCHANGED <<cancelled, mainVars, sessions, attempts, gather, runStatus, doneChan,
                 summary, progress>>

(* The query cannot be resolved, its search path not be set, or it fails.  *)
QueryFails(c) ==
  /\ Goto(c, "query", "send")
  /\ SetError(c)
  /\ UNCHANGED <<cancelled, mainVars, sessions, attempts, gather, doneChan, groupSummary>>

(* The plugin has gone (a gRPC connectivity error): execute calls itself,  *)
(* and its session is closed only when that call returns.                  *)
QueryRetried(c) ==
  /\ attempts[c] + 1 < MaxControlRunAttempts
  /\ Goto(c, "query", "acquire")
  /\ attempts' = [attempts EXCEPT ![c] = @ + 1]
  /\ UNCHANGED <<cancelled, mainVars, sessions, gather, runStatus, doneChan, summary,
                 groupSummary, progress>>

QueryStarts(c) ==
  /\ Goto(c, "query", "wait")
  /\ gather' = [gather EXCEPT ![c] = "read"]
  /\ UNCHANGED <<cancelled, mainVars, sessions, attempts, runStatus, doneChan, summary,
                 groupSummary, progress>>

(* waitForResults: the rows are gathered, or the context is cancelled.     *)
ResultsGathered(c) ==
  /\ gather[c] = "done"
  /\ Goto(c, "wait", "unwind")
  /\ UNCHANGED <<cancelled, mainVars, sessions, attempts, gather, runStatus, doneChan,
                 summary, groupSummary, progress>>

ResultsCancelled(c) ==
  /\ cancelled
  /\ Goto(c, "wait", "send")
  /\ SetError(c)
  /\ UNCHANGED <<cancelled, mainVars, sessions, attempts, gather, doneChan, groupSummary>>

ErrorSent(c) ==
  /\ Goto(c, "send", "unwind")
  /\ SendDone(c)
  /\ UNCHANGED <<cancelled, mainVars, sessions, attempts, gather, runStatus, summary,
                 groupSummary, progress>>

(* One execute returns: its deferred calls close its session and add the   *)
(* run's summary to the groups.  The outermost one releases the permit.    *)
Unwind(c) ==
  /\ Goto(c, "unwind", IF sessions[c] = 1 THEN "done" ELSE "unwind")
  /\ sessions' = [sessions EXCEPT ![c] = @ - 1]
  /\ progress' = [progress EXCEPT !.executing = @ - 1]
  /\ UpdateSummary(c)
  /\ UNCHANGED <<cancelled, mainVars, attempts, gather, runStatus, doneChan, summary>>

-----------------------------------------------------------------------------
(* gatherResults.                                                          *)

GatherRow(c, status) ==
  /\ gather[c] = "read"
  /\ Total(summary[c]) < MaxRows
  /\ summary' = [summary EXCEPT ![c][status] = @ + 1]
  /\ UNCHANGED <<cancelled, mainVars, runVars, gather, runStatus, doneChan, groupSummary, progress>>

(* The row channel is closed. *)
GatherEnd(c) ==
  /\ GatherGoto(c, "read", "send")
  /\ SetComplete(c)
  /\ UNCHANGED <<cancelled, mainVars, runVars, doneChan, groupSummary>>

(* A row carries an error. *)
GatherRowError(c) ==
  /\ GatherGoto(c, "read", "sendRowError")
  /\ SetError(c)
  /\ UNCHANGED <<cancelled, mainVars, runVars, doneChan, groupSummary>>

(* A row is not a control result (NewResultRow fails). *)
GatherBadRow(c) ==
  /\ GatherGoto(c, "read", "send")
  /\ SetError(c)
  /\ UNCHANGED <<cancelled, mainVars, runVars, doneChan, groupSummary>>

(* The run was cancelled: doneChan has a value. *)
GatherStopped(c) ==
  /\ doneChan[c]
  /\ GatherGoto(c, "read", "done")
  /\ doneChan' = [doneChan EXCEPT ![c] = FALSE]
  /\ UNCHANGED <<cancelled, mainVars, runVars, runStatus, summary, groupSummary, progress>>

GatherSent(c) ==
  /\ \/ GatherGoto(c, "send", "done")
     \/ GatherGoto(c, "sendRowError", "count")
  /\ SendDone(c)
  /\ UNCHANGED <<cancelled, mainVars, runVars, runStatus, summary, groupSummary, progress>>

(* After an error row the groups are updated here too. *)
GatherCount(c) ==
  /\ GatherGoto(c, "count", "done")
  /\ UpdateSummary(c)
  /\ UNCHANGED <<cancelled, mainVars, runVars, runStatus, doneChan, summary, progress>>

(* The user interrupts the check. *)
Cancel ==
  /\ ~cancelled
  /\ cancelled' = TRUE
  /\ UNCHANGED <<mainVars, runVars, gather, runStatus, doneChan, summary, groupSummary, progress>>

-----------------------------------------------------------------------------

MainStep ==
  \/ WalkCancelled \/ WalkSkip \/ WalkControl
  \/ StartRun \/ StartCancelled \/ WalkDone \/ ExecuteReturns

RunStep(c) ==
  \/ AcquireSession(c) \/ AcquireSessionFails(c)
  \/ QueryFails(c) \/ QueryRetried(c) \/ QueryStarts(c)
  \/ ResultsGathered(c) \/ ResultsCancelled(c) \/ ErrorSent(c) \/ Unwind(c)

GatherStep(c) ==
  \/ \E status \in Statuses : GatherRow(c, status)
  \/ GatherEnd(c) \/ GatherRowError(c) \/ GatherBadRow(c)
  \/ GatherStopped(c) \/ GatherSent(c) \/ GatherCount(c)

Next ==
  \/ MainStep
  \/ \E c \in Controls : RunStep(c) \/ GatherStep(c)
  \/ Cancel

Spec == Init /\ [][Next]_vars

(* Goroutines are scheduled, queries answer or run into their deadline,    *)
(* and database/sql and the semaphore serve waiters in order: a run that   *)
(* waits for a session while others come and go gets one.                  *)
Fairness ==
  /\ WF_vars(MainStep)
  /\ \A c \in Controls : SF_vars(RunStep(c)) /\ WF_vars(GatherStep(c))

FairSpec == Spec /\ Fairness

-----------------------------------------------------------------------------
(* Properties.                                                             *)

(* The types of the variables; no more sessions are held than the pool has *)
(* connections, and no more goroutines run than the semaphore has permits. *)
TypeOK ==
  /\ cancelled \in BOOLEAN
  /\ main \in {"walk", "acquire", "wait", "done"}
  /\ check.walk \in Seq(Controls) /\ check.groups \subseteq Groups
  /\ next \in 1..(Len(check.walk) + 1)
  /\ failures \in Nat \cup {-1}
  /\ pc \in [Controls -> {"idle", "acquire", "query", "wait", "send", "unwind", "done"}]
  /\ gather \in [Controls -> {"none", "read", "send", "sendRowError", "count", "done"}]
  /\ sessions \in [Controls -> 0..MaxControlRunAttempts]
  /\ attempts \in [Controls -> 0..(MaxControlRunAttempts - 1)]
  /\ runStatus \in [Controls -> {"ready", "started", "complete", "error"}]
  /\ doneChan \in [Controls -> BOOLEAN]
  /\ summary \in [Controls -> [Statuses -> Nat]]
  /\ groupSummary \in [Groups -> [Statuses -> Nat]]
  /\ progress \in [pending : Int, executing : Nat, complete : Nat, error : Nat]
  /\ SessionsHeld <= check.maxParallel
  /\ Cardinality(Running) <= check.maxParallel

(* Unless it is cancelled, every run that is over was reported to the      *)
(* progress display once, as complete or as failed, through all the paths  *)
(* which set a status.                                                     *)
ReportedOnce ==
  ~cancelled =>
    progress.complete + progress.error = Cardinality({c \in Controls : Finished(c)})

(* "meaning that all active runs have finished": when Execute has returned *)
(* and was not cancelled, every control the arguments select has run, or   *)
(* was skipped by a dry run, and no other one has; no goroutine is left,   *)
(* no session is held and no run is in the middle of its query.            *)
AllRunsOver ==
  main = "done" /\ ~cancelled =>
    \A c \in Controls :
      /\ pc[c] = IF c \in Selected(check.arg, check.filter) /\ ~check.dryRun THEN "done" ELSE "idle"
      /\ gather[c] \in {"none", "done"}
      /\ sessions[c] = 0
      /\ runStatus[c] = "started" => attempts[c] > 0
      /\ check.dryRun => Finished(c) = (c \in Selected(check.arg, check.filter))

\* The alarms and errors that the runs of a set count, one by one.
FailuresOf(runs) ==
  UNION {{k} \X (1..summary[k[1]][k[2]]) : k \in runs \X {"alarm", "error"}}

(* The exit code misses no failure: unless it is cancelled, Execute counts *)
(* every alarm and every error that a run has in its summary.              *)
NoFailureMissed ==
  main = "done" /\ ~cancelled =>
    failures >= Cardinality(FailuresOf(Controls))

(* A check ends, whatever its runs are blocked on, unless a plugin has     *)
(* gone, a query was retried and the user never interrupts the check.      *)
CheckEnds ==
  <>(main = "done") \/ <>[](~cancelled /\ \E c \in Controls : attempts[c] > 0)

(* "how many time should a control run should be retried in the case of a  *)
(* GRPC connectivity error": the retries end, and the check with them.     *)
EveryCheckEnds == <>(main = "done")
=============================================================================
