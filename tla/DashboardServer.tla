---------------------------- MODULE DashboardServer ----------------------------
(***************************************************************************)
(* The dashboard server and the workspace it serves: browsers connect over *)
(* a web socket and select a dashboard (dashboard/dashboardserver), the    *)
(* server executes it (ExecuteDashboardNode, whose tree of runs is the     *)
(* module DashboardExecution), and a file watcher reloads the workspace    *)
(* when a file changes and has the dashboards that changed executed again  *)
(* (workspace).                                                            *)
(*                                                                         *)
(* What a browser shows is the version of the dashboard it was last sent.  *)
(* A dashboard is abstracted to the versions of two of its parts: its own  *)
(* resources and one benchmark.                                            *)
(***************************************************************************)
EXTENDS Integers, FiniteSets

CONSTANTS
  Clients,      \* the browsers
  Dashboards,
  Runs,         \* bound: executions in progress at one time
  MaxChanges,   \* bound: changes of the files
  MaxSelects,   \* bound: dashboards selected, by all the browsers together
  Conditions,   \* the conditions the files may be left in by a change
  NONE

ASSUME ServerAssumption ==
  /\ Conditions \subseteq {"valid", "broken", "unresolved", "workspaceInput"}
  /\ NONE \notin Dashboards
  /\ MaxChanges \in Nat /\ MaxSelects \in Nat

VARIABLES
  files,         \* the parts of the dashboards on disk, and their condition
  changes,       \* how many changes the files have seen
  dirty,         \* the watcher has events it has not handled
  maps,          \* w.resourceMaps
  watcherError,  \* w.watcherError is set
  loadLock,      \* w.loadLock is held by the reload
  watcher,       \* where the handler of the file watcher is
  changed,       \* the dashboards it is still to execute
  dashboard,     \* the clients of the server and the dashboard each selected
  selects,       \* how many selections were made
  caller,        \* the calls of ExecuteDashboardNode in progress
  executions,    \* the map of executions
  runs,          \* the executions: their dashboard, version and state
  view,          \* what each browser shows
  crashed,       \* the runtime ended the process
  missed         \* history: the dashboards a refresh was lost for

fileVars == <<files, changes, dirty>>
workspaceVars == <<maps, watcherError, loadLock>>
clientVars == <<dashboard, selects, view>>
executionVars == <<caller, executions, runs>>
serverVars == <<fileVars, workspaceVars, watcher, changed, clientVars, executionVars, crashed, missed>>

Watcher == "watcher"
Callers == Clients \cup {Watcher}
Parts == {"own", "benchmark"}

\* The call of ExecuteDashboardNode of somebody who is not in one.
NoCall == [at |-> "none", dashboard |-> NONE, version |-> NONE]
NoRun == [at |-> "none", dashboard |-> NONE, version |-> NONE]
NothingShown == [dashboard |-> NONE, version |-> NONE, complete |-> FALSE]

Connected == {c \in Clients : dashboard[c] # "offline"}
Watching(d) == {c \in Connected : dashboard[c] = d}

ServerInit ==
  /\ files = [parts |-> [d \in Dashboards |-> [p \in Parts |-> 0]], condition |-> "valid"]
  /\ changes = 0
  /\ dirty = FALSE
  /\ maps = files.parts
  /\ watcherError = FALSE
  /\ loadLock = FALSE
  /\ watcher = "idle"
  /\ changed = {}
  /\ dashboard = [c \in Clients |-> "offline"]
  /\ selects = 0
  /\ caller = [c \in Callers |-> NoCall]
  /\ executions = [d \in Dashboards |-> NONE]
  /\ runs = [r \in Runs |-> NoRun]
  /\ view = [c \in Clients |-> NothingShown]
  /\ crashed = FALSE
  /\ missed = {}

-----------------------------------------------------------------------------
(* The files and the file watcher, which is modelled in FileWatcher: it    *)
(* runs its handler some time after a change, and never two at a time.     *)

(* Somebody saves the resources of one dashboard, or all the benchmarks.   *)
(* Changes that no reload comes between are one change.                    *)
Change ==
  /\ changes < MaxChanges
  /\ ~dirty
  /\ \E condition \in Conditions :
       \/ \E d \in Dashboards :
            files' = [parts |-> [files.parts EXCEPT ![d]["own"] = @ + 1],
                      condition |-> condition]
       \/ files' = [parts |-> [d \in Dashboards |->
                                 [files.parts[d] EXCEPT !["benchmark"] = @ + 1]],
                    condition |-> condition]
  /\ changes' = changes + 1
  /\ dirty' = TRUE
  /\ UNCHANGED <<workspaceVars, watcher, changed, clientVars, executionVars, crashed, missed>>

(* handleFileWatcherEvent: reloadResourceMaps takes the loadLock. *)
ReloadStarts ==
  /\ watcher = "idle"
  /\ dirty
  /\ dirty' = FALSE
  /\ watcher' = "reload"
  /\ loadLock' = TRUE
  /\ UNCHANGED <<files, changes, maps, watcherError, changed, clientVars, executionVars,
                 crashed, missed>>

\* The parts of the dashboards that differ between two resource maps.
Differ(prev, current, p) == {d \in Dashboards : prev[d][p] # current[d][p]}

\* Mutant: the changes of the dashboards themselves are not raised.
MutRaised(prev, current) == {{}} \cup {{d} : d \in Differ(prev, current, "benchmark")}

\* raiseDashboardChangedEvents: the diffs of the benchmarks overwrite each
\* other, so that one of them remains.
Raised(prev, current) ==
  LET own == Differ(prev, current, "own")
      benchmarks == Differ(prev, current, "benchmark")
  IN IF benchmarks = {} THEN {own} ELSE {own \cup {d} : d \in benchmarks}

\* Mutant: a return without the unlock.
MutReloadFails ==
  /\ watcher = "reload"
  /\ files.condition \in {"broken", "unresolved"}
  /\ watcherError' = TRUE
  /\ watcher' = "idle"
  /\ UNCHANGED <<fileVars, maps, loadLock, changed, clientVars, executionVars, crashed, missed>>

(* loadWorkspaceMod with files that are not valid leaves w.Mod as it was   *)
(* when they do not parse; the dependencies of the runs on inputs are only *)
(* resolved when w.Mod and the resource maps are the new ones.             *)
ReloadFails ==
  /\ watcher = "reload"
  /\ files.condition \in {"broken", "unresolved"}
  /\ watcherError' = TRUE
  /\ loadLock' = FALSE
  /\ watcher' = "idle"
  /\ IF files.condition = "unresolved"
     THEN /\ maps' = files.parts
          /\ missed' = missed \cup {d \in Dashboards : maps[d] # files.parts[d]}
     ELSE UNCHANGED <<maps, missed>>
  /\ UNCHANGED <<fileVars, changed, clientVars, executionVars, crashed>>

(* An input of the workspace is looked up in GetResourceMaps, which takes  *)
(* the loadLock: the handler waits for itself.                             *)
ReloadRelocks ==
  /\ watcher = "reload"
  /\ files.condition = "workspaceInput"
  /\ maps' = files.parts
  /\ watcher' = "relock"
  /\ UNCHANGED <<fileVars, watcherError, loadLock, changed, clientVars, executionVars,
                 crashed, missed>>

(* The error is forgotten, and the changes are those to w.Mod: what an     *)
(* earlier reload that failed put there is not a change.                   *)
ReloadSucceeds ==
  /\ watcher = "reload"
  /\ files.condition = "valid"
  /\ \E ds \in Raised(maps, files.parts) :
       /\ changed' = ds
       /\ watcher' = IF ds = {} THEN "idle" ELSE "event"
       /\ missed' = missed \cup (Differ(maps, files.parts, "benchmark") \ ds)
  /\ maps' = files.parts
  /\ watcherError' = FALSE
  /\ loadLock' = FALSE
  /\ UNCHANGED <<fileVars, clientVars, executionVars, crashed>>

(* HandleWorkspaceUpdate, DashboardChanged: after a walk over the clients   *)
(* without the mutex, the dashboards that changed and are watched are      *)
(* executed one after the other.                                           *)
FindWatched ==
  /\ watcher = "event"
  /\ changed' = {d \in changed : Watching(d) # {}}
  /\ watcher' = "execute"
  /\ UNCHANGED <<fileVars, workspaceVars, clientVars, executionVars, crashed, missed>>

ExecuteChanged ==
  /\ watcher = "execute"
  /\ caller[Watcher] = NoCall
  /\ \E d \in changed :
       /\ changed' = changed \ {d}
       /\ caller' = [caller EXCEPT ![Watcher] = [at |-> "check", dashboard |-> d, version |-> NONE]]
  /\ UNCHANGED <<fileVars, workspaceVars, watcher, clientVars, executions, runs, crashed, missed>>

EventHandled ==
  /\ watcher = "execute"
  /\ caller[Watcher] = NoCall
  /\ changed = {}
  /\ watcher' = "idle"
  /\ UNCHANGED <<fileVars, workspaceVars, changed, clientVars, executionVars, crashed, missed>>

-----------------------------------------------------------------------------
(* The web socket: the messages of a client are handled one at a time.     *)

Connect(c) ==
  /\ dashboard[c] = "offline"
  /\ dashboard' = [dashboard EXCEPT ![c] = NONE]
  /\ UNCHANGED <<fileVars, workspaceVars, watcher, changed, selects, view, executionVars,
                 crashed, missed>>

Disconnect(c) ==
  /\ c \in Connected
  /\ caller[c] = NoCall
  /\ dashboard' = [dashboard EXCEPT ![c] = "offline"]
  /\ view' = [view EXCEPT ![c] = NothingShown]
  /\ UNCHANGED <<fileVars, workspaceVars, watcher, changed, selects, executionVars,
                 crashed, missed>>

(* select_dashboard: the selection is noted before the call. *)
Select(c, d) ==
  /\ c \in Connected
  /\ caller[c] = NoCall
  /\ selects < MaxSelects
  /\ selects' = selects + 1
  /\ dashboard' = [dashboard EXCEPT ![c] = d]
  /\ view' = [view EXCEPT ![c] = NothingShown]
  /\ caller' = [caller EXCEPT ![c] = [at |-> "check", dashboard |-> d, version |-> NONE]]
  /\ UNCHANGED <<fileVars, workspaceVars, watcher, changed, executions, runs, crashed, missed>>

-----------------------------------------------------------------------------
(* ExecuteDashboardNode, whose callers ignore its error.                   *)

(* "dashboard is already running": its result is that of an older version  *)
(* when the workspace was reloaded in the meantime.                        *)
Refuse(c) ==
  LET d == caller[c].dashboard IN
  /\ caller[c].at = "check"
  /\ executions[d] # NONE
  /\ caller' = [caller EXCEPT ![c] = NoCall]
  /\ missed' = IF runs[executions[d]].version # maps[d] THEN missed \cup {d} ELSE missed
  /\ UNCHANGED <<fileVars, workspaceVars, watcher, changed, clientVars, executions, runs, crashed>>

CheckRunning(c) ==
  /\ caller[c].at = "check"
  /\ executions[caller[c].dashboard] = NONE
  /\ caller' = [caller EXCEPT ![c].at = "build"]
  /\ UNCHANGED <<fileVars, workspaceVars, watcher, changed, clientVars, executions, runs,
                 crashed, missed>>

(* NewReportExecutionTree: GetResourceMaps takes the loadLock. *)
BuildTree(c) ==
  /\ caller[c].at = "build"
  /\ ~loadLock
  /\ caller' = [caller EXCEPT ![c].at = "insert", ![c].version = maps[caller[c].dashboard]]
  /\ UNCHANGED <<fileVars, workspaceVars, watcher, changed, clientVars, executions, runs,
                 crashed, missed>>

\* Two executions of one dashboard may end in either order.
Overlaps(d) == \E r \in Runs : runs[r].dashboard = d

Insert(c, r) ==
  LET d == caller[c].dashboard IN
  /\ caller[c].at = "insert"
  /\ \E q \in Runs : runs[q] = NoRun
  /\ r = CHOOSE q \in Runs : runs[q] = NoRun
  /\ executions' = [executions EXCEPT ![d] = r]
  /\ runs' = [runs EXCEPT ![r] = [caller[c] EXCEPT !.at = "started"]]
  /\ caller' = [caller EXCEPT ![c] = NoCall]
  /\ missed' = IF Overlaps(d) \/ caller[c].version # maps[d]
               THEN missed \cup {d} ELSE missed \ {d}
  /\ UNCHANGED <<fileVars, workspaceVars, watcher, changed, clientVars, crashed>>

-----------------------------------------------------------------------------
(* The goroutine of an execution.                                          *)

\* A payload goes to the clients that have selected the dashboard.
Show(r, complete) ==
  view' = [c \in Clients |->
             IF c \in Watching(runs[r].dashboard)
             THEN [dashboard |-> runs[r].dashboard, version |-> runs[r].version,
                   complete |-> complete]
             ELSE view[c]]

\* Mutant: the result goes to the clients that were told of the start.
MutPublishComplete(r) ==
  /\ runs[r].at = "complete"
  /\ view' = [c \in Clients |->
                IF c \in Watching(runs[r].dashboard) /\ view[c].dashboard = runs[r].dashboard
                THEN [view[c] EXCEPT !.complete = TRUE]
                ELSE view[c]]
  /\ runs' = [runs EXCEPT ![r] = NoRun]
  /\ UNCHANGED <<fileVars, workspaceVars, watcher, changed, dashboard, selects, caller,
                 executions, crashed, missed>>

PublishStarted(r) ==
  /\ runs[r].at = "started"
  /\ Show(r, FALSE)
  /\ runs' = [runs EXCEPT ![r].at = "running"]
  /\ UNCHANGED <<fileVars, workspaceVars, watcher, changed, dashboard, selects, caller,
                 executions, crashed, missed>>

(* When the tree is complete, its entry is deleted: under the name of the  *)
(* dashboard, whoever made it.                                             *)
DeleteExecution(r) ==
  /\ runs[r].at = "running"
  /\ executions' = [executions EXCEPT ![runs[r].dashboard] = NONE]
  /\ runs' = [runs EXCEPT ![r].at = "complete"]
  /\ UNCHANGED <<fileVars, workspaceVars, watcher, changed, clientVars, caller, crashed, missed>>

PublishComplete(r) ==
  /\ runs[r].at = "complete"
  /\ Show(r, TRUE)
  /\ runs' = [runs EXCEPT ![r] = NoRun]
  /\ UNCHANGED <<fileVars, workspaceVars, watcher, changed, dashboard, selects, caller,
                 executions, crashed, missed>>

(* The runtime ends the process when it sees a map that is written while   *)
(* another goroutine writes, reads or walks it: the clients, walked by the *)
(* watcher, and the executions, of which nobody locks.                     *)
Inserting == {c \in Callers : caller[c].at = "insert"}
Checking == {c \in Callers : caller[c].at = "check"}
Deleting == {r \in Runs : runs[r].at = "running"}

ConcurrentMapAccess ==
  /\ \/ watcher = "event"
     \/ Inserting \cup Deleting # {}
        /\ Cardinality(Inserting) + Cardinality(Checking) + Cardinality(Deleting) > 1
  /\ crashed' = TRUE
  /\ UNCHANGED <<fileVars, workspaceVars, watcher, changed, clientVars, executionVars, missed>>

-----------------------------------------------------------------------------

HandleChanges ==
  \/ ReloadStarts \/ ReloadFails \/ ReloadRelocks \/ ReloadSucceeds
  \/ FindWatched \/ ExecuteChanged \/ EventHandled

Execute(c) == Refuse(c) \/ CheckRunning(c) \/ BuildTree(c) \/ \E r \in Runs : Insert(c, r)

ServerRun(r) == PublishStarted(r) \/ DeleteExecution(r) \/ PublishComplete(r)

Browse(c) == Connect(c) \/ Disconnect(c) \/ \E d \in Dashboards : Select(c, d)

ServerNext ==
  /\ ~crashed
  /\ \/ Change \/ HandleChanges \/ ConcurrentMapAccess
     \/ \E c \in Clients : Browse(c)
     \/ \E c \in Callers : Execute(c)
     \/ \E r \in Runs : ServerRun(r)

ServerSpec == ServerInit /\ [][ServerNext]_serverVars

FairServerSpec ==
  /\ ServerSpec
  /\ WF_serverVars(~crashed /\ HandleChanges)
  /\ \A c \in Callers : WF_serverVars(~crashed /\ Execute(c))
  /\ \A r \in Runs : WF_serverVars(~crashed /\ ServerRun(r))

-----------------------------------------------------------------------------
(* Properties                                                              *)

Versions == [Parts -> 0..MaxChanges]
Calls == [at : {"none", "check", "build", "insert"},
          dashboard : Dashboards \cup {NONE}, version : Versions \cup {NONE}]

ServerTypeOK ==
  /\ files.parts \in [Dashboards -> Versions]
  /\ files.condition \in {"valid"} \cup Conditions
  /\ changes \in 0..MaxChanges
  /\ maps \in [Dashboards -> Versions]
  /\ {dirty, watcherError, loadLock, crashed} \subseteq BOOLEAN
  /\ watcher \in {"idle", "reload", "relock", "event", "execute"}
  /\ loadLock <=> watcher \in {"reload", "relock"}
  /\ changed \cup missed \subseteq Dashboards
  /\ dashboard \in [Clients -> Dashboards \cup {NONE, "offline"}]
  /\ selects \in 0..MaxSelects
  /\ caller \in [Callers -> Calls]
  /\ executions \in [Dashboards -> Runs \cup {NONE}]
  /\ \A r \in Runs : runs[r].at \in {"none", "started", "running", "complete"}
  /\ \A c \in Clients : view[c].dashboard \in Dashboards \cup {NONE}

\* Nothing is under way.
Quiet ==
  /\ watcher = "idle"
  /\ ~dirty /\ ~watcherError /\ ~crashed
  /\ \A c \in Callers : caller[c] = NoCall
  /\ \A r \in Runs : runs[r] = NoRun

\* When nothing is under way, a browser shows the last version of the
\* dashboard it selected, unless a refresh of the dashboard was lost in one
\* of the ways named above.
ShowsLatest ==
  Quiet => \A c \in Connected : dashboard[c] \in Dashboards \ missed =>
             view[c] = [dashboard |-> dashboard[c], version |-> maps[dashboard[c]],
                        complete |-> TRUE]

\* A browser that selects a dashboard is sent a complete execution of it,
\* also when the dashboard is already running or its execution is ending;
\* or the process ends, or the reload has locked itself out.
Served ==
  \A c \in Clients, d \in Dashboards :
    dashboard[c] = d ~> \/ view[c].dashboard = d /\ view[c].complete
                        \/ dashboard[c] # d
                        \/ crashed
                        \/ watcher = "relock"

\* Reading the resource maps never waits for a reload that waits itself:
\* "do not call GetResourceMaps - we DO NOT want to lock loadLock".
ReloadNeverRelocks == watcher # "relock"
=============================================================================
