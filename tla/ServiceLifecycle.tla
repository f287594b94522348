--------------------------- MODULE ServiceLifecycle ---------------------------
(***************************************************************************)
(* Starting and stopping the local service (db/db_local, cmd/service.go):  *)
(* one embedded postgres and one plugin manager, shared by all Steampipe   *)
(* processes of an installation.  There is no lock: the processes find     *)
(* each other through two state files, the port and the process table.     *)
(*                                                                         *)
(* A process runs one command: a session (query, check or dashboard, which *)
(* starts the service if need be and stops it when it is the last to       *)
(* leave), or one of the `service` commands.  A postgres, or a plugin      *)
(* manager, is named by the process that spawned it, or whose session made *)
(* the FDW spawn it.                                                       *)
(* All the writes of the state files succeed, and all the processes use    *)
(* the default port.                                                       *)
(*                                                                         *)
(* The history variables record what went wrong on the way: the properties *)
(* at the end say what is promised when it did not.                        *)
(***************************************************************************)
EXTENDS Integers, FiniteSets

CONSTANTS
  Processes,  \* Steampipe processes
  Nil

ASSUME ProcessesAssumption == Nil \notin Processes

VARIABLES
  stateFile,   \* the running info of the database, or Nil
  postgres,    \* the postgres processes that exist
  master,      \* the one that holds the data directory and the port, or Nil
  managerFile, \* the plugin manager in the plugin manager's state file, or Nil
  managers,    \* the plugin managers that exist
  connected,   \* the processes with a database client
  counting,    \* the processes with the client that counts the clients
  cut,         \* the processes whose client lost its database to a stop
  command,     \* what each process was asked to do
  pc,          \* where each process is
  dbState,     \* the running info in the StartResult of a process, or Nil
  already,     \* its StartResult says ServiceAlreadyRunning
  stopError,   \* its pluginmanager.Stop() returned an error
  overlapped,  \* a start or a stop began while another process was in the middle of one
  uncounted,   \* the processes that stop the service without a count of its clients
  survived,    \* a postgres outlived the last forced stop
  crashed      \* a process was killed halfway, and no forced stop has cleaned up since

dbVars == <<stateFile, postgres, master>>
managerVars == <<managerFile, managers>>
clientVars == <<connected, counting, cut>>
startVars == <<dbState, already>>
historyVars == <<overlapped, uncounted, survived, crashed>>
vars == <<dbVars, managerVars, clientVars, command, pc, startVars, stopError, historyVars>>

Restarts == {"serviceRestart", "forceRestart"}
Commands == {"session", "serviceStart", "serviceStop", "forceStop", "serviceStatus"} \cup Restarts

\* A restart starts the service for whom it was running.
Invoker(p) == CASE command[p] = "session" -> "query"
                [] command[p] = "serviceStart" -> "service"
                [] OTHER -> dbState[p].invoker
RunningInfos ==
  [pid : Processes, invoker : {"query", "service"}, database : BOOLEAN]
ASSUME NilAssumption == Nil \notin RunningInfos

\* The places where a process is not in the middle of a start or a stop.
Resting == {"idle", "using", "foreground", "done", "failed", "crashed"}
Quiet(p) == \A q \in Processes \ {p} : pc[q] \in Resting

Init ==
  /\ stateFile = Nil
  /\ postgres = {}
  /\ master = Nil
  /\ managerFile = Nil
  /\ managers = {}
  /\ connected = {}
  /\ counting = {}
  /\ cut = {}
  /\ command = [p \in Processes |-> Nil]
  /\ pc = [p \in Processes |-> "idle"]
  /\ dbState = [p \in Processes |-> Nil]
  /\ already = [p \in Processes |-> FALSE]
  /\ stopError = [p \in Processes |-> FALSE]
  /\ overlapped = FALSE
  /\ uncounted = {}
  /\ survived = FALSE
  /\ crashed = FALSE

Goto(p, from, to) ==
  /\ pc[p] = from
  /\ pc' = [pc EXCEPT ![p] = to]

\* Where ShutdownService, or the end of a stop command, returns to.
Left(p) == IF command[p] \in {"serviceStart"} \cup Restarts THEN "refreshed" ELSE "done"

(* What GetState finds: a running service, none, or (without a state file) *)
(* a postgres it knows nothing of.                                         *)
State ==
  IF stateFile # Nil THEN IF stateFile.pid \in postgres THEN "running" ELSE "stopped"
  ELSE IF master # Nil THEN "unknown" ELSE "stopped"

(* GetState also removes the state file of a process that is gone.         *)
GetState(p, from, next) ==
  /\ Goto(p, from, next[State])
  /\ stateFile' = IF State = "running" THEN stateFile ELSE Nil
  /\ UNCHANGED <<postgres, master>>

\* LoadPluginManagerState finds a process with the pid of its state file.
PluginManagerRunning == managerFile \in managers

(* A root client can be made when GetState finds the service and there is  *)
(* a postgres that listens.                                                *)
RootClient(p, from, to) ==
  /\ State = "running" /\ master # Nil
  /\ Goto(p, from, to)
  /\ UNCHANGED dbVars
NoRootClient(p, from, to) ==
  GetState(p, from, [answer \in {"running", "stopped", "unknown"} |-> to])

(* Postgres processes exit, and with the master go all the clients.        *)
ExitPostgres(pids) ==
  /\ postgres' = postgres \ pids
  /\ master' = IF master \in pids THEN Nil ELSE master
  /\ connected' = IF master \in pids THEN {} ELSE connected
  /\ counting' = IF master \in pids THEN {} ELSE counting
Cut(p, pids) == cut' = IF master \in pids THEN cut \cup (connected \ {p}) ELSE cut

-----------------------------------------------------------------------------
(* Mutants: what plausible slips in the code below would do.               *)

\* A forced stop that kills the postgres of the state file only.
MutKillInstances(p) ==
  /\ Goto(p, "killInstances", Left(p))
  /\ LET known == IF stateFile = Nil THEN {} ELSE postgres \cap {stateFile.pid}
     IN \E gone \in SUBSET known :
          /\ ExitPostgres(gone)
          /\ Cut(p, gone)
          /\ survived' = (gone # known)
          /\ crashed' = (crashed /\ (gone # known \/ stopError[p]))
  /\ stateFile' = IF stopError[p] THEN stateFile ELSE Nil
  /\ UNCHANGED <<managerVars, command, startVars, stopError, overlapped, uncounted>>

\* ShutdownService that does not mind the other clients.
MutCounted(p) ==
  /\ Goto(p, "counted", "stop")
  /\ counting' = counting \ {p}
  /\ UNCHANGED <<dbVars, managerVars, connected, cut, command, startVars, stopError,
                 historyVars>>

\* StartServices that starts a plugin manager whether or not one is running.
MutManagerRunning(p) ==
  /\ PluginManagerRunning
  /\ Goto(p, "loadManager", "spawnManager")
  /\ UNCHANGED <<dbVars, managerVars, clientVars, command, startVars, stopError, historyVars>>

\* establishConnection that does not wait for the connection.
MutConnect(p) ==
  /\ State = "running"
  /\ Goto(p, "connect", IF command[p] = "session" THEN "using" ELSE "refresh")
  /\ connected' = connected \cup {p}
  /\ UNCHANGED <<dbVars, managerVars, counting, cut, command, startVars, stopError,
                 historyVars>>

\* ShutdownService that does not fall back to a forced stop.
MutStopDBTimesOut(p) ==
  /\ State = "running"
  /\ \/ Goto(p, "stopDB", Left(p))
     \/ Goto(p, "abortDB", "failed")
  /\ UNCHANGED <<dbVars, managerVars, clientVars, command, startVars, stopError, historyVars>>

-----------------------------------------------------------------------------
(* StartServices and startDB.                                              *)

Begin(p, c) ==
  /\ Goto(p, "idle", [session |-> "start", serviceStart |-> "start",
                      serviceStop |-> "checkStop", forceStop |-> "forceStop",
                      serviceRestart |-> "checkRestart", forceRestart |-> "checkRestart",
                      serviceStatus |-> "status"][c])
  /\ command' = [command EXCEPT ![p] = c]
  /\ overlapped' = (overlapped \/ ~Quiet(p))
  /\ UNCHANGED <<dbVars, managerVars, clientVars, startVars, stopError, uncounted,
                 survived, crashed>>

StartServices(p) ==
  /\ GetState(p, "start", [running |-> "ensure", stopped |-> "remove", unknown |-> "failed"])
  /\ dbState' = [dbState EXCEPT ![p] = IF State = "running" THEN stateFile ELSE @]
  /\ already' = [already EXCEPT ![p] = State = "running"]
  /\ UNCHANGED <<managerVars, clientVars, command, stopError, historyVars>>

(* ensureCommandSchema, with a root client.                                *)
EnsureCommandSchema(p) ==
  /\ RootClient(p, "ensure", "loadManager")
  /\ UNCHANGED <<managerVars, clientVars, command, startVars, stopError, historyVars>>

(* Without a client this is a nil dereference, which the command recovers. *)
EnsureCommandSchemaFails(p) ==
  /\ NoRootClient(p, "ensure", "failed")
  /\ UNCHANGED <<managerVars, clientVars, command, startVars, stopError, historyVars>>

RemoveStateFile(p) ==
  /\ Goto(p, "remove", "checkPort")
  /\ stateFile' = Nil
  /\ UNCHANGED <<postgres, master, managerVars, clientVars, command, startVars, stopError,
                 historyVars>>

PortBindable(p) ==
  /\ master = Nil
  /\ Goto(p, "checkPort", "spawn")
  /\ UNCHANGED <<dbVars, managerVars, clientVars, command, startVars, stopError, historyVars>>

(* A step of startDB before the spawn fails (a bound port, permissions, the*)
(* password file), or a step after it (the name of the database, the       *)
(* password, the server, the extensions, the schema).                      *)
StartDBFails(p) ==
  /\ pc[p] \in {"checkPort", "spawn", "databaseName", "update", "ensureService"}
  /\ pc' = [pc EXCEPT ![p] = "cleanup"]
  /\ UNCHANGED <<dbVars, managerVars, clientVars, command, startVars, stopError, historyVars>>

(* A second postgres does not get the data directory: see PostgresExits.   *)
StartPostgresProcess(p) ==
  /\ Goto(p, "spawn", "save")
  /\ postgres' = postgres \cup {p}
  /\ master' = IF master = Nil THEN p ELSE master
  /\ UNCHANGED <<stateFile, managerVars, clientVars, command, startVars, stopError, historyVars>>

SaveRunningInfo(p) ==
  /\ Goto(p, "save", "databaseName")
  /\ stateFile' = [pid |-> p, invoker |-> Invoker(p), database |-> FALSE]
  /\ dbState' = [dbState EXCEPT ![p] = stateFile']
  /\ UNCHANGED <<postgres, master, managerVars, clientVars, command, already, stopError,
                 historyVars>>

(* The maintenance client takes whatever postgres listens on the port.     *)
GetDatabaseName(p) ==
  /\ master # Nil
  /\ Goto(p, "databaseName", "update")
  /\ UNCHANGED <<dbVars, managerVars, clientVars, command, startVars, stopError, historyVars>>

(* Without a state file this is a nil dereference: see StartDBFails.       *)
UpdateDatabaseName(p) ==
  /\ stateFile # Nil
  /\ Goto(p, "update", "ensureService")
  /\ stateFile' = [stateFile EXCEPT !.database = TRUE]
  /\ dbState' = [dbState EXCEPT ![p] = stateFile']
  /\ UNCHANGED <<postgres, master, managerVars, clientVars, command, already, stopError,
                 historyVars>>

EnsureService(p) ==
  /\ RootClient(p, "ensureService", "loadManager")
  /\ UNCHANGED <<managerVars, clientVars, command, startVars, stopError, historyVars>>

(* The deferred function of startDB: remove the state file and kill the    *)
(* postgres that was started.                                              *)
StartDBCleanup(p) ==
  /\ Goto(p, "cleanup", "failed")
  /\ stateFile' = Nil
  /\ ExitPostgres({p})
  /\ Cut(p, {p})
  /\ UNCHANGED <<managerVars, command, startVars, stopError, historyVars>>

-----------------------------------------------------------------------------
(* The plugin manager: pluginmanager/lifecycle.go.                         *)

ManagerRunning(p) ==
  /\ PluginManagerRunning
  /\ Goto(p, "loadManager", "started")
  /\ UNCHANGED <<dbVars, managerVars, clientVars, command, startVars, stopError, historyVars>>

(* The status becomes ServiceStarted, even when the database was running.  *)
ManagerNotRunning(p) ==
  /\ ~PluginManagerRunning
  /\ Goto(p, "loadManager", "newManager")
  /\ already' = [already EXCEPT ![p] = FALSE]
  /\ UNCHANGED <<dbVars, managerVars, clientVars, command, dbState, stopError, historyVars>>

(* StartNewInstance loads the state again, and stops an instance that was  *)
(* started since.                                                          *)
NoPrevious(p) ==
  /\ ~PluginManagerRunning
  /\ Goto(p, "newManager", "spawnManager")
  /\ UNCHANGED <<dbVars, managerVars, clientVars, command, startVars, stopError, historyVars>>
StopPrevious(p) ==
  /\ PluginManagerRunning
  /\ Goto(p, "newManager", "spawnManager")
  /\ managers' = managers \ {managerFile}
  /\ managerFile' = Nil
  /\ UNCHANGED <<dbVars, clientVars, command, startVars, stopError, historyVars>>

StartManager(p) ==
  /\ Goto(p, "spawnManager", "started")
  /\ managers' = managers \cup {p}
  /\ managerFile' = p
  /\ UNCHANGED <<dbVars, clientVars, command, startVars, stopError, historyVars>>

(* StartServices returns the error, and leaves the database running.       *)
StartManagerFails(p) ==
  /\ pc[p] \in {"newManager", "spawnManager"}
  /\ pc' = [pc EXCEPT ![p] = "failed"]
  /\ UNCHANGED <<dbVars, managerVars, clientVars, command, startVars, stopError, historyVars>>

-----------------------------------------------------------------------------
(* A session, and `service start` once the services run.                   *)

(* `service start` takes over the service of a session: it saves the state *)
(* that it read when it began.                                             *)
Convert(p) ==
  /\ command[p] = "serviceStart"
  /\ already[p] /\ dbState[p].invoker # "service"
  /\ Goto(p, "started", "connect")
  /\ stateFile' = [dbState[p] EXCEPT !.invoker = "service"]
  /\ UNCHANGED <<postgres, master, managerVars, clientVars, command, startVars, stopError,
                 historyVars>>

ServiceAlreadyRunning(p) ==
  /\ command[p] = "serviceStart"
  /\ already[p] /\ dbState[p].invoker = "service"
  /\ Goto(p, "started", "done")
  /\ UNCHANGED <<dbVars, managerVars, clientVars, command, startVars, stopError, historyVars>>

Started(p) ==
  /\ command[p] = "serviceStart" => ~already[p]
  /\ Goto(p, "started", "connect")
  /\ UNCHANGED <<dbVars, managerVars, clientVars, command, startVars, stopError, historyVars>>

(* NewLocalClient; `service start` uses its client to refresh connections. *)
Connect(p) ==
  /\ RootClient(p, "connect", IF command[p] = "session" THEN "using" ELSE "refresh")
  /\ connected' = connected \cup {p}
  /\ UNCHANGED <<managerVars, counting, cut, command, startVars, stopError, historyVars>>

ConnectFails(p) ==
  /\ NoRootClient(p, "connect", CASE command[p] = "session" -> "shutdown"
                                [] command[p] = "serviceStart" -> "abort"
                                [] OTHER -> "failed")
  /\ UNCHANGED <<managerVars, clientVars, command, startVars, stopError, historyVars>>

(* The pool of a session opens a new connection when it lost the old one. *)
Reconnect(p) ==
  /\ pc[p] = "using" /\ master # Nil /\ p \notin connected
  /\ connected' = connected \cup {p}
  /\ UNCHANGED <<dbVars, managerVars, counting, cut, command, pc, startVars, stopError,
                 historyVars>>

(* getPluginManager, which the FDW calls for a query of the session: a     *)
(* manager that is gone is started again ...                               *)
FindNoManager(p) ==
  /\ p \in connected
  /\ managerFile # Nil /\ ~PluginManagerRunning
  /\ Goto(p, "using", "restartManager")
  /\ overlapped' = (overlapped \/ ~Quiet(p))
  /\ UNCHANGED <<dbVars, managerVars, clientVars, command, startVars, stopError, uncounted,
                 survived, crashed>>

\* ... or the query fails.
RestartManager(p) ==
  /\ Goto(p, "restartManager", "using")
  /\ \/ /\ managers' = managers \cup {p}
        /\ managerFile' = p
     \/ UNCHANGED managerVars
  /\ UNCHANGED <<dbVars, clientVars, command, startVars, stopError, historyVars>>

(* LocalDbClient.Close: close the pool and go on to ShutdownService.       *)
Close(p) ==
  /\ \/ Goto(p, "using", "shutdown")
     \/ Goto(p, "refresh", "shutdown")
  /\ connected' = connected \ {p}
  /\ overlapped' = (overlapped \/ ~Quiet(p))
  /\ UNCHANGED <<dbVars, managerVars, counting, cut, command, startVars, stopError, uncounted,
                 survived, crashed>>

(* `service start`, or a restart, after its client is closed: the refresh  *)
(* was in error or it was not.                                             *)
Refreshed(p) ==
  /\ \/ Goto(p, "refreshed", "done")
     \/ Goto(p, "refreshed", IF command[p] = "serviceStart" THEN "abort" ELSE "failed")
  /\ UNCHANGED <<dbVars, managerVars, clientVars, command, startVars, stopError, historyVars>>

-----------------------------------------------------------------------------
(* runServiceInForeground: `service start --foreground` stays.             *)

StayInForeground(p) ==
  /\ command[p] = "serviceStart"
  /\ Goto(p, "refreshed", "foreground")
  /\ UNCHANGED <<dbVars, managerVars, clientVars, command, startVars, stopError, historyVars>>

CheckForeground(p) ==
  /\ GetState(p, "foreground",
       [running |-> "foreground", stopped |-> "done", unknown |-> "foreground"])
  /\ UNCHANGED <<managerVars, clientVars, command, startVars, stopError, historyVars>>

InterruptForeground(p) ==
  /\ RootClient(p, "foreground", "foregroundCounted")
  /\ counting' = counting \cup {p}
  /\ overlapped' = (overlapped \/ ~Quiet(p))
  /\ UNCHANGED <<managerVars, connected, cut, command, startVars, stopError, uncounted, survived,
                 crashed>>

\* Without a client it returns, and leaves the service running.
InterruptForegroundFails(p) ==
  /\ NoRootClient(p, "foreground", "failed")
  /\ UNCHANGED <<managerVars, clientVars, command, startVars, stopError, historyVars>>

(* "we know there will be at least 1 client (connectionWatcher)": one other *)
(* client does not count, and two do not either when the user insists.     *)
ForegroundCounted(p) ==
  /\ \/ Goto(p, "foregroundCounted", "foregroundStop")
     \/ /\ Cardinality((connected \cup counting) \ {p}) > 1
        /\ Goto(p, "foregroundCounted", "foreground")
  /\ counting' = counting \ {p}
  /\ UNCHANGED <<dbVars, managerVars, connected, cut, command, startVars, stopError,
                 historyVars>>

-----------------------------------------------------------------------------
(* ShutdownService and `service stop`.                                     *)

ShutdownService(p) ==
  /\ GetState(p, "shutdown",
       [running |-> IF stateFile = Nil \/ stateFile.invoker = "service" THEN Left(p) ELSE "count",
        stopped |-> Left(p), unknown |-> Left(p)])
  /\ UNCHANGED <<managerVars, clientVars, command, startVars, stopError, historyVars>>

(* `service stop` stops what `service start` has started only.             *)
CheckStop(p) ==
  /\ GetState(p, "checkStop",
       [running |-> IF stateFile # Nil /\ stateFile.invoker = "service" THEN "count" ELSE "done",
        stopped |-> "done", unknown |-> "failed"])
  /\ UNCHANGED <<managerVars, clientVars, command, startVars, stopError, historyVars>>

(* `service restart` counts no clients. *)
CheckRestart(p) ==
  /\ GetState(p, "checkRestart",
       [running |-> IF command[p] = "forceRestart" THEN "forceRestart" ELSE "restart",
        stopped |-> "done", unknown |-> "failed"])
  /\ dbState' = [dbState EXCEPT ![p] = IF State = "running" THEN stateFile ELSE Nil]
  /\ UNCHANGED <<managerVars, clientVars, command, already, stopError, historyVars>>

\* It also removes the state file of a service that is gone.
ServiceStatus(p) ==
  /\ GetState(p, "status", [running |-> "done", stopped |-> "done", unknown |-> "failed"])
  /\ UNCHANGED <<managerVars, clientVars, command, startVars, stopError, historyVars>>

(* GetCountOfThirdPartyClients. *)
Count(p) ==
  /\ RootClient(p, "count", "counted")
  /\ counting' = counting \cup {p}
  /\ UNCHANGED <<managerVars, connected, cut, command, startVars, stopError, historyVars>>

(* ShutdownService ignores the error and stops the service.                *)
CountFails(p) ==
  /\ NoRootClient(p, "count", IF command[p] = "serviceStop" THEN "failed" ELSE "stop")
  /\ uncounted' = IF command[p] = "serviceStop" THEN uncounted ELSE uncounted \cup {p}
  /\ UNCHANGED <<managerVars, clientVars, command, startVars, stopError, overlapped, survived,
                 crashed>>

(* All the clients of other processes count: counting clients do too.      *)
Counted(p) ==
  /\ Goto(p, "counted", IF (connected \cup counting) \ {p} = {} THEN "stop" ELSE Left(p))
  /\ counting' = counting \ {p}
  /\ UNCHANGED <<dbVars, managerVars, connected, cut, command, startVars, stopError,
                 historyVars>>

(* StopServices first stops the plugin manager; Shutdown may return an     *)
(* error, and then the manager lives on.                                   *)
StopManager(p) ==
  /\ \/ Goto(p, "stop", "stopDB")
     \/ Goto(p, "abort", "abortDB")
     \/ Goto(p, "forceStop", "killInstances")
     \/ Goto(p, "restart", "restartDB")
     \/ Goto(p, "foregroundStop", "foregroundStopDB")
     \/ Goto(p, "forceRestart", "killForRestart")
  /\ \/ /\ managers' = managers \ {managerFile}
        /\ managerFile' = IF PluginManagerRunning THEN Nil ELSE managerFile
        /\ stopError' = [stopError EXCEPT ![p] = FALSE]
     \/ /\ PluginManagerRunning
        /\ stopError' = [stopError EXCEPT ![p] = TRUE]
        /\ UNCHANGED managerVars
  /\ UNCHANGED <<dbVars, clientVars, command, startVars, historyVars>>

(* A StopServices that did not stop the database: ShutdownService forces it *)
(* then, the stop and the restart report it, and `service start` was        *)
(* failing anyway.                                                          *)
NotStopped(p) ==
  \/ Goto(p, "stopDB", IF command[p] = "serviceStop" THEN "done" ELSE "forceStop")
  \/ Goto(p, "abortDB", "failed")
  \/ Goto(p, "restartDB", "failed")
  \/ Goto(p, "foregroundStopDB", "done")

\* An error of either stop ends the restart.
StopForRestart(p, from) == Goto(p, from, IF stopError[p] THEN "failed" ELSE "start")

(* stopDBService when GetState does not find the service.                  *)
StopDBNotRunning(p) ==
  /\ State # "running"
  /\ NotStopped(p)
  /\ stateFile' = Nil
  /\ UNCHANGED <<postgres, master, managerVars, clientVars, command, startVars, stopError,
                 historyVars>>

(* doThreeStepPostgresExit: the process exits; the state file is removed   *)
(* if the plugin manager was stopped too.                                  *)
StopDB(p) ==
  /\ State = "running"
  /\ \/ Goto(p, "stopDB", Left(p))
     \/ Goto(p, "abortDB", "failed")
     \/ Goto(p, "foregroundStopDB", "done")
     \/ StopForRestart(p, "restartDB")
  /\ ExitPostgres({stateFile.pid})
  /\ Cut(p, {stateFile.pid})
  /\ stateFile' = IF stopError[p] THEN stateFile ELSE Nil
  /\ UNCHANGED <<managerVars, command, startVars, stopError, historyVars>>

StopDBTimesOut(p) ==
  /\ State = "running"
  /\ NotStopped(p)
  /\ UNCHANGED <<dbVars, managerVars, clientVars, command, startVars, stopError, historyVars>>

(* A forced stop kills every postgres that is a Steampipe postgres, the     *)
(* ones that a crash or an earlier stop has left behind as well.  One that *)
(* does not exit in time stays, and nobody is told.                        *)
KillInstances(p) ==
  /\ Goto(p, "killInstances", Left(p)) \/ StopForRestart(p, "killForRestart")
  /\ \E gone \in SUBSET postgres :
       /\ ExitPostgres(gone)
       /\ Cut(p, gone)
       /\ survived' = (gone # postgres)
       /\ crashed' = (crashed /\ (gone # postgres \/ stopError[p]))
  /\ stateFile' = IF stopError[p] THEN stateFile ELSE Nil
  /\ UNCHANGED <<managerVars, command, startVars, stopError, overlapped, uncounted>>

-----------------------------------------------------------------------------
(* The environment.                                                        *)

(* A postgres that did not get the data directory gives up.                *)
PostgresExits(p) ==
  /\ p \in postgres \ {master}
  /\ postgres' = postgres \ {p}
  /\ UNCHANGED <<stateFile, master, managerVars, clientVars, command, pc, startVars, stopError,
                 historyVars>>

ManagerDies(m) ==
  /\ m \in managers
  /\ managers' = managers \ {m}
  /\ UNCHANGED <<dbVars, managerFile, clientVars, command, pc, startVars, stopError, historyVars>>

(* A Steampipe process is killed halfway.                                  *)
Crash(p) ==
  /\ pc[p] \notin {"idle", "done", "failed", "crashed"}
  /\ ~crashed
  /\ pc' = [pc EXCEPT ![p] = "crashed"]
  /\ connected' = connected \ {p}
  /\ counting' = counting \ {p}
  /\ crashed' = TRUE
  /\ UNCHANGED <<dbVars, managerVars, cut, command, startVars, stopError, overlapped, uncounted,
                 survived>>

-----------------------------------------------------------------------------

StartDB(p) ==
  \/ RemoveStateFile(p) \/ PortBindable(p) \/ StartPostgresProcess(p)
  \/ SaveRunningInfo(p) \/ GetDatabaseName(p) \/ UpdateDatabaseName(p) \/ EnsureService(p)
  \/ StartDBFails(p) \/ StartDBCleanup(p)

StartPluginManager(p) ==
  \/ ManagerRunning(p) \/ ManagerNotRunning(p)
  \/ NoPrevious(p) \/ StopPrevious(p) \/ StartManager(p) \/ StartManagerFails(p)

Stop(p) ==
  \/ ShutdownService(p) \/ CheckStop(p) \/ CheckRestart(p) \/ ServiceStatus(p) \/ Count(p) \/ CountFails(p) \/ Counted(p)
  \/ StopManager(p) \/ StopDBNotRunning(p) \/ StopDB(p) \/ StopDBTimesOut(p)
  \/ KillInstances(p)

Next ==
  \/ \E p \in Processes :
       \/ \E c \in Commands : Begin(p, c)
       \/ StartServices(p) \/ EnsureCommandSchema(p) \/ EnsureCommandSchemaFails(p)
       \/ StartDB(p) \/ StartPluginManager(p)
       \/ Convert(p) \/ ServiceAlreadyRunning(p) \/ Started(p)
       \/ Connect(p) \/ ConnectFails(p) \/ Close(p) \/ Refreshed(p)
       \/ StayInForeground(p) \/ CheckForeground(p)
       \/ InterruptForeground(p) \/ InterruptForegroundFails(p) \/ ForegroundCounted(p)
       \/ Reconnect(p) \/ FindNoManager(p) \/ RestartManager(p)
       \/ Stop(p)
       \/ PostgresExits(p) \/ ManagerDies(p) \/ Crash(p)

Spec == Init /\ [][Next]_vars

-----------------------------------------------------------------------------
(* Properties.                                                             *)

Undisturbed == ~overlapped /\ ~survived /\ ~crashed
AllResting == \A p \in Processes : pc[p] \in Resting

(* Types, and the relations between the processes and their names.         *)
TypeOK ==
  /\ stateFile \in RunningInfos \cup {Nil}
  /\ postgres \subseteq Processes
  /\ master \in postgres \cup {Nil}
  /\ managers \subseteq Processes
  /\ managerFile \in Processes \cup {Nil}
  /\ connected \cup counting \subseteq Processes
  /\ (connected \cup counting # {}) => master # Nil
  /\ cut \subseteq Processes /\ uncounted \subseteq Processes
  /\ command \in [Processes -> Commands \cup {Nil}]
  /\ dbState \in [Processes -> RunningInfos \cup {Nil}]
  /\ already \in [Processes -> BOOLEAN] /\ stopError \in [Processes -> BOOLEAN]
  /\ overlapped \in BOOLEAN /\ survived \in BOOLEAN /\ crashed \in BOOLEAN

(* After commands that ran one at a time, however they ended, the state    *)
(* file tells the truth: GetState finds a service exactly when there is    *)
(* one, and then the file holds its pid and the name of its database.  A   *)
(* forced stop restores this after a process was killed in the middle of a *)
(* start or a stop, or a postgres outlived the forced stop before.         *)
StateFileTrue ==
  Undisturbed /\ AllResting =>
    /\ State = IF master # Nil THEN "running" ELSE "stopped"
    /\ master # Nil => stateFile.pid = master /\ stateFile.database

(* After such commands, and such a recovery, no plugin manager runs that   *)
(* the next StopServices will not find.                                    *)
OneManager == Undisturbed /\ AllResting => managers \subseteq {managerFile}

(* A session that ends and leaves no other session leaves no database      *)
(* behind either, unless `service start` owns it (ShutdownService).        *)
LastSessionStops ==
  [][ \A p \in Processes :
        /\ Undisturbed' /\ command[p] = "session"
        /\ pc[p] # "done" /\ pc'[p] = "done" /\ connected' = {}
        => master' = Nil \/ (stateFile' # Nil /\ stateFile'.invoker = "service") ]_vars

(* No session loses its database but to a forced stop, to a restart, to a  *)
(* `service start` that gives up, or to a process that could not count the *)
(* clients: this is what ShutdownService and `service stop` count them for,*)
(* and so does the client with which a restart refreshes the connections.  *)
OnlyForceCutsSessions ==
  [][ Undisturbed' /\ cut' # cut =>
        \E p \in Processes :
          /\ pc'[p] # pc[p]
          /\ \/ command[p] = "forceStop" \/ p \in uncounted
             \/ pc[p] \in {"abortDB", "foregroundStopDB", "restartDB", "killForRestart"} ]_vars

=============================================================================
