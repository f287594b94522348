------------------------ MODULE ServiceLifecycleProofs ------------------------
(***************************************************************************)
(* Proofs about ServiceLifecycle for any number of processes: what the     *)
(* state files say after commands that ran one at a time, and which stops  *)
(* take the database away from whom.                                       *)
(***************************************************************************)
EXTENDS ServiceLifecycle, TLAPS

(* Where a process is, and which commands get there.                       *)
FlowInv ==
  /\ DOMAIN pc = Processes
  /\ \A p \in Processes :
       /\ pc[p] \in {"start", "remove", "checkPort", "spawn", "save"} =>
            \/ command[p] \in {"session", "serviceStart"}
            \/ command[p] \in Restarts /\ dbState[p] # Nil
       /\ pc[p] \in {"ensure", "databaseName", "update", "ensureService", "loadManager", "newManager",
                     "spawnManager", "started"} => dbState[p] # Nil
       /\ pc[p] \in {"restart", "restartDB", "forceRestart", "killForRestart"} =>
            command[p] \in Restarts /\ dbState[p] # Nil
       /\ pc[p] = "checkRestart" => command[p] \in Restarts
       /\ pc[p] \in {"checkStop", "status", "refreshed", "foreground", "foregroundCounted",
                     "foregroundStop", "foregroundStopDB"} => command[p] # "session"

(* As long as no start or stop has overlapped with another, there is one   *)
(* process at a time in the middle of one.                                 *)
BusyInv ==
  ~overlapped => \A p, q \in Processes : pc[p] \notin Resting /\ pc[q] \notin Resting => p = q

(* The places between the spawn of a postgres and the running info with    *)
(* the name of its database.                                               *)
Writing == {"save", "databaseName", "update", "cleanup"}

Serves(info) == info.pid = master /\ info.database
FileTrue == master # Nil => stateFile # Nil /\ Serves(stateFile)

DatabaseAt(p) ==
  /\ pc[p] \in {"remove", "checkPort", "spawn"} => master = Nil
  /\ pc[p] \in {"save", "databaseName", "update", "ensureService"} => master = p
  /\ pc[p] \in {"databaseName", "update"} => stateFile # Nil /\ stateFile.pid = p
  /\ pc[p] = "cleanup" => postgres \subseteq {p}
  /\ pc[p] \in {"ensure", "ensureService", "loadManager", "newManager", "spawnManager", "started"}
     /\ master # Nil => Serves(dbState[p])

(* The database that is running is the one of the state file, except in    *)
(* the middle of a start.                                                  *)
DatabaseInv ==
  Undisturbed =>
    /\ postgres \subseteq {master}
    /\ \A p \in Processes : DatabaseAt(p)
    /\ (\A p \in Processes : pc[p] \notin Writing) => FileTrue

(* Unless starts and stops overlap, the manager that runs is the one of    *)
(* the state file, and none is started while one runs.                     *)
ManagerInv ==
  ~overlapped =>
    /\ managers \subseteq {managerFile}
    /\ \A p \in Processes : pc[p] \in {"spawnManager", "restartManager"} => managers = {}

(* A client that counts is in the middle of it, and a session without a    *)
(* client has lost it.                                                     *)
ClientInv ==
  /\ \A p \in counting : pc[p] \in {"counted", "foregroundCounted"}
  /\ \A p \in Processes : pc[p] \in {"using", "restartManager"} => p \in connected \cup cut

(* A process that stops the service after it has counted the clients takes *)
(* it from no session that had it; and a postgres that is just being       *)
(* started has only sessions that had lost theirs.                         *)
StopInv ==
  \A p \in Processes :
    /\ ~overlapped /\ pc[p] \in {"stop", "stopDB", "forceStop", "killInstances"} =>
         command[p] = "forceStop" \/ p \in uncounted \/ connected \ {p} \subseteq cut
    /\ Undisturbed /\ pc[p] \in {"save", "databaseName", "update", "ensureService", "cleanup"} =>
         connected \subseteq cut

IInv == TypeOK /\ FlowInv /\ BusyInv /\ DatabaseInv /\ ManagerInv /\ ClientInv /\ StopInv

-----------------------------------------------------------------------------
(* What the operators of the model do.                                     *)

LEMMA StateCases ==
  /\ State \in {"running", "stopped", "unknown"}
  /\ State = "running" <=> stateFile # Nil /\ stateFile.pid \in postgres
  /\ State = "unknown" <=> stateFile = Nil /\ master # Nil
BY DEF State

(* GetState goes where it is told to, and forgets a service that is gone.  *)
LEMMA GetStateEffect ==
  ASSUME NEW p, NEW from, NEW running, NEW stopped, NEW unknown,
         GetState(p, from, [running |-> running, stopped |-> stopped, unknown |-> unknown])
  PROVE  /\ pc[p] = from /\ UNCHANGED <<postgres, master>>
         /\ \/ /\ State = "running" /\ stateFile' = stateFile
               /\ pc' = [pc EXCEPT ![p] = running]
            \/ /\ State = "stopped" /\ stateFile' = Nil
               /\ pc' = [pc EXCEPT ![p] = stopped]
            \/ /\ State = "unknown" /\ stateFile' = Nil
               /\ pc' = [pc EXCEPT ![p] = unknown]
<1>1. PICK next : next = [running |-> running, stopped |-> stopped, unknown |-> unknown]
  OBVIOUS
<1>2. next["running"] = running /\ next["stopped"] = stopped /\ next["unknown"] = unknown
  BY <1>1
<1>3. /\ pc[p] = from /\ pc' = [pc EXCEPT ![p] = next[State]]
      /\ UNCHANGED <<postgres, master>>
      /\ stateFile' = IF State = "running" THEN stateFile ELSE Nil
  BY <1>1 DEF GetState, Goto
<1>4. CASE State = "running"
  BY <1>2, <1>3, <1>4
<1>5. CASE State = "stopped"
  BY <1>2, <1>3, <1>5
<1>6. CASE State = "unknown"
  BY <1>2, <1>3, <1>6
<1> QED
  BY StateCases, <1>4, <1>5, <1>6

LEMMA NoRootClientEffect ==
  ASSUME NEW p, NEW from, NEW to, NoRootClient(p, from, to)
  PROVE  /\ pc[p] = from /\ UNCHANGED <<postgres, master>>
         /\ pc' = [pc EXCEPT ![p] = to]
         /\ stateFile' = IF State = "running" THEN stateFile ELSE Nil
BY StateCases DEF NoRootClient, GetState, Goto

LEMMA BeginEffect ==
  ASSUME NEW p \in Processes, NEW c \in Commands, Begin(p, c)
  PROVE  /\ pc[p] = "idle"
         /\ \E to \in {"start", "checkStop", "forceStop", "checkRestart", "status"} :
              /\ pc' = [pc EXCEPT ![p] = to]
              /\ to = "start" => c \in {"session", "serviceStart"}
              /\ to = "checkStop" => c = "serviceStop"
              /\ to = "forceStop" => c = "forceStop"
              /\ to = "checkRestart" => c \in Restarts
              /\ to = "status" => c = "serviceStatus"
<1>1. PICK next : next = [session |-> "start", serviceStart |-> "start",
                          serviceStop |-> "checkStop", forceStop |-> "forceStop",
                          serviceRestart |-> "checkRestart", forceRestart |-> "checkRestart",
                          serviceStatus |-> "status"]
  OBVIOUS
<1>2. /\ next["session"] = "start" /\ next["serviceStart"] = "start"
      /\ next["serviceStop"] = "checkStop" /\ next["forceStop"] = "forceStop"
      /\ next["serviceRestart"] = "checkRestart" /\ next["forceRestart"] = "checkRestart"
      /\ next["serviceStatus"] = "status"
  BY <1>1
<1>3. pc[p] = "idle" /\ pc' = [pc EXCEPT ![p] = next[c]]
  BY <1>1 DEF Begin, Goto
<1>5. CASE c \in {"session", "serviceStart"}
  BY <1>2, <1>3, <1>5
<1>6. CASE c \in Restarts
  BY <1>2, <1>3, <1>6 DEF Restarts
<1>7. CASE c \in {"serviceStop", "forceStop", "serviceStatus"}
  BY <1>2, <1>3, <1>7
<1> QED
  BY <1>3, <1>5, <1>6, <1>7 DEF Commands
-----------------------------------------------------------------------------
(* Where a step of process p takes it from and to, and what it then knows. *)

SameCommand(p) == command'[p] = command[p] /\ dbState'[p] = dbState[p]

Route(p) ==
  LET from == pc[p]
      to == pc'[p] IN
  /\ to = "start" => \/ from = "idle" /\ command'[p] \in {"session", "serviceStart"}
                     \/ from \in {"restartDB", "killForRestart"} /\ SameCommand(p)
  /\ to = "remove" => from = "start" /\ State = "stopped" /\ SameCommand(p)
  /\ to = "checkPort" => from = "remove" /\ SameCommand(p)
  /\ to = "spawn" => from = "checkPort" /\ master = Nil /\ SameCommand(p)
  /\ to = "save" => from = "spawn" /\ SameCommand(p)
  /\ to = "databaseName" => from = "save" /\ dbState'[p] # Nil
  /\ to = "update" => from = "databaseName" /\ SameCommand(p)
  /\ to = "ensureService" => from = "update" /\ dbState'[p] # Nil
  /\ to = "cleanup" => from \in {"checkPort", "spawn", "databaseName", "update", "ensureService"}
  /\ to = "ensure" => from = "start" /\ State = "running" /\ dbState'[p] = stateFile
  /\ to = "loadManager" => from \in {"ensure", "ensureService"} /\ SameCommand(p)
  /\ to = "newManager" => from = "loadManager" /\ SameCommand(p)
  /\ to = "spawnManager" => /\ from = "newManager" /\ SameCommand(p)
                            /\ ~PluginManagerRunning \/ managers' = managers \ {managerFile}
  /\ to = "started" => from \in {"loadManager", "spawnManager"} /\ SameCommand(p)
  /\ to = "using" => \/ from = "connect" /\ p \in connected'
                     \/ from = "restartManager" /\ connected' = connected /\ cut' = cut
  /\ to = "restartManager" => from = "using" /\ p \in connected' /\ ~PluginManagerRunning
  /\ to \in {"checkStop", "status"} => from = "idle" /\ command'[p] # "session"
  /\ to = "checkRestart" => from = "idle" /\ command'[p] \in Restarts
  /\ to \in {"restart", "forceRestart"} =>
       from = "checkRestart" /\ dbState'[p] # Nil /\ command'[p] = command[p]
  /\ to = "restartDB" => from = "restart" /\ SameCommand(p)
  /\ to = "killForRestart" => from = "forceRestart" /\ SameCommand(p)
  /\ to = "refreshed" => /\ from \in {"shutdown", "counted", "stopDB", "killInstances"}
                         /\ command[p] # "session" /\ SameCommand(p)
  /\ to = "foreground" => from \in {"refreshed", "foregroundCounted"} /\ SameCommand(p)
  /\ to = "foregroundCounted" => from = "foreground" /\ SameCommand(p)
  /\ to = "foregroundStop" => from = "foregroundCounted" /\ SameCommand(p)
  /\ to = "foregroundStopDB" => from = "foregroundStop" /\ SameCommand(p)
  /\ to = "counted" => from = "count"
  /\ to = "stop" => /\ SameCommand(p)
                    /\ \/ from = "counted" /\ (connected \cup counting) \ {p} = {}
                       \/ from = "count" /\ p \in uncounted'
  /\ to = "stopDB" => from = "stop" /\ SameCommand(p)
  /\ to = "forceStop" => \/ from = "stopDB" /\ SameCommand(p)
                         \/ from = "idle" /\ command'[p] = "forceStop"
  /\ to = "killInstances" => from = "forceStop" /\ SameCommand(p)
  /\ to # "idle"

ManagerChange(p) ==
  \/ /\ managers' \subseteq managers
     /\ managerFile' = managerFile \/ managers' = managers \ {managerFile}
  \/ /\ pc[p] \in {"spawnManager", "restartManager"} /\ pc'[p] # pc[p]
     /\ managers' = managers \cup {p} /\ managerFile' = p

Flow(p) ==
  /\ DOMAIN pc' = Processes
  /\ \A q \in Processes \ {p} : pc'[q] = pc[q] /\ SameCommand(q)
  /\ IF pc'[p] = pc[p] THEN SameCommand(p) ELSE Route(p)
  /\ ManagerChange(p)
  /\ overlapped => overlapped'
  /\ pc[p] \in Resting /\ pc'[p] \notin Resting => overlapped' \/ Quiet(p)

(* What a process saves is the running info of a service.                  *)
LEMMA SavedInfo ==
  ASSUME TypeOK, FlowInv, NEW p \in Processes, SaveRunningInfo(p) \/ UpdateDatabaseName(p)
  PROVE  stateFile' \in RunningInfos /\ stateFile' # Nil /\ dbState'[p] = stateFile'
<1>1. ASSUME SaveRunningInfo(p) PROVE Invoker(p) \in {"query", "service"}
  <2>1. pc[p] = "save"
    BY <1>1 DEF SaveRunningInfo, Goto
  <2>2. CASE command[p] \in {"session", "serviceStart"}
    BY <2>2 DEF Invoker
  <2>3. CASE command[p] \in Restarts /\ dbState[p] # Nil
    <3>1. dbState[p] \in RunningInfos
      BY <2>3 DEF TypeOK
    <3> QED
      BY <2>3, <3>1 DEF Invoker, RunningInfos, Restarts
  <2> QED
    BY <2>1, <2>2, <2>3 DEF FlowInv
<1>2. stateFile' \in RunningInfos
  <2>1. CASE SaveRunningInfo(p)
    BY <1>1, <2>1 DEF SaveRunningInfo, RunningInfos
  <2>2. CASE UpdateDatabaseName(p)
    <3>1. stateFile \in RunningInfos
      BY <2>2 DEF UpdateDatabaseName, TypeOK
    <3> QED
      BY <2>2, <3>1 DEF UpdateDatabaseName, RunningInfos
  <2> QED
    BY <2>1, <2>2
<1>3. dbState'[p] = stateFile'
  BY DEF SaveRunningInfo, UpdateDatabaseName, TypeOK
<1> QED
  BY <1>2, <1>3, NilAssumption

LEMMA FlowOfStart ==
  ASSUME TypeOK, FlowInv, NEW p \in Processes,
         StartDB(p) \/ StartPluginManager(p)
  PROVE  Flow(p)
<1> USE DEF FlowInv, Flow, Route, ManagerChange, SameCommand, Goto, dbVars, managerVars, clientVars, startVars,
            historyVars, Resting
<1>1. CASE RemoveStateFile(p)
  BY <1>1 DEF RemoveStateFile
<1>2. CASE PortBindable(p)
  BY <1>2 DEF PortBindable
<1>3. CASE StartPostgresProcess(p)
  BY <1>3 DEF StartPostgresProcess
<1>4. CASE SaveRunningInfo(p)
  <2>1. \A q \in Processes \ {p} : dbState'[q] = dbState[q]
    BY <1>4 DEF SaveRunningInfo, TypeOK
  <2> QED
    BY <1>4, <2>1, SavedInfo DEF SaveRunningInfo
<1>5. CASE GetDatabaseName(p)
  BY <1>5 DEF GetDatabaseName
<1>6. CASE UpdateDatabaseName(p)
  <2>1. \A q \in Processes \ {p} : dbState'[q] = dbState[q]
    BY <1>6 DEF UpdateDatabaseName, TypeOK
  <2> QED
    BY <1>6, <2>1, SavedInfo DEF UpdateDatabaseName
<1>7. CASE EnsureService(p)
  BY <1>7 DEF EnsureService, RootClient
<1>8. CASE StartDBFails(p)
  BY <1>8 DEF StartDBFails
<1>9. CASE StartDBCleanup(p)
  BY <1>9 DEF StartDBCleanup
<1>10. CASE ManagerRunning(p) \/ ManagerNotRunning(p)
  BY <1>10 DEF ManagerRunning, ManagerNotRunning
<1>11. CASE NoPrevious(p) \/ StopPrevious(p)
  BY <1>11 DEF NoPrevious, StopPrevious
<1>12. CASE StartManager(p) \/ StartManagerFails(p)
  BY <1>12 DEF StartManager, StartManagerFails
<1> QED
  BY <1>1, <1>2, <1>3, <1>4, <1>5, <1>6, <1>7, <1>8, <1>9, <1>10, <1>11, <1>12 DEF StartDB, StartPluginManager

LEMMA FlowOfSession ==
  ASSUME TypeOK, FlowInv, NEW p \in Processes,
         \/ \E c \in Commands : Begin(p, c)
         \/ StartServices(p) \/ EnsureCommandSchema(p) \/ EnsureCommandSchemaFails(p)
         \/ Convert(p) \/ ServiceAlreadyRunning(p) \/ Started(p)
         \/ Connect(p) \/ ConnectFails(p) \/ Close(p) \/ Refreshed(p)
         \/ StayInForeground(p) \/ CheckForeground(p)
         \/ InterruptForeground(p) \/ InterruptForegroundFails(p) \/ ForegroundCounted(p)
         \/ Reconnect(p) \/ FindNoManager(p) \/ RestartManager(p)
         \/ PostgresExits(p) \/ Crash(p)
  PROVE  Flow(p)
<1> USE DEF FlowInv, Flow, Route, ManagerChange, SameCommand, Goto, dbVars, managerVars, clientVars, startVars,
            historyVars, Resting
<1>1. ASSUME NEW c \in Commands, Begin(p, c) PROVE Flow(p)
  <2>1. /\ command'[p] = c /\ dbState' = dbState /\ (overlapped => overlapped')
        /\ UNCHANGED managerVars
        /\ overlapped' \/ Quiet(p)
        /\ \A q \in Processes \ {p} : command'[q] = command[q]
    BY <1>1 DEF Begin, TypeOK
  <2> QED
    BY <1>1, <2>1, BeginEffect DEF Restarts
<1>2. CASE StartServices(p)
  <2>1. /\ pc[p] = "start"
        /\ \/ State = "running" /\ pc' = [pc EXCEPT ![p] = "ensure"]
           \/ State = "stopped" /\ pc' = [pc EXCEPT ![p] = "remove"]
           \/ State = "unknown" /\ pc' = [pc EXCEPT ![p] = "failed"]
    BY <1>2, GetStateEffect DEF StartServices
  <2>2. /\ command' = command /\ overlapped' = overlapped /\ UNCHANGED managerVars
        /\ \A q \in Processes \ {p} : dbState'[q] = dbState[q]
        /\ dbState'[p] = IF State = "running" THEN stateFile ELSE dbState[p]
    BY <1>2 DEF StartServices, TypeOK
  <2> QED
    BY <2>1, <2>2
<1>3. CASE EnsureCommandSchema(p)
  BY <1>3 DEF EnsureCommandSchema, RootClient
<1>4. CASE EnsureCommandSchemaFails(p)
  BY <1>4, NoRootClientEffect DEF EnsureCommandSchemaFails
<1>5. CASE Convert(p) \/ ServiceAlreadyRunning(p) \/ Started(p)
  BY <1>5 DEF Convert, ServiceAlreadyRunning, Started
<1>6. CASE Connect(p)
  BY <1>6 DEF Connect, RootClient
<1>7. CASE ConnectFails(p)
  BY <1>7, NoRootClientEffect DEF ConnectFails
<1>8. CASE Close(p)
  BY <1>8 DEF Close
<1>17. CASE Refreshed(p)
  BY <1>17 DEF Refreshed
<1>9. CASE StayInForeground(p)
  BY <1>9 DEF StayInForeground
<1>10. CASE CheckForeground(p)
  <2>1. /\ pc[p] = "foreground"
        /\ pc' = [pc EXCEPT ![p] = "foreground"] \/ pc' = [pc EXCEPT ![p] = "done"]
    BY <1>10, GetStateEffect DEF CheckForeground
  <2> QED
    BY <1>10, <2>1 DEF CheckForeground
<1>11. CASE InterruptForeground(p)
  BY <1>11 DEF InterruptForeground, RootClient
<1>12. CASE InterruptForegroundFails(p)
  BY <1>12, NoRootClientEffect DEF InterruptForegroundFails
<1>13. CASE ForegroundCounted(p)
  BY <1>13 DEF ForegroundCounted
<1>14. CASE Reconnect(p)
  BY <1>14 DEF Reconnect
<1>18. CASE FindNoManager(p)
  BY <1>18 DEF FindNoManager
<1>15. CASE RestartManager(p)
  BY <1>15 DEF RestartManager
<1>16. CASE PostgresExits(p) \/ Crash(p)
  BY <1>16 DEF PostgresExits, Crash
<1> QED
  BY <1>1, <1>2, <1>3, <1>4, <1>5, <1>6, <1>7, <1>8, <1>9, <1>10, <1>11, <1>12, <1>13, <1>14, <1>15, <1>16, <1>17, <1>18

LEMMA FlowOfStop ==
  ASSUME TypeOK, FlowInv, NEW p \in Processes, Stop(p)
  PROVE  Flow(p)
<1>0. \/ Left(p) = "done"
      \/ Left(p) = "refreshed" /\ command[p] # "session"
  BY DEF Left, Restarts
<1> USE DEF FlowInv, Flow, Route, ManagerChange, SameCommand, Goto, dbVars, managerVars, clientVars, startVars,
            historyVars, Resting
<1>1. CASE ShutdownService(p)
  <2>1. /\ pc[p] = "shutdown"
        /\ pc' = [pc EXCEPT ![p] = Left(p)] \/ pc' = [pc EXCEPT ![p] = "count"]
    BY <1>1, GetStateEffect DEF ShutdownService
  <2> QED
    BY <1>0, <1>1, <2>1 DEF ShutdownService
<1>2. CASE CheckStop(p)
  <2>1. /\ pc[p] = "checkStop"
        /\ \E to \in {"count", "done", "failed"} : pc' = [pc EXCEPT ![p] = to]
    BY <1>2, GetStateEffect DEF CheckStop
  <2> QED
    BY <1>2, <2>1 DEF CheckStop
<1>3. CASE CheckRestart(p)
  <2>1. /\ pc[p] = "checkRestart"
        /\ \/ State = "running" /\ \E to \in {"restart", "forceRestart"} : pc' = [pc EXCEPT ![p] = to]
           \/ \E to \in {"done", "failed"} : pc' = [pc EXCEPT ![p] = to]
    BY <1>3, GetStateEffect DEF CheckRestart
  <2>2. /\ command' = command /\ overlapped' = overlapped /\ UNCHANGED managerVars
        /\ \A q \in Processes \ {p} : dbState'[q] = dbState[q]
        /\ State = "running" => dbState'[p] # Nil
    BY <1>3, StateCases DEF CheckRestart, TypeOK
  <2> QED
    BY <2>1, <2>2
<1>4. CASE ServiceStatus(p)
  <2>1. /\ pc[p] = "status"
        /\ \E to \in {"done", "failed"} : pc' = [pc EXCEPT ![p] = to]
    BY <1>4, GetStateEffect DEF ServiceStatus
  <2> QED
    BY <1>4, <2>1 DEF ServiceStatus
<1>5. CASE Count(p)
  BY <1>5 DEF Count, RootClient
<1>6. CASE CountFails(p)
  BY <1>6, NoRootClientEffect DEF CountFails
<1>7. CASE Counted(p)
  BY <1>0, <1>7 DEF Counted
<1>8. CASE StopManager(p)
  BY <1>8 DEF StopManager
<1>9. CASE StopDBNotRunning(p) \/ StopDBTimesOut(p)
  BY <1>9 DEF StopDBNotRunning, StopDBTimesOut, NotStopped
<1>10. CASE StopDB(p)
  BY <1>0, <1>10 DEF StopDB, StopForRestart
<1>11. CASE KillInstances(p)
  BY <1>0, <1>11 DEF KillInstances, StopForRestart
<1> QED
  BY <1>1, <1>2, <1>3, <1>4, <1>5, <1>6, <1>7, <1>8, <1>9, <1>10, <1>11 DEF Stop

LEMMA FlowOfManager ==
  ASSUME TypeOK, FlowInv, NEW m \in Processes, ManagerDies(m)
  PROVE  Flow(m)
BY DEF ManagerDies, FlowInv, Flow, ManagerChange, SameCommand, startVars, historyVars

LEMMA FlowStep ==
  ASSUME TypeOK, FlowInv, Next
  PROVE  \E p \in Processes : Flow(p)
BY FlowOfStart, FlowOfSession, FlowOfStop, FlowOfManager DEF Next

LEMMA FlowInvStep ==
  ASSUME TypeOK, FlowInv, [Next]_vars
  PROVE  FlowInv'
<1>1. CASE UNCHANGED vars
  BY <1>1 DEF vars, startVars, FlowInv
<1>2. CASE Next
  <2>1. PICK p \in Processes : Flow(p)
    BY <1>2, FlowStep
  <2> QED
    BY <2>1, StateCases DEF FlowInv, Flow, Route, SameCommand
<1> QED
  BY <1>1, <1>2

LEMMA BusyStep ==
  ASSUME TypeOK, FlowInv, BusyInv, [Next]_vars
  PROVE  BusyInv'
<1>1. CASE UNCHANGED vars
  BY <1>1 DEF vars, historyVars, BusyInv
<1>2. CASE Next
  <2>1. PICK p \in Processes : Flow(p)
    BY <1>2, FlowStep
  <2> QED
    BY <2>1 DEF BusyInv, Flow, Quiet
<1> QED
  BY <1>1, <1>2
-----------------------------------------------------------------------------
(* The types.                                                              *)

(* The conjuncts of the type that a step may disturb, in groups.           *)
DatabaseType ==
  /\ stateFile \in RunningInfos \cup {Nil}
  /\ postgres \subseteq Processes
  /\ master \in postgres \cup {Nil}
ClientType ==
  /\ connected \cup counting \subseteq Processes
  /\ (connected \cup counting # {}) => master # Nil
  /\ cut \subseteq Processes
ManagerType == managers \subseteq Processes /\ managerFile \in Processes \cup {Nil}
StartType ==
  /\ command \in [Processes -> Commands \cup {Nil}]
  /\ dbState \in [Processes -> RunningInfos \cup {Nil}]
  /\ already \in [Processes -> BOOLEAN]
StopType == stopError \in [Processes -> BOOLEAN] /\ uncounted \subseteq Processes
HistoryType == overlapped \in BOOLEAN /\ survived \in BOOLEAN /\ crashed \in BOOLEAN

LEMMA TypeParts ==
  TypeOK <=> DatabaseType /\ ClientType /\ ManagerType /\ StartType /\ StopType /\ HistoryType
BY DEF TypeOK, DatabaseType, ClientType, ManagerType, StartType, StopType, HistoryType

(* Steps that leave the postgres processes and the clients as they are.    *)
LEMMA DatabaseSame ==
  ASSUME TypeOK, UNCHANGED <<postgres, master, clientVars>>, stateFile' \in {stateFile, Nil}
  PROVE  DatabaseType' /\ ClientType'
BY TypeParts DEF DatabaseType, ClientType, clientVars

LEMMA ManagerSame ==
  ASSUME TypeOK, UNCHANGED managerVars
  PROVE  ManagerType'
BY TypeParts DEF ManagerType, managerVars

LEMMA StartSame ==
  ASSUME TypeOK, UNCHANGED <<command, startVars>>
  PROVE  StartType'
BY TypeParts DEF StartType, startVars

LEMMA StopSame ==
  ASSUME TypeOK, UNCHANGED <<stopError, uncounted>>
  PROVE  StopType'
BY TypeParts DEF StopType

LEMMA HistorySame ==
  ASSUME TypeOK, overlapped' = overlapped \/ \E p \in Processes : overlapped' = (overlapped \/ ~Quiet(p)),
         UNCHANGED <<survived, crashed>>
  PROVE  HistoryType'
<1>1. overlapped' \in BOOLEAN
  <2>1. CASE overlapped' = overlapped
    BY <2>1, TypeParts DEF HistoryType
  <2>2. ASSUME NEW p \in Processes, overlapped' = (overlapped \/ ~Quiet(p)) PROVE overlapped' \in BOOLEAN
    BY <2>2
  <2> QED
    BY <2>1, <2>2
<1> QED
  BY <1>1, TypeParts DEF HistoryType

LEMMA ExitTyped ==
  ASSUME TypeOK, NEW p, NEW pids, ExitPostgres(pids), Cut(p, pids),
         stateFile' \in {stateFile, Nil}
  PROVE  DatabaseType' /\ ClientType'
<1>1. DatabaseType /\ ClientType
  BY TypeParts
<1>2. DatabaseType'
  BY <1>1 DEF DatabaseType, ExitPostgres
<1> QED
  BY <1>1, <1>2 DEF ClientType, ExitPostgres, Cut, DatabaseType

(* What GetState and the clients of the database do.                       *)
LEMMA DatabaseSteps ==
  ASSUME TypeOK, NEW p \in Processes, NEW from, NEW to, UNCHANGED clientVars,
         \/ GetState(p, from, to) \/ RootClient(p, from, to) \/ NoRootClient(p, from, to)
  PROVE  DatabaseType' /\ ClientType'
BY DatabaseSame DEF GetState, RootClient, NoRootClient, dbVars

(* A step changes some of the types' variables and leaves the others.      *)
LEMMA SameTypes ==
  ASSUME TypeOK
  PROVE  /\ UNCHANGED <<postgres, master, clientVars>> /\ stateFile' \in {stateFile, Nil} =>
              DatabaseType' /\ ClientType'
         /\ UNCHANGED managerVars => ManagerType'
         /\ UNCHANGED <<command, startVars>> => StartType'
         /\ UNCHANGED <<stopError, uncounted>> => StopType'
         /\ UNCHANGED historyVars => HistoryType'
         /\ DatabaseType' /\ ClientType' /\ ManagerType' /\ StartType' /\ StopType' /\ HistoryType' =>
              TypeOK'
<1>1. /\ UNCHANGED <<postgres, master, clientVars>> /\ stateFile' \in {stateFile, Nil} =>
            DatabaseType' /\ ClientType'
      /\ UNCHANGED managerVars => ManagerType'
      /\ UNCHANGED <<command, startVars>> => StartType'
      /\ UNCHANGED <<stopError, uncounted>> => StopType'
      /\ UNCHANGED historyVars => HistoryType'
  BY DatabaseSame, ManagerSame, StartSame, StopSame, HistorySame DEF historyVars
<1>2. DatabaseType' /\ ClientType' /\ ManagerType' /\ StartType' /\ StopType' /\ HistoryType' => TypeOK'
  BY DEF TypeOK, DatabaseType, ClientType, ManagerType, StartType, StopType, HistoryType
<1> QED
  BY <1>1, <1>2

LEMMA TypeOfStart ==
  ASSUME TypeOK, FlowInv, NEW p \in Processes,
         StartDB(p) \/ StartPluginManager(p)
  PROVE  TypeOK'
<1>u. DatabaseType /\ ClientType /\ ManagerType /\ StartType
  BY TypeParts
<1>1. CASE RemoveStateFile(p) \/ PortBindable(p)
  BY <1>1, SameTypes DEF historyVars, RemoveStateFile, PortBindable, dbVars
<1>2. CASE GetDatabaseName(p) \/ StartDBFails(p)
  BY <1>2, SameTypes DEF historyVars, GetDatabaseName, StartDBFails, dbVars
<1>3. CASE StartPostgresProcess(p)
  <2>1. DatabaseType' /\ ClientType'
    BY <1>3, <1>u DEF StartPostgresProcess, DatabaseType, ClientType, clientVars
  <2> QED
    BY <1>3, <2>1, SameTypes DEF historyVars, StartPostgresProcess
<1>4. CASE SaveRunningInfo(p)
  <2>1. stateFile' \in RunningInfos
    BY <1>4, SavedInfo
  <2>2. DatabaseType' /\ ClientType'
    BY <1>4, <1>u, <2>1 DEF SaveRunningInfo, DatabaseType, ClientType, clientVars
  <2>3. StartType'
    BY <1>4, <1>u, <2>1 DEF SaveRunningInfo, StartType
  <2> QED
    BY <1>4, <2>2, <2>3, SameTypes DEF historyVars, SaveRunningInfo
<1>5. CASE UpdateDatabaseName(p)
  <2>1. stateFile' \in RunningInfos
    BY <1>5, SavedInfo
  <2>2. DatabaseType' /\ ClientType'
    BY <1>5, <1>u, <2>1 DEF UpdateDatabaseName, DatabaseType, ClientType, clientVars
  <2>3. StartType'
    BY <1>5, <1>u, <2>1 DEF UpdateDatabaseName, StartType
  <2> QED
    BY <1>5, <2>2, <2>3, SameTypes DEF historyVars, UpdateDatabaseName
<1>6. CASE EnsureService(p)
  BY <1>6, SameTypes, DatabaseSteps DEF historyVars, EnsureService
<1>7. CASE StartDBCleanup(p)
  BY <1>7, SameTypes, ExitTyped DEF historyVars, StartDBCleanup
<1>8. CASE ManagerRunning(p) \/ NoPrevious(p) \/ StartManagerFails(p)
  BY <1>8, SameTypes DEF historyVars, ManagerRunning, NoPrevious, StartManagerFails, dbVars
<1>9. CASE ManagerNotRunning(p)
  <2>1. StartType'
    BY <1>9, <1>u DEF ManagerNotRunning, StartType
  <2> QED
    BY <1>9, <2>1, SameTypes DEF historyVars, ManagerNotRunning, dbVars
<1>10. CASE StopPrevious(p) \/ StartManager(p)
  <2>1. ManagerType'
    BY <1>10, <1>u DEF StopPrevious, StartManager, ManagerType
  <2> QED
    BY <1>10, <2>1, SameTypes DEF historyVars, StopPrevious, StartManager, dbVars
<1> QED
  BY <1>1, <1>2, <1>3, <1>4, <1>5, <1>6, <1>7, <1>8, <1>9, <1>10 DEF StartDB, StartPluginManager
LEMMA TypeOfSession ==
  ASSUME TypeOK, FlowInv, NEW p \in Processes,
         \/ \E c \in Commands : Begin(p, c)
         \/ StartServices(p) \/ EnsureCommandSchema(p) \/ EnsureCommandSchemaFails(p)
         \/ Convert(p) \/ ServiceAlreadyRunning(p) \/ Started(p)
         \/ Connect(p) \/ ConnectFails(p) \/ Close(p) \/ Refreshed(p)
         \/ StayInForeground(p) \/ CheckForeground(p)
         \/ InterruptForeground(p) \/ InterruptForegroundFails(p) \/ ForegroundCounted(p)
         \/ Reconnect(p) \/ FindNoManager(p) \/ RestartManager(p)
         \/ PostgresExits(p) \/ ManagerDies(p) \/ Crash(p)
  PROVE  TypeOK'
<1>u. DatabaseType /\ ClientType /\ ManagerType /\ StartType /\ HistoryType
  BY TypeParts
<1>1. ASSUME NEW c \in Commands, Begin(p, c) PROVE TypeOK'
  <2>1. StartType'
    BY <1>1, <1>u DEF Begin, StartType, startVars
  <2>2. HistoryType'
    BY <1>1, HistorySame DEF Begin
  <2> QED
    BY <1>1, <2>1, <2>2, SameTypes DEF Begin, dbVars
<1>2. CASE StartServices(p)
  <2>1. StartType'
    BY <1>2, <1>u DEF StartServices, StartType, DatabaseType
  <2>2. DatabaseType' /\ ClientType'
    BY <1>2, DatabaseSteps DEF StartServices
  <2> QED
    BY <1>2, <2>1, <2>2, SameTypes DEF StartServices, historyVars
<1>3. CASE EnsureCommandSchema(p) \/ EnsureCommandSchemaFails(p) \/ ConnectFails(p)
  <2>1. DatabaseType' /\ ClientType'
    BY <1>3, DatabaseSteps DEF EnsureCommandSchema, EnsureCommandSchemaFails, ConnectFails
  <2> QED
    BY <1>3, <2>1, SameTypes DEF EnsureCommandSchema, EnsureCommandSchemaFails, ConnectFails, historyVars
<1>4. CASE Convert(p)
  <2>1. dbState[p] \in RunningInfos
    BY <1>4, <1>u DEF Convert, Goto, FlowInv, StartType
  <2>2. stateFile' \in RunningInfos
    BY <1>4, <2>1 DEF Convert, RunningInfos
  <2>3. DatabaseType' /\ ClientType'
    BY <1>4, <1>u, <2>2 DEF Convert, DatabaseType, ClientType, clientVars
  <2> QED
    BY <1>4, <2>3, SameTypes DEF Convert, historyVars
<1>5. CASE ServiceAlreadyRunning(p) \/ Started(p) \/ Refreshed(p) \/ StayInForeground(p)
  BY <1>5, SameTypes DEF ServiceAlreadyRunning, Started, Refreshed, StayInForeground, dbVars, historyVars
<1>6. CASE Connect(p) \/ Reconnect(p)
  <2>1. master # Nil /\ UNCHANGED dbVars /\ connected' = connected \cup {p} /\ UNCHANGED <<counting, cut>>
    BY <1>6 DEF Connect, RootClient, Reconnect
  <2>2. DatabaseType' /\ ClientType'
    BY <1>u, <2>1 DEF DatabaseType, ClientType, dbVars
  <2> QED
    BY <1>6, <2>2, SameTypes DEF Connect, Reconnect, historyVars
<1>7. CASE Close(p)
  <2>1. DatabaseType' /\ ClientType'
    BY <1>7, <1>u DEF Close, DatabaseType, ClientType, dbVars
  <2>2. HistoryType'
    BY <1>7, HistorySame DEF Close
  <2> QED
    BY <1>7, <2>1, <2>2, SameTypes DEF Close
<1>8. CASE CheckForeground(p) \/ InterruptForegroundFails(p)
  <2>1. DatabaseType' /\ ClientType'
    BY <1>8, DatabaseSteps DEF CheckForeground, InterruptForegroundFails
  <2> QED
    BY <1>8, <2>1, SameTypes DEF CheckForeground, InterruptForegroundFails, historyVars
<1>9. CASE InterruptForeground(p)
  <2>1. DatabaseType' /\ ClientType'
    BY <1>9, <1>u DEF InterruptForeground, RootClient, DatabaseType, ClientType, dbVars
  <2>2. HistoryType'
    BY <1>9, HistorySame DEF InterruptForeground
  <2> QED
    BY <1>9, <2>1, <2>2, SameTypes DEF InterruptForeground
<1>10. CASE ForegroundCounted(p)
  <2>1. DatabaseType' /\ ClientType'
    BY <1>10, <1>u DEF ForegroundCounted, DatabaseType, ClientType, dbVars
  <2> QED
    BY <1>10, <2>1, SameTypes DEF ForegroundCounted, historyVars
<1>11. CASE FindNoManager(p)
  <2>1. HistoryType'
    BY <1>11, HistorySame DEF FindNoManager
  <2> QED
    BY <1>11, <2>1, SameTypes DEF FindNoManager, dbVars
<1>12. CASE RestartManager(p) \/ ManagerDies(p)
  <2>1. ManagerType'
    BY <1>12, <1>u DEF RestartManager, ManagerDies, ManagerType, managerVars
  <2> QED
    BY <1>12, <2>1, SameTypes DEF RestartManager, ManagerDies, dbVars, historyVars
<1>13. CASE PostgresExits(p)
  <2>1. DatabaseType' /\ ClientType'
    BY <1>13, <1>u DEF PostgresExits, DatabaseType, ClientType, clientVars
  <2> QED
    BY <1>13, <2>1, SameTypes DEF PostgresExits, historyVars
<1>14. CASE Crash(p)
  <2>1. DatabaseType' /\ ClientType'
    BY <1>14, <1>u DEF Crash, DatabaseType, ClientType, dbVars
  <2>2. HistoryType'
    BY <1>14, <1>u DEF Crash, HistoryType
  <2> QED
    BY <1>14, <2>1, <2>2, SameTypes DEF Crash
<1> QED
  BY <1>1, <1>2, <1>3, <1>4, <1>5, <1>6, <1>7, <1>8, <1>9, <1>10, <1>11, <1>12, <1>13, <1>14

LEMMA TypeOfStop ==
  ASSUME TypeOK, NEW p \in Processes, Stop(p)
  PROVE  TypeOK'
<1>u. DatabaseType /\ ClientType /\ ManagerType /\ StartType /\ StopType /\ HistoryType
  BY TypeParts
<1>1. CASE ShutdownService(p) \/ CheckStop(p) \/ ServiceStatus(p)
  <2>1. DatabaseType' /\ ClientType'
    BY <1>1, DatabaseSteps DEF ShutdownService, CheckStop, ServiceStatus
  <2> QED
    BY <1>1, <2>1, SameTypes DEF ShutdownService, CheckStop, ServiceStatus, historyVars
<1>2. CASE CheckRestart(p)
  <2>1. DatabaseType' /\ ClientType'
    BY <1>2, DatabaseSteps DEF CheckRestart
  <2>2. StartType'
    BY <1>2, <1>u DEF CheckRestart, StartType, DatabaseType
  <2> QED
    BY <1>2, <2>1, <2>2, SameTypes DEF CheckRestart, historyVars
<1>3. CASE Count(p)
  <2>1. DatabaseType' /\ ClientType'
    BY <1>3, <1>u DEF Count, RootClient, DatabaseType, ClientType, dbVars
  <2> QED
    BY <1>3, <2>1, SameTypes DEF Count, historyVars
<1>4. CASE CountFails(p)
  <2>1. DatabaseType' /\ ClientType'
    BY <1>4, DatabaseSteps DEF CountFails
  <2>2. StopType'
    BY <1>4, <1>u DEF CountFails, StopType
  <2>3. HistoryType'
    BY <1>4, HistorySame DEF CountFails
  <2> QED
    BY <1>4, <2>1, <2>2, <2>3, SameTypes DEF CountFails
<1>5. CASE Counted(p)
  <2>1. DatabaseType' /\ ClientType'
    BY <1>5, <1>u DEF Counted, DatabaseType, ClientType, dbVars
  <2> QED
    BY <1>5, <2>1, SameTypes DEF Counted, historyVars
<1>6. CASE StopManager(p)
  <2>1. ManagerType'
    BY <1>6, <1>u DEF StopManager, ManagerType, managerVars
  <2>2. StopType'
    BY <1>6, <1>u DEF StopManager, StopType, historyVars
  <2> QED
    BY <1>6, <2>1, <2>2, SameTypes DEF StopManager, dbVars
<1>7. CASE StopDBNotRunning(p) \/ StopDBTimesOut(p)
  BY <1>7, SameTypes DEF StopDBNotRunning, StopDBTimesOut, dbVars, historyVars
<1>8. CASE StopDB(p)
  <2>1. DatabaseType' /\ ClientType'
    BY <1>8, ExitTyped DEF StopDB
  <2> QED
    BY <1>8, <2>1, SameTypes DEF StopDB, historyVars
<1>9. CASE KillInstances(p)
  <2>1. PICK gone \in SUBSET postgres :
          /\ ExitPostgres(gone) /\ Cut(p, gone)
          /\ survived' = (gone # postgres) /\ crashed' = (crashed /\ (gone # postgres \/ stopError[p]))
    BY <1>9 DEF KillInstances
  <2>2. DatabaseType' /\ ClientType'
    BY <1>9, <2>1, ExitTyped DEF KillInstances
  <2>3. StopType'
    BY <1>9, StopSame DEF KillInstances
  <2>4. survived' \in BOOLEAN /\ crashed' \in BOOLEAN
    BY <2>1, <1>u DEF HistoryType
  <2>5. HistoryType'
    BY <1>9, <1>u, <2>4 DEF KillInstances, HistoryType
  <2> QED
    BY <1>9, <2>2, <2>3, <2>5, SameTypes DEF KillInstances
<1> QED
  BY <1>1, <1>2, <1>3, <1>4, <1>5, <1>6, <1>7, <1>8, <1>9 DEF Stop

LEMMA TypeStep ==
  ASSUME TypeOK, FlowInv, [Next]_vars
  PROVE  TypeOK'
<1>1. CASE UNCHANGED vars
  BY <1>1 DEF vars, dbVars, managerVars, clientVars, startVars, historyVars, TypeOK
<1>2. CASE Next
  BY <1>2, TypeOfStart, TypeOfSession, TypeOfStop DEF Next
<1> QED
  BY <1>1, <1>2
-----------------------------------------------------------------------------
(* The plugin manager.                                                     *)

LEMMA ManagerStep ==
  ASSUME TypeOK, FlowInv, BusyInv, ManagerInv, [Next]_vars
  PROVE  ManagerInv'
<1>1. CASE UNCHANGED vars
  BY <1>1 DEF vars, managerVars, historyVars, ManagerInv
<1>2. CASE Next
  <2>1. PICK p \in Processes : Flow(p)
    BY <1>2, FlowStep
  <2> SUFFICES ASSUME ~overlapped'
               PROVE  /\ managers' \subseteq {managerFile'}
                      /\ \A q \in Processes : pc'[q] \in {"spawnManager", "restartManager"} => managers' = {}
    BY DEF ManagerInv
  <2>2. /\ ~overlapped /\ managers \subseteq {managerFile}
        /\ \A q \in Processes : pc[q] \in {"spawnManager", "restartManager"} => managers = {}
    BY <2>1 DEF Flow, ManagerInv
  <2>3. CASE /\ managers' \subseteq managers
             /\ managerFile' = managerFile \/ managers' = managers \ {managerFile}
    <3>1. managers' \subseteq {managerFile'}
      BY <2>2, <2>3
    <3>2. ASSUME NEW q \in Processes, pc'[q] \in {"spawnManager", "restartManager"} PROVE managers' = {}
      <4>1. CASE pc'[q] = pc[q]
        BY <2>2, <2>3, <3>2, <4>1
      <4>2. CASE pc'[q] # pc[q]
        <5>1. q = p /\ Route(p)
          BY <2>1, <4>2 DEF Flow
        <5>2. ~PluginManagerRunning \/ managers' = managers \ {managerFile}
          BY <3>2, <5>1 DEF Route
        <5> QED
          BY <2>2, <2>3, <5>2 DEF PluginManagerRunning
      <4> QED
        BY <4>1, <4>2
    <3> QED
      BY <3>1, <3>2
  <2>4. CASE /\ pc[p] \in {"spawnManager", "restartManager"} /\ pc'[p] # pc[p]
             /\ managers' = managers \cup {p} /\ managerFile' = p
    <3>1. managers' = {managerFile'}
      BY <2>2, <2>4
    <3>2. pc[p] \notin Resting
      BY <2>4 DEF Resting
    <3>3. ASSUME NEW q \in Processes PROVE pc'[q] \notin {"spawnManager", "restartManager"}
      <4>1. CASE q = p
        BY <2>1, <2>4, <4>1 DEF Flow, Route
      <4>2. CASE q # p
        BY <2>1, <2>2, <3>2, <4>2 DEF Flow, BusyInv, Resting
      <4> QED
        BY <4>1, <4>2
    <3> QED
      BY <3>1, <3>3
  <2> QED
    BY <2>1, <2>3, <2>4 DEF Flow, ManagerChange
<1> QED
  BY <1>1, <1>2
-----------------------------------------------------------------------------
(* The clients.                                                            *)

Counting == {"counted", "foregroundCounted"}
Stopping == {"cleanup", "stopDB", "abortDB", "foregroundStopDB", "restartDB",
             "killInstances", "killForRestart"}

(* What a step of process p does to the clients.                           *)
ClientChange(p) ==
  /\ connected' \subseteq connected \cup {p}
  /\ p \in connected' \ connected => \/ pc[p] = "connect"
                                     \/ pc[p] = "using" /\ pc'[p] = "using"
  /\ connected \ {p} \subseteq connected' \cup cut'
  /\ pc'[p] = pc[p] => connected \subseteq connected'
  /\ cut \subseteq cut' /\ uncounted \subseteq uncounted'
  /\ cut' # cut => /\ pc'[p] # pc[p] /\ pc[p] \in Stopping
                   /\ cut' \subseteq cut \cup (connected \ {p})
  /\ counting' \subseteq counting \cup {p}
  /\ p \in counting' => pc'[p] \in Counting

LEMMA ClientsSame ==
  ASSUME ClientInv, NEW p \in Processes, UNCHANGED <<clientVars, uncounted>>,
         pc[p] \notin Counting \/ pc' = pc
  PROVE  ClientChange(p)
BY DEF ClientInv, ClientChange, clientVars, Counting

LEMMA ClientsExit ==
  ASSUME ClientInv, NEW p \in Processes, NEW pids, ExitPostgres(pids), Cut(p, pids),
         uncounted' = uncounted, pc[p] \in Stopping, pc'[p] # pc[p]
  PROVE  ClientChange(p)
<1>1. p \notin counting
  BY DEF ClientInv, Stopping
<1> QED
  BY <1>1 DEF ClientInv, ClientChange, ExitPostgres, Cut, Stopping

LEMMA ClientsOfStart ==
  ASSUME FlowInv, ClientInv, NEW p \in Processes, StartDB(p) \/ StartPluginManager(p)
  PROVE  ClientChange(p)
<1> USE DEF Goto, Counting
<1>1. CASE RemoveStateFile(p) \/ PortBindable(p) \/ StartPostgresProcess(p)
  BY <1>1, ClientsSame DEF RemoveStateFile, PortBindable, StartPostgresProcess, historyVars
<1>2. CASE SaveRunningInfo(p) \/ GetDatabaseName(p) \/ UpdateDatabaseName(p)
  BY <1>2, ClientsSame DEF SaveRunningInfo, GetDatabaseName, UpdateDatabaseName, historyVars
<1>3. CASE EnsureService(p) \/ StartDBFails(p)
  BY <1>3, ClientsSame DEF EnsureService, RootClient, StartDBFails, historyVars
<1>4. CASE StartDBCleanup(p)
  BY <1>4, ClientsExit DEF StartDBCleanup, historyVars, FlowInv, Stopping
<1>5. CASE ManagerRunning(p) \/ ManagerNotRunning(p) \/ NoPrevious(p)
  BY <1>5, ClientsSame DEF ManagerRunning, ManagerNotRunning, NoPrevious, historyVars
<1>6. CASE StopPrevious(p) \/ StartManager(p) \/ StartManagerFails(p)
  BY <1>6, ClientsSame DEF StopPrevious, StartManager, StartManagerFails, historyVars
<1> QED
  BY <1>1, <1>2, <1>3, <1>4, <1>5, <1>6 DEF StartDB, StartPluginManager

LEMMA ClientsOfSession ==
  ASSUME FlowInv, ClientInv, NEW p \in Processes,
         \/ \E c \in Commands : Begin(p, c)
         \/ StartServices(p) \/ EnsureCommandSchema(p) \/ EnsureCommandSchemaFails(p)
         \/ Convert(p) \/ ServiceAlreadyRunning(p) \/ Started(p)
         \/ Connect(p) \/ ConnectFails(p) \/ Close(p) \/ Refreshed(p)
         \/ StayInForeground(p) \/ CheckForeground(p)
         \/ InterruptForeground(p) \/ InterruptForegroundFails(p) \/ ForegroundCounted(p)
         \/ Reconnect(p) \/ FindNoManager(p) \/ RestartManager(p)
         \/ PostgresExits(p) \/ ManagerDies(p) \/ Crash(p)
  PROVE  ClientChange(p)
<1> USE DEF Goto, Counting
<1>1. ASSUME NEW c \in Commands, Begin(p, c) PROVE ClientChange(p)
  BY <1>1, BeginEffect, ClientsSame DEF Begin
<1>2. CASE StartServices(p) \/ EnsureCommandSchema(p) \/ EnsureCommandSchemaFails(p)
  BY <1>2, ClientsSame DEF StartServices, EnsureCommandSchema, EnsureCommandSchemaFails, GetState,
     RootClient, NoRootClient, historyVars
<1>3. CASE Convert(p) \/ ServiceAlreadyRunning(p) \/ Started(p)
  BY <1>3, ClientsSame DEF Convert, ServiceAlreadyRunning, Started, historyVars
<1>4. CASE Connect(p)
  BY <1>4 DEF Connect, RootClient, historyVars, FlowInv, ClientInv, ClientChange
<1>5. CASE ConnectFails(p) \/ CheckForeground(p) \/ InterruptForegroundFails(p)
  BY <1>5, ClientsSame DEF ConnectFails, CheckForeground, InterruptForegroundFails, GetState,
     NoRootClient, historyVars
<1>6. CASE Close(p)
  BY <1>6 DEF Close, FlowInv, ClientInv, ClientChange
<1>7. CASE Refreshed(p) \/ StayInForeground(p) \/ FindNoManager(p) \/ RestartManager(p)
  BY <1>7, ClientsSame DEF Refreshed, StayInForeground, FindNoManager, RestartManager, historyVars
<1>8. CASE InterruptForeground(p)
  BY <1>8 DEF InterruptForeground, RootClient, FlowInv, ClientInv, ClientChange
<1>9. CASE ForegroundCounted(p)
  BY <1>9 DEF ForegroundCounted, historyVars, FlowInv, ClientInv, ClientChange
<1>10. CASE Reconnect(p)
  BY <1>10 DEF Reconnect, historyVars, ClientInv, ClientChange
<1>11. CASE PostgresExits(p) \/ ManagerDies(p)
  BY <1>11, ClientsSame DEF PostgresExits, ManagerDies, historyVars
<1>12. CASE Crash(p)
  BY <1>12 DEF Crash, FlowInv, ClientInv, ClientChange
<1> QED
  BY <1>1, <1>2, <1>3, <1>4, <1>5, <1>6, <1>7, <1>8, <1>9, <1>10, <1>11, <1>12

LEMMA ClientsOfStop ==
  ASSUME FlowInv, ClientInv, NEW p \in Processes, Stop(p)
  PROVE  ClientChange(p)
<1>0. Left(p) \in {"done", "refreshed"}
  BY DEF Left
<1> USE DEF Goto, Counting
<1>1. CASE ShutdownService(p) \/ CheckStop(p) \/ CheckRestart(p) \/ ServiceStatus(p)
  BY <1>1, ClientsSame DEF ShutdownService, CheckStop, CheckRestart, ServiceStatus, GetState,
     historyVars
<1>2. CASE Count(p)
  BY <1>2 DEF Count, RootClient, historyVars, FlowInv, ClientInv, ClientChange
<1>3. CASE CountFails(p)
  BY <1>3, NoRootClientEffect DEF CountFails, clientVars, ClientInv, ClientChange
<1>4. CASE Counted(p)
  BY <1>4 DEF Counted, historyVars, FlowInv, ClientInv, ClientChange
<1>5. CASE StopManager(p)
  BY <1>5, ClientsSame DEF StopManager, historyVars
<1>6. CASE StopDBNotRunning(p) \/ StopDBTimesOut(p)
  BY <1>6, ClientsSame DEF StopDBNotRunning, StopDBTimesOut, NotStopped, historyVars
<1>7. CASE StopDB(p)
  <2>1. pc[p] \in Stopping /\ pc'[p] # pc[p]
    BY <1>0, <1>7 DEF StopDB, StopForRestart, FlowInv, Stopping
  <2> QED
    BY <1>7, <2>1, ClientsExit DEF StopDB, historyVars
<1>8. CASE KillInstances(p)
  <2>1. pc[p] \in Stopping /\ pc'[p] # pc[p]
    BY <1>0, <1>8 DEF KillInstances, StopForRestart, FlowInv, Stopping
  <2> QED
    BY <1>8, <2>1, ClientsExit DEF KillInstances
<1> QED
  BY <1>1, <1>2, <1>3, <1>4, <1>5, <1>6, <1>7, <1>8 DEF Stop

LEMMA ClientFlow ==
  ASSUME TypeOK, FlowInv, ClientInv, Next
  PROVE  \E p \in Processes : Flow(p) /\ ClientChange(p)
BY FlowOfStart, FlowOfSession, FlowOfStop, FlowOfManager,
   ClientsOfStart, ClientsOfSession, ClientsOfStop DEF Next

LEMMA ClientStep ==
  ASSUME TypeOK, FlowInv, ClientInv, [Next]_vars
  PROVE  ClientInv'
<1>1. CASE UNCHANGED vars
  BY <1>1 DEF vars, clientVars, ClientInv
<1>2. CASE Next
  <2>1. PICK p \in Processes : Flow(p) /\ ClientChange(p)
    BY <1>2, ClientFlow
  <2>2. ASSUME NEW q \in counting' PROVE pc'[q] \in {"counted", "foregroundCounted"}
    BY <2>1, <2>2, TypeParts DEF Flow, ClientChange, ClientInv, Counting, ClientType
  <2>3. ASSUME NEW q \in Processes, pc'[q] \in {"using", "restartManager"}
        PROVE  q \in connected' \cup cut'
    <3>1. CASE q # p
      BY <2>1, <2>3, <3>1 DEF Flow, ClientChange, ClientInv
    <3>2. CASE q = p /\ pc'[p] = pc[p]
      BY <2>1, <2>3, <3>2 DEF ClientChange, ClientInv
    <3>3. CASE q = p /\ pc'[p] # pc[p]
      BY <2>1, <2>3, <3>3 DEF Flow, Route, ClientInv
    <3> QED
      BY <3>1, <3>2, <3>3
  <2> QED
    BY <2>2, <2>3 DEF ClientInv
<1> QED
  BY <1>1, <1>2
-----------------------------------------------------------------------------
(* The database.                                                           *)

(* A process that is not resting is the only one.                          *)
LEMMA Alone ==
  ASSUME FlowInv, BusyInv, NEW p \in Processes, Flow(p), ~overlapped, pc[p] \notin Resting
  PROVE  \A q \in Processes \ {p} : pc[q] \in Resting /\ pc'[q] \in Resting
BY DEF BusyInv, Flow

(* When no other process is in the middle of a start, a step needs to      *)
(* leave in order what it is about only.                                   *)
LEMMA DatabaseOfOne ==
  ASSUME FlowInv, BusyInv, NEW p \in Processes, Flow(p), ~overlapped, pc[p] \notin Resting,
         postgres' \subseteq {master'}, DatabaseAt(p)',
         pc'[p] \notin Writing => FileTrue'
  PROVE  DatabaseInv'
<1>1. ASSUME NEW q \in Processes PROVE DatabaseAt(q)'
  <2>1. CASE q = p
    BY <2>1
  <2>2. CASE q # p
    BY <2>2, Alone DEF DatabaseAt, Resting
  <2> QED
    BY <2>1, <2>2
<1> QED
  BY <1>1 DEF DatabaseInv

(* GetState finds the service when there is one, unless a start is under   *)
(* way.                                                                    *)
LEMMA StateTrue ==
  ASSUME TypeOK, postgres \subseteq {master}, FileTrue
  PROVE  /\ State = "running" <=> master # Nil
         /\ State # "unknown"
         /\ State = "running" => Serves(stateFile)
BY StateCases, ProcessesAssumption DEF TypeOK, FileTrue, Serves

(* Steps that leave the postgres processes alone, and the state file of a  *)
(* service that GetState finds.                                            *)
LEMMA DatabaseKept ==
  ASSUME TypeOK, FlowInv, BusyInv, DatabaseInv, NEW p \in Processes, Flow(p),
         UNCHANGED <<postgres, master>>,
         stateFile' = stateFile \/ (State # "running" /\ stateFile' = Nil),
         Undisturbed' => Undisturbed,
         pc'[p] # pc[p] =>
           /\ pc'[p] \notin {"save", "databaseName", "ensureService"}
           /\ pc[p] \in Writing => pc'[p] \in Writing
  PROVE  DatabaseInv'
<1> SUFFICES ASSUME Undisturbed' PROVE DatabaseInv'
  BY DEF DatabaseInv
<1>1. /\ ~overlapped /\ postgres \subseteq {master}
      /\ \A q \in Processes : DatabaseAt(q)
      /\ (\A q \in Processes : pc[q] \notin Writing) => FileTrue
  BY DEF DatabaseInv, Undisturbed
<1>2. postgres' \subseteq {master'}
  BY <1>1
<1>3. ASSUME NEW q \in Processes, pc[q] \in {"databaseName", "update"}
      PROVE  stateFile' = stateFile
  <2>1. stateFile # Nil /\ stateFile.pid = q /\ master = q
    BY <1>1, <1>3 DEF DatabaseAt
  <2>2. q \in postgres
    BY <2>1, ProcessesAssumption DEF TypeOK
  <2> QED
    BY <2>1, <2>2, StateCases
<1>4. ASSUME \A q \in Processes : pc'[q] \notin Writing PROVE FileTrue'
  <2>1. \A q \in Processes : pc[q] \notin Writing
    BY <1>4 DEF Flow
  <2>2. FileTrue
    BY <1>1, <2>1
  <2>3. State # "running" => master = Nil
    BY <1>1, <2>2, StateTrue
  <2> QED
    BY <2>2, <2>3 DEF FileTrue, Serves
<1>5. ASSUME NEW q \in Processes PROVE DatabaseAt(q)'
  <2>1. CASE pc'[q] = pc[q]
    <3>1. dbState'[q] = dbState[q]
      BY <2>1 DEF Flow, SameCommand
    <3> QED
      BY <1>1, <1>3, <2>1, <3>1 DEF DatabaseAt, Serves
  <2>2. CASE pc'[q] # pc[q]
    <3>1. q = p /\ Route(p)
      BY <2>2 DEF Flow
    <3>2. CASE pc[p] = "start"
      <4>1. \A r \in Processes : pc[r] \notin Writing
        BY <1>1, <3>2 DEF BusyInv, Resting, Writing
      <4>2. FileTrue
        BY <1>1, <4>1
      <4>3. pc'[p] = "remove" => master = Nil
        BY <1>1, <3>1, <4>2, StateTrue DEF Route
      <4>4. pc'[p] = "ensure" => dbState'[p] = stateFile /\ Serves(stateFile)
        BY <1>1, <3>1, <4>2, StateTrue DEF Route
      <4>5. pc'[p] \notin {"checkPort", "spawn", "save", "databaseName", "update", "ensureService", "cleanup",
                          "loadManager", "newManager", "spawnManager", "started"}
        BY <3>1, <3>2 DEF Route
      <4> QED
        BY <3>1, <4>3, <4>4, <4>5 DEF DatabaseAt, Serves
    <3>3. CASE pc[p] \in {"checkPort", "spawn"}
      <4>1. master = Nil /\ postgres = {}
        BY <1>1, <3>3, ProcessesAssumption DEF DatabaseAt, TypeOK
      <4>2. pc'[p] \notin {"databaseName", "update", "save", "ensureService"}
        BY <2>2, <3>1, <3>3 DEF Route
      <4> QED
        BY <3>1, <4>1, <4>2 DEF DatabaseAt
    <3>4. CASE pc[p] \notin {"start", "checkPort", "spawn"}
      <4>1. DatabaseAt(p)
        BY <1>1
      <4>2. pc'[p] \notin {"remove", "save", "databaseName", "ensureService", "ensure"}
        BY <2>2, <3>1, <3>4 DEF Route
      <4>3. pc'[p] \in {"checkPort", "spawn"} => master = Nil
        BY <3>1, <4>1 DEF DatabaseAt, Route
      <4>4. pc'[p] = "update" => master = p /\ stateFile' # Nil /\ stateFile'.pid = p
        BY <1>3, <3>1, <4>1 DEF DatabaseAt, Route
      <4>5. pc'[p] = "cleanup" => postgres \subseteq {p}
        BY <1>1, <3>1, <3>4, <4>1 DEF DatabaseAt, Route
      <4>6. pc'[p] \in {"loadManager", "newManager", "spawnManager", "started"} /\ master # Nil =>
              Serves(dbState[p]) /\ dbState'[p] = dbState[p]
        BY <3>1, <4>1 DEF DatabaseAt, Route, SameCommand
      <4> QED
        BY <3>1, <4>2, <4>3, <4>4, <4>5, <4>6 DEF DatabaseAt, Serves
    <3> QED
      BY <3>2, <3>3, <3>4
  <2> QED
    BY <2>1, <2>2
<1> QED
  BY <1>2, <1>4, <1>5 DEF DatabaseInv
LEMMA DatabaseOfStart ==
  ASSUME TypeOK, FlowInv, BusyInv, DatabaseInv, NEW p \in Processes, Flow(p),
         StartDB(p) \/ StartPluginManager(p)
  PROVE  DatabaseInv'
<1> SUFFICES ASSUME Undisturbed' PROVE DatabaseInv'
  BY DEF DatabaseInv
<1>0. Undisturbed /\ ~overlapped /\ survived' = survived /\ crashed' = crashed
  <2>1. UNCHANGED historyVars
    BY DEF StartDB, StartPluginManager, RemoveStateFile, PortBindable, StartPostgresProcess,
       SaveRunningInfo, GetDatabaseName, UpdateDatabaseName, EnsureService, StartDBFails, StartDBCleanup,
       ManagerRunning, ManagerNotRunning, NoPrevious, StopPrevious, StartManager, StartManagerFails
  <2> QED
    BY <2>1 DEF Undisturbed, historyVars
<1>i. /\ postgres \subseteq {master} /\ DatabaseAt(p)
      /\ master \in postgres \cup {Nil} /\ Nil \notin postgres
  BY <1>0, ProcessesAssumption DEF DatabaseInv, TypeOK
<1> USE DEF Goto, FlowInv, Writing
<1>1. CASE RemoveStateFile(p)
  <2>1. /\ pc[p] = "remove" /\ pc'[p] = "checkPort" /\ master = Nil
        /\ stateFile' = Nil /\ UNCHANGED <<postgres, master>>
    BY <1>1, <1>i DEF RemoveStateFile, DatabaseAt
  <2>2. DatabaseAt(p)' /\ FileTrue'
    BY <2>1 DEF DatabaseAt, FileTrue
  <2> QED
    BY <1>0, <1>i, <2>1, <2>2, DatabaseOfOne DEF Resting
<1>2. CASE PortBindable(p) \/ GetDatabaseName(p) \/ EnsureService(p) \/ StartDBFails(p)
  BY <1>0, <1>2, DatabaseKept DEF PortBindable, GetDatabaseName, EnsureService, RootClient, StartDBFails,
     dbVars
<1>3. CASE StartPostgresProcess(p)
  <2>1. /\ pc[p] = "spawn" /\ pc'[p] = "save"
        /\ postgres' = {p} /\ master' = p
    BY <1>3, <1>i DEF StartPostgresProcess, DatabaseAt
  <2>2. DatabaseAt(p)'
    BY <2>1 DEF DatabaseAt
  <2> QED
    BY <1>0, <2>1, <2>2, DatabaseOfOne DEF Resting
<1>4. CASE SaveRunningInfo(p)
  <2>1. /\ pc[p] = "save" /\ pc'[p] = "databaseName" /\ UNCHANGED <<postgres, master>>
        /\ stateFile' = [pid |-> p, invoker |-> Invoker(p), database |-> FALSE]
    BY <1>4 DEF SaveRunningInfo
  <2>2. stateFile' # Nil /\ stateFile'.pid = p
    BY <1>4, <2>1, SavedInfo
  <2>3. DatabaseAt(p)'
    BY <1>i, <2>1, <2>2 DEF DatabaseAt
  <2> QED
    BY <1>0, <1>i, <2>1, <2>3, DatabaseOfOne DEF Resting
<1>5. CASE UpdateDatabaseName(p)
  <2>1. /\ pc[p] = "update" /\ pc'[p] = "ensureService" /\ UNCHANGED <<postgres, master>>
        /\ stateFile' = [stateFile EXCEPT !.database = TRUE]
    BY <1>5 DEF UpdateDatabaseName
  <2>2. stateFile \in RunningInfos /\ stateFile.pid = p /\ master = p
    BY <1>5, <1>i, <2>1 DEF UpdateDatabaseName, DatabaseAt, TypeOK
  <2>3. stateFile' # Nil /\ dbState'[p] = stateFile'
    BY <1>5, SavedInfo
  <2>4. stateFile'.pid = p /\ stateFile'.database
    BY <2>1, <2>2 DEF RunningInfos
  <2>5. DatabaseAt(p)' /\ FileTrue'
    BY <2>1, <2>2, <2>3, <2>4 DEF DatabaseAt, FileTrue, Serves
  <2> QED
    BY <1>0, <1>i, <2>1, <2>5, DatabaseOfOne DEF Resting
<1>6. CASE StartDBCleanup(p)
  <2>1. /\ pc[p] = "cleanup" /\ pc'[p] = "failed" /\ postgres' = {} /\ master' = Nil
    BY <1>6, <1>i DEF StartDBCleanup, ExitPostgres, DatabaseAt
  <2>2. DatabaseAt(p)' /\ FileTrue'
    BY <2>1 DEF DatabaseAt, FileTrue
  <2> QED
    BY <1>0, <2>1, <2>2, DatabaseOfOne DEF Resting
<1>7. CASE StartPluginManager(p)
  <2>1. /\ UNCHANGED dbVars
        /\ pc[p] \in {"loadManager", "newManager", "spawnManager"}
        /\ pc'[p] \in {"started", "newManager", "spawnManager", "failed"}
    BY <1>7 DEF StartPluginManager, ManagerRunning, ManagerNotRunning, NoPrevious, StopPrevious,
       StartManager, StartManagerFails
  <2> QED
    BY <1>0, <2>1, DatabaseKept DEF dbVars
<1> QED
  BY <1>1, <1>2, <1>3, <1>4, <1>5, <1>6, <1>7 DEF StartDB

LEMMA DatabaseOfSession ==
  ASSUME TypeOK, FlowInv, BusyInv, DatabaseInv, NEW p \in Processes, Flow(p),
         \/ \E c \in Commands : Begin(p, c)
         \/ StartServices(p) \/ EnsureCommandSchema(p) \/ EnsureCommandSchemaFails(p)
         \/ Convert(p) \/ ServiceAlreadyRunning(p) \/ Started(p)
         \/ Connect(p) \/ ConnectFails(p) \/ Close(p) \/ Refreshed(p)
         \/ StayInForeground(p) \/ CheckForeground(p)
         \/ InterruptForeground(p) \/ InterruptForegroundFails(p) \/ ForegroundCounted(p)
         \/ Reconnect(p) \/ FindNoManager(p) \/ RestartManager(p)
         \/ PostgresExits(p) \/ ManagerDies(p) \/ Crash(p)
  PROVE  DatabaseInv'
<1> USE DEF Goto, FlowInv, Writing
<1>1. ASSUME NEW c \in Commands, Begin(p, c) PROVE DatabaseInv'
  <2>1. pc[p] = "idle" /\ pc'[p] \in {"start", "checkStop", "forceStop", "checkRestart", "status"}
    BY <1>1, BeginEffect
  <2> QED
    BY <1>1, <2>1, DatabaseKept DEF Begin, Undisturbed, dbVars
<1>2. CASE StartServices(p)
  <2>1. pc[p] = "start" /\ pc'[p] \in {"ensure", "remove", "failed"}
    BY <1>2, GetStateEffect DEF StartServices
  <2> QED
    BY <1>2, <2>1, DatabaseKept DEF StartServices, GetState, Undisturbed, historyVars
<1>3. CASE EnsureCommandSchema(p)
  BY <1>3, DatabaseKept DEF EnsureCommandSchema, RootClient, Undisturbed, historyVars, dbVars
<1>4. CASE EnsureCommandSchemaFails(p)
  BY <1>4, NoRootClientEffect, DatabaseKept DEF EnsureCommandSchemaFails, Undisturbed, historyVars
<1>5. CASE Convert(p)
  <2> SUFFICES ASSUME Undisturbed' PROVE DatabaseInv'
    BY DEF DatabaseInv
  <2>1. /\ Undisturbed /\ ~overlapped
        /\ pc[p] = "started" /\ pc'[p] = "connect" /\ UNCHANGED <<postgres, master>>
        /\ stateFile' = [dbState[p] EXCEPT !.invoker = "service"]
    BY <1>5 DEF Convert, Undisturbed, historyVars
  <2>2. dbState[p] \in RunningInfos /\ postgres \subseteq {master}
    BY <2>1 DEF TypeOK, DatabaseInv
  <2>3. stateFile' \in RunningInfos /\ stateFile'.pid = dbState[p].pid
        /\ stateFile'.database = dbState[p].database
    BY <2>1, <2>2 DEF RunningInfos
  <2>4. master # Nil => Serves(dbState[p])
    BY <2>1 DEF DatabaseInv, DatabaseAt
  <2>5. DatabaseAt(p)' /\ FileTrue'
    BY <2>1, <2>3, <2>4, NilAssumption DEF DatabaseAt, FileTrue, Serves
  <2> QED
    BY <2>1, <2>2, <2>5, DatabaseOfOne DEF Resting
<1>6. CASE ServiceAlreadyRunning(p) \/ Started(p)
  BY <1>6, DatabaseKept DEF ServiceAlreadyRunning, Started, Undisturbed, historyVars, dbVars
<1>7. CASE Connect(p)
  BY <1>7, DatabaseKept DEF Connect, RootClient, Undisturbed, historyVars, dbVars
<1>8. CASE ConnectFails(p)
  BY <1>8, NoRootClientEffect, DatabaseKept DEF ConnectFails, Undisturbed, historyVars
<1>9. CASE Close(p)
  BY <1>9, DatabaseKept DEF Close, Undisturbed, dbVars
<1>10. CASE Refreshed(p) \/ StayInForeground(p)
  BY <1>10, DatabaseKept DEF Refreshed, StayInForeground, Undisturbed, historyVars, dbVars
<1>11. CASE CheckForeground(p)
  <2>1. pc[p] = "foreground" /\ pc'[p] \in {"foreground", "done"}
    BY <1>11, GetStateEffect DEF CheckForeground
  <2> QED
    BY <1>11, <2>1, DatabaseKept DEF CheckForeground, GetState, Undisturbed, historyVars
<1>12. CASE InterruptForeground(p)
  BY <1>12, DatabaseKept DEF InterruptForeground, RootClient, Undisturbed, dbVars
<1>13. CASE InterruptForegroundFails(p)
  BY <1>13, NoRootClientEffect, DatabaseKept DEF InterruptForegroundFails, Undisturbed, historyVars
<1>14. CASE ForegroundCounted(p)
  BY <1>14, DatabaseKept DEF ForegroundCounted, Undisturbed, historyVars, dbVars
<1>15. CASE Reconnect(p) \/ ManagerDies(p)
  BY <1>15, DatabaseKept DEF Reconnect, ManagerDies, Undisturbed, historyVars, dbVars
<1>16. CASE FindNoManager(p)
  BY <1>16, DatabaseKept DEF FindNoManager, Undisturbed, dbVars
<1>17. CASE RestartManager(p)
  BY <1>17, DatabaseKept DEF RestartManager, Undisturbed, historyVars, dbVars
<1>18. CASE PostgresExits(p)
  BY <1>18 DEF PostgresExits, DatabaseInv, Undisturbed, historyVars
<1>19. CASE Crash(p)
  BY <1>19 DEF Crash, DatabaseInv, Undisturbed
<1> QED
  BY <1>1, <1>2, <1>3, <1>4, <1>5, <1>6, <1>7, <1>8, <1>9, <1>10, <1>11, <1>12, <1>13, <1>14, <1>15,
     <1>16, <1>17, <1>18, <1>19

LEMMA DatabaseOfStop ==
  ASSUME TypeOK, FlowInv, BusyInv, DatabaseInv, NEW p \in Processes, Flow(p), Stop(p)
  PROVE  DatabaseInv'
<1>0. Left(p) \in {"done", "refreshed"}
  BY DEF Left
<1>p. master \in postgres \cup {Nil} /\ Nil \notin postgres
  BY ProcessesAssumption DEF TypeOK
<1> USE DEF Goto, FlowInv, Writing
<1>1. CASE ShutdownService(p)
  <2>1. pc[p] = "shutdown" /\ pc'[p] \in {"done", "refreshed", "count"}
    BY <1>0, <1>1, GetStateEffect DEF ShutdownService
  <2> QED
    BY <1>1, <2>1, DatabaseKept DEF ShutdownService, GetState, Undisturbed, historyVars
<1>2. CASE CheckStop(p)
  <2>1. pc[p] = "checkStop" /\ pc'[p] \in {"count", "done", "failed"}
    BY <1>2, GetStateEffect DEF CheckStop
  <2> QED
    BY <1>2, <2>1, DatabaseKept DEF CheckStop, GetState, Undisturbed, historyVars
<1>3. CASE CheckRestart(p)
  <2>1. pc[p] = "checkRestart" /\ pc'[p] \in {"restart", "forceRestart", "done", "failed"}
    BY <1>3, GetStateEffect DEF CheckRestart
  <2> QED
    BY <1>3, <2>1, DatabaseKept DEF CheckRestart, GetState, Undisturbed, historyVars
<1>4. CASE ServiceStatus(p)
  <2>1. pc[p] = "status" /\ pc'[p] \in {"done", "failed"}
    BY <1>4, GetStateEffect DEF ServiceStatus
  <2> QED
    BY <1>4, <2>1, DatabaseKept DEF ServiceStatus, GetState, Undisturbed, historyVars
<1>5. CASE Count(p)
  BY <1>5, DatabaseKept DEF Count, RootClient, Undisturbed, historyVars, dbVars
<1>6. CASE CountFails(p)
  BY <1>6, NoRootClientEffect, DatabaseKept DEF CountFails, Undisturbed
<1>7. CASE Counted(p)
  BY <1>0, <1>7, DatabaseKept DEF Counted, Undisturbed, historyVars, dbVars
<1>8. CASE StopManager(p)
  BY <1>8, DatabaseKept DEF StopManager, Undisturbed, historyVars, dbVars
<1>9. CASE StopDBNotRunning(p) \/ StopDBTimesOut(p)
  BY <1>9, DatabaseKept DEF StopDBNotRunning, StopDBTimesOut, NotStopped, Undisturbed, historyVars, dbVars
<1>10. CASE StopDB(p)
  <2> SUFFICES ASSUME Undisturbed' PROVE DatabaseInv'
    BY DEF DatabaseInv
  <2>1. /\ pc[p] \in {"stopDB", "abortDB", "foregroundStopDB", "restartDB"}
        /\ pc'[p] \in {"done", "refreshed", "failed", "start"}
    BY <1>0, <1>10 DEF StopDB, StopForRestart
  <2>2. Undisturbed /\ ~overlapped /\ postgres \subseteq {master}
    BY <1>10 DEF StopDB, Undisturbed, historyVars, DatabaseInv
  <2>3. postgres' = {} /\ master' = Nil
    BY <1>10, <1>p, <2>2, StateCases DEF StopDB, ExitPostgres
  <2>4. DatabaseAt(p)' /\ FileTrue'
    BY <2>1, <2>3 DEF DatabaseAt, FileTrue
  <2> QED
    BY <2>1, <2>2, <2>3, <2>4, DatabaseOfOne DEF Resting
<1>11. CASE KillInstances(p)
  <2> SUFFICES ASSUME Undisturbed' PROVE DatabaseInv'
    BY DEF DatabaseInv
  <2>1. /\ pc[p] \in {"killInstances", "killForRestart"}
        /\ pc'[p] \in {"done", "refreshed", "failed", "start"}
    BY <1>0, <1>11 DEF KillInstances, StopForRestart
  <2>2. PICK gone \in SUBSET postgres : ExitPostgres(gone) /\ survived' = (gone # postgres)
    BY <1>11 DEF KillInstances
  <2>3. gone = postgres /\ ~overlapped
    BY <1>11, <2>2 DEF KillInstances, Undisturbed
  <2>4. postgres' = {} /\ master' = Nil
    BY <1>p, <2>2, <2>3 DEF ExitPostgres
  <2>5. DatabaseAt(p)' /\ FileTrue'
    BY <2>1, <2>4 DEF DatabaseAt, FileTrue
  <2> QED
    BY <2>1, <2>3, <2>4, <2>5, DatabaseOfOne DEF Resting
<1> QED
  BY <1>1, <1>2, <1>3, <1>4, <1>5, <1>6, <1>7, <1>8, <1>9, <1>10, <1>11 DEF Stop

LEMMA DatabaseStep ==
  ASSUME TypeOK, FlowInv, BusyInv, DatabaseInv, [Next]_vars
  PROVE  DatabaseInv'
<1>1. CASE UNCHANGED vars
  BY <1>1 DEF vars, dbVars, startVars, historyVars, DatabaseInv, Undisturbed, DatabaseAt, FileTrue, Serves
<1>2. CASE Next
  BY <1>2, FlowOfStart, FlowOfSession, FlowOfStop, FlowOfManager,
     DatabaseOfStart, DatabaseOfSession, DatabaseOfStop DEF Next
<1> QED
  BY <1>1, <1>2
-----------------------------------------------------------------------------
(* The stops.                                                              *)

(* Only a forced stop makes up for what went wrong before.                 *)
LEMMA OnlyForcedStopRecovers ==
  ASSUME Next, Undisturbed', ~Undisturbed
  PROVE  \E p \in Processes : KillInstances(p)
<1>1. PICK p \in Processes :
        \/ \E c \in Commands : Begin(p, c)
        \/ StartServices(p) \/ EnsureCommandSchema(p) \/ EnsureCommandSchemaFails(p)
        \/ StartDB(p) \/ StartPluginManager(p)
        \/ Convert(p) \/ ServiceAlreadyRunning(p) \/ Started(p)
        \/ Connect(p) \/ ConnectFails(p) \/ Close(p) \/ Refreshed(p)
        \/ StayInForeground(p) \/ CheckForeground(p)
        \/ InterruptForeground(p) \/ InterruptForegroundFails(p) \/ ForegroundCounted(p)
        \/ Reconnect(p) \/ FindNoManager(p) \/ RestartManager(p)
        \/ Stop(p)
        \/ PostgresExits(p) \/ ManagerDies(p) \/ Crash(p)
  BY DEF Next
<1> USE DEF Undisturbed, historyVars
<1>2. CASE StartDB(p) \/ StartPluginManager(p)
  BY <1>2 DEF StartDB, StartPluginManager, RemoveStateFile, PortBindable, StartPostgresProcess,
     SaveRunningInfo, GetDatabaseName, UpdateDatabaseName, EnsureService, StartDBFails, StartDBCleanup,
     ManagerRunning, ManagerNotRunning, NoPrevious, StopPrevious, StartManager, StartManagerFails
<1>3. CASE Stop(p)
  BY <1>3 DEF Stop, ShutdownService, CheckStop, CheckRestart, ServiceStatus, Count, CountFails,
     Counted, StopManager, StopDBNotRunning, StopDB, StopDBTimesOut
<1>4. CASE ~StartDB(p) /\ ~StartPluginManager(p) /\ ~Stop(p)
  BY <1>1, <1>4 DEF Begin, StartServices, EnsureCommandSchema, EnsureCommandSchemaFails, Convert,
     ServiceAlreadyRunning, Started, Connect, ConnectFails, Close, Refreshed, StayInForeground,
     CheckForeground, InterruptForeground, InterruptForegroundFails, ForegroundCounted, Reconnect,
     FindNoManager, RestartManager, PostgresExits, ManagerDies, Crash
<1> QED
  BY <1>2, <1>3, <1>4

StopPlaces == {"stop", "stopDB", "forceStop", "killInstances"}
StartPlaces == {"save", "databaseName", "update", "ensureService", "cleanup"}

LEMMA StopStep ==
  ASSUME TypeOK, FlowInv, BusyInv, DatabaseInv, ClientInv, StopInv, [Next]_vars
  PROVE  StopInv'
<1>1. CASE UNCHANGED vars
  BY <1>1 DEF vars, dbVars, clientVars, startVars, historyVars, StopInv, Undisturbed
<1>2. CASE Next
  <2>1. PICK p \in Processes : Flow(p) /\ ClientChange(p)
    BY <1>2, ClientFlow
  (* A new client is one that had lost its database, or the only process   *)
  (* in the middle of anything.                                            *)
  <2>2. ASSUME ~overlapped, p \in connected' \ connected
        PROVE  \/ p \in cut'
               \/ \A q \in Processes : pc[q] \notin StopPlaces \cup StartPlaces
    <3>1. CASE pc[p] = "using"
      BY <2>1, <2>2, <3>1 DEF ClientInv, ClientChange
    <3>2. CASE pc[p] = "connect"
      BY <2>2, <3>2 DEF BusyInv, Resting, StopPlaces, StartPlaces
    <3> QED
      BY <2>1, <2>2, <3>1, <3>2 DEF ClientChange
  <2>3. ASSUME NEW q \in Processes, ~overlapped', pc'[q] \in StopPlaces
        PROVE  command'[q] = "forceStop" \/ q \in uncounted' \/ connected' \ {q} \subseteq cut'
    <3>1. ~overlapped
      BY <2>1, <2>3 DEF Flow
    <3>2. CASE pc'[q] = pc[q] \/ (pc[q] \in StopPlaces /\ SameCommand(q))
      <4>1. command'[q] = command[q] /\ pc[q] \in StopPlaces
        BY <2>1, <2>3, <3>2 DEF Flow, SameCommand
      <4>2. command[q] = "forceStop" \/ q \in uncounted \/ connected \ {q} \subseteq cut
        BY <3>1, <4>1 DEF StopInv, StopPlaces
      <4>3. CASE connected \ {q} \subseteq cut
        BY <2>1, <2>2, <3>1, <4>1, <4>3 DEF ClientChange
      <4> QED
        BY <2>1, <4>1, <4>2, <4>3 DEF ClientChange
    <3>3. CASE pc'[q] # pc[q] /\ ~(pc[q] \in StopPlaces /\ SameCommand(q))
      <4>1. q = p /\ Route(p)
        BY <2>1, <3>3 DEF Flow
      <4> QED
        BY <2>1, <2>3, <3>3, <4>1 DEF Route, ClientChange, StopPlaces
    <3> QED
      BY <3>2, <3>3
  <2>4. ASSUME NEW q \in Processes, Undisturbed', pc'[q] \in StartPlaces
        PROVE  connected' \subseteq cut'
    <3>1. Undisturbed
      <4> SUFFICES ASSUME ~Undisturbed PROVE FALSE
        OBVIOUS
      <4>1. PICK r \in Processes : KillInstances(r)
        BY <1>2, <2>4, OnlyForcedStopRecovers
      <4>2. Flow(r) /\ ~overlapped
        BY <2>4, <4>1, FlowOfStop DEF Stop, Flow, Undisturbed
      <4>3. pc[r] \in {"killInstances", "killForRestart"} /\ pc'[r] \in {"done", "refreshed", "failed", "start"}
        BY <4>1 DEF KillInstances, StopForRestart, Goto, Left, FlowInv
      <4> QED
        BY <2>4, <4>2, <4>3, Alone DEF Resting, StartPlaces
    <3>2. ~overlapped
      BY <3>1 DEF Undisturbed
    <3>3. CASE pc[q] \in StartPlaces
      <4>1. connected \subseteq cut
        BY <3>1, <3>3 DEF StopInv, StartPlaces
      <4> QED
        BY <2>1, <2>2, <3>2, <3>3, <4>1 DEF ClientChange
    <3>4. CASE pc[q] \notin StartPlaces
      <4>1. q = p /\ Route(p)
        BY <2>1, <2>4, <3>4 DEF Flow
      <4>2. pc[p] \in {"checkPort", "spawn"}
        BY <2>4, <3>4, <4>1 DEF Route, StartPlaces
      <4>3. connected = {}
        BY <3>1, <4>2 DEF DatabaseInv, DatabaseAt, TypeOK
      <4> QED
        BY <2>1, <4>2, <4>3 DEF ClientChange
    <3> QED
      BY <3>3, <3>4
  <2> QED
    BY <2>3, <2>4 DEF StopInv, StopPlaces, StartPlaces
<1> QED
  BY <1>1, <1>2

-----------------------------------------------------------------------------
(* The theorems.                                                           *)

LEMMA InitInv == Init => IInv
<1> SUFFICES ASSUME Init PROVE IInv
  OBVIOUS
<1>1. TypeOK
  BY DEF Init, TypeOK
<1>2. FlowInv /\ BusyInv
  BY DEF Init, FlowInv, BusyInv, Resting
<1>3. DatabaseInv
  BY DEF Init, DatabaseInv, DatabaseAt, FileTrue
<1>4. ManagerInv /\ ClientInv
  BY DEF Init, ManagerInv, ClientInv
<1>5. StopInv
  BY DEF Init, StopInv
<1> QED
  BY <1>1, <1>2, <1>3, <1>4, <1>5 DEF IInv

LEMMA StepInv == IInv /\ [Next]_vars => IInv'
BY TypeStep, FlowInvStep, BusyStep, DatabaseStep, ManagerStep, ClientStep, StopStep DEF IInv

(* The inductive invariant holds in every reachable state.                 *)
THEOREM Invariance == Spec => []IInv
<1>1. Init => IInv
  BY InitInv
<1>2. IInv /\ [Next]_vars => IInv'
  BY StepInv
<1> QED
  BY <1>1, <1>2, PTL DEF Spec

(* Every variable keeps its type, and there are clients only while a       *)
(* postgres listens.                                                       *)
THEOREM TypeCorrect == Spec => []TypeOK
<1>1. IInv => TypeOK
  BY DEF IInv
<1> QED
  BY <1>1, Invariance, PTL

(* After commands that ran one at a time, however they ended, GetState     *)
(* finds a service exactly when there is one, by its pid and the name of   *)
(* its database; and after a forced stop that left nothing, whatever       *)
(* happened before.                                                        *)
THEOREM StateFileTrueCorrect == Spec => []StateFileTrue
<1>1. IInv => StateFileTrue
  <2> SUFFICES ASSUME IInv, Undisturbed, AllResting
               PROVE  /\ State = IF master # Nil THEN "running" ELSE "stopped"
                      /\ master # Nil => stateFile.pid = master /\ stateFile.database
    BY DEF StateFileTrue
  <2>1. TypeOK /\ postgres \subseteq {master}
    BY DEF IInv, DatabaseInv
  <2>2. FileTrue
    BY DEF IInv, DatabaseInv, AllResting, Resting, Writing
  <2>3. State = IF master # Nil THEN "running" ELSE "stopped"
    BY <2>1, <2>2, StateTrue, StateCases
  <2> QED
    BY <2>2, <2>3 DEF FileTrue, Serves
<1> QED
  BY <1>1, Invariance, PTL

(* After commands that ran one at a time no plugin manager runs that the   *)
(* next StopServices will not find.                                        *)
THEOREM OneManagerCorrect == Spec => []OneManager
<1>1. IInv => OneManager
  BY DEF IInv, ManagerInv, OneManager, Undisturbed
<1> QED
  BY <1>1, Invariance, PTL
(* The ways in which a session ends.                                       *)
LEMMA SessionEnds ==
  ASSUME TypeOK, FlowInv, Next, NEW p \in Processes, command[p] = "session",
         pc[p] # "done", pc'[p] = "done"
  PROVE  ShutdownService(p) \/ Counted(p) \/ StopDB(p) \/ KillInstances(p)
<1>1. PICK r \in Processes :
        \/ \E c \in Commands : Begin(r, c)
        \/ StartServices(r) \/ EnsureCommandSchema(r) \/ EnsureCommandSchemaFails(r)
        \/ StartDB(r) \/ StartPluginManager(r)
        \/ Convert(r) \/ ServiceAlreadyRunning(r) \/ Started(r)
        \/ Connect(r) \/ ConnectFails(r) \/ Close(r) \/ Refreshed(r)
        \/ StayInForeground(r) \/ CheckForeground(r)
        \/ InterruptForeground(r) \/ InterruptForegroundFails(r) \/ ForegroundCounted(r)
        \/ Reconnect(r) \/ FindNoManager(r) \/ RestartManager(r)
        \/ Stop(r)
        \/ PostgresExits(r) \/ ManagerDies(r) \/ Crash(r)
  BY DEF Next
<1>2. Flow(r)
  BY <1>1, FlowOfStart, FlowOfSession, FlowOfStop, FlowOfManager
<1>3. r = p
  BY <1>2 DEF Flow
<1> USE DEF Goto, FlowInv
<1>4. ASSUME NEW c \in Commands, Begin(p, c) PROVE FALSE
  BY <1>4, BeginEffect
<1>5. CASE StartDB(p) \/ StartPluginManager(p)
  BY <1>5 DEF StartDB, StartPluginManager, RemoveStateFile, PortBindable, StartPostgresProcess,
     SaveRunningInfo, GetDatabaseName, UpdateDatabaseName, EnsureService, RootClient, StartDBFails,
     StartDBCleanup, ManagerRunning, ManagerNotRunning, NoPrevious, StopPrevious, StartManager,
     StartManagerFails
<1>6. CASE StartServices(p)
  BY <1>6, GetStateEffect DEF StartServices
<1>7. CASE EnsureCommandSchema(p) \/ Connect(p) \/ InterruptForeground(p)
  BY <1>7 DEF EnsureCommandSchema, Connect, InterruptForeground, RootClient
<1>8. CASE EnsureCommandSchemaFails(p) \/ ConnectFails(p) \/ InterruptForegroundFails(p)
  BY <1>8, NoRootClientEffect DEF EnsureCommandSchemaFails, ConnectFails, InterruptForegroundFails
<1>9. CASE Convert(p) \/ ServiceAlreadyRunning(p) \/ Started(p) \/ Close(p) \/ Refreshed(p)
  BY <1>9 DEF Convert, ServiceAlreadyRunning, Started, Close, Refreshed
<1>10. CASE StayInForeground(p) \/ CheckForeground(p) \/ ForegroundCounted(p)
  BY <1>10 DEF StayInForeground, CheckForeground, GetState, ForegroundCounted
<1>11. CASE Reconnect(p) \/ FindNoManager(p) \/ RestartManager(p)
  BY <1>11 DEF Reconnect, FindNoManager, RestartManager
<1>12. CASE PostgresExits(p) \/ ManagerDies(p) \/ Crash(p)
  BY <1>12 DEF PostgresExits, ManagerDies, Crash
<1>13. CASE CheckStop(p) \/ CheckRestart(p) \/ ServiceStatus(p)
  BY <1>13 DEF CheckStop, CheckRestart, ServiceStatus, GetState, Restarts
<1>14. CASE Count(p) \/ CountFails(p) \/ StopManager(p)
  BY <1>14, NoRootClientEffect DEF Count, CountFails, RootClient, StopManager
<1>15. CASE StopDBNotRunning(p) \/ StopDBTimesOut(p)
  BY <1>15 DEF StopDBNotRunning, StopDBTimesOut, NotStopped
<1> QED
  BY <1>1, <1>3, <1>4, <1>5, <1>6, <1>7, <1>8, <1>9, <1>10, <1>11, <1>12, <1>13, <1>14, <1>15 DEF Stop

(* A session that ends and leaves no other session leaves no database      *)
(* behind, unless `service start` owns it.                                 *)
THEOREM LastSessionStopsCorrect == Spec => LastSessionStops
<1> DEFINE Ends(p) == /\ Undisturbed' /\ command[p] = "session"
                      /\ pc[p] # "done" /\ pc'[p] = "done" /\ connected' = {}
           Stops == master' = Nil \/ (stateFile' # Nil /\ stateFile'.invoker = "service")
<1>1. ASSUME IInv, Next, NEW p \in Processes, Ends(p) PROVE Stops
  <2> USE <1>1 DEF IInv
  <2>1. ShutdownService(p) \/ Counted(p) \/ StopDB(p) \/ KillInstances(p)
    BY SessionEnds
  <2>2. Left(p) = "done"
    BY DEF Left, Restarts
  <2>3. master \in postgres \cup {Nil}
    BY DEF TypeOK
  <2>4. CASE KillInstances(p)
    BY <2>3, <2>4 DEF KillInstances, ExitPostgres, Undisturbed
  <2>5. CASE ~KillInstances(p)
    <3>1. Undisturbed /\ ~overlapped
      <4>1. UNCHANGED <<survived, crashed>> /\ (overlapped => overlapped')
        BY <2>1, <2>5 DEF ShutdownService, Counted, StopDB, historyVars
      <4> QED
        BY <4>1 DEF Undisturbed
    <3>2. pc[p] \in {"shutdown", "counted", "stopDB", "abortDB", "foregroundStopDB", "restartDB"}
      BY <2>1, <2>5 DEF ShutdownService, GetState, Counted, StopDB, StopForRestart, Goto
    <3>3. \A q \in Processes \ {p} : pc[q] \in Resting
      BY <3>1, <3>2 DEF BusyInv, Resting
    <3>4. postgres \subseteq {master} /\ FileTrue
      BY <3>1, <3>2, <3>3 DEF DatabaseInv, Resting, Writing
    <3>5. CASE ShutdownService(p)
      <4>1. \/ /\ State = "running" /\ stateFile' = stateFile
               /\ pc' = [pc EXCEPT ![p] = IF stateFile = Nil \/ stateFile.invoker = "service"
                                            THEN Left(p) ELSE "count"]
            \/ State # "running"
        BY <3>5, GetStateEffect DEF ShutdownService
      <4>2. master' = master
        BY <3>5 DEF ShutdownService, GetState
      <4>3. CASE State # "running"
        BY <3>4, <4>2, <4>3, StateTrue
      <4>4. CASE State = "running"
        <5>1. stateFile # Nil
          BY <4>4, StateCases
        <5> QED
          BY <4>1, <4>4, <5>1 DEF FlowInv
      <4> QED
        BY <4>3, <4>4
    <3>6. CASE Counted(p)
      <4>1. (connected \cup counting) \ {p} # {}
        BY <3>6 DEF Counted, Goto, FlowInv
      <4>2. connected = {}
        BY <3>6 DEF Counted
      <4>3. PICK q \in counting : q # p
        BY <4>1, <4>2
      <4>4. q \in Processes /\ pc[q] \in {"counted", "foregroundCounted"}
        BY <4>3 DEF ClientInv, TypeOK
      <4> QED
        BY <3>3, <4>3, <4>4 DEF Resting
    <3>7. CASE StopDB(p)
      BY <2>3, <3>4, <3>7, StateCases, ProcessesAssumption DEF StopDB, ExitPostgres, TypeOK
    <3> QED
      BY <2>1, <2>5, <3>5, <3>6, <3>7
  <2> QED
    BY <2>4, <2>5
<1>2. IInv /\ [Next]_vars => [\A p \in Processes : Ends(p) => Stops]_vars
  BY <1>1
<1> QED
  BY <1>2, Invariance, PTL DEF LastSessionStops, Spec

(* No session loses its database but to a forced stop, to a restart, to a  *)
(* `service start` that gives up, or to a process that could not count the *)
(* clients.                                                                *)
THEOREM OnlyForceCutsSessionsCorrect == Spec => OnlyForceCutsSessions
<1> DEFINE Forced == \E p \in Processes :
                       /\ pc'[p] # pc[p]
                       /\ \/ command[p] = "forceStop" \/ p \in uncounted
                          \/ pc[p] \in {"abortDB", "foregroundStopDB", "restartDB", "killForRestart"}
<1>1. ASSUME IInv, Next, Undisturbed', cut' # cut PROVE Forced
  <2> USE <1>1 DEF IInv
  <2>1. PICK p \in Processes : Flow(p) /\ ClientChange(p)
    BY ClientFlow
  <2>2. /\ pc'[p] # pc[p] /\ pc[p] \in Stopping
        /\ ~(connected \ {p} \subseteq cut)
    BY <2>1 DEF ClientChange
  <2>3. ~overlapped
    BY <2>1 DEF Flow, Undisturbed
  <2>4. pc[p] # "cleanup"
    <3> SUFFICES ASSUME pc[p] = "cleanup" PROVE FALSE
      OBVIOUS
    <3>1. Undisturbed
      <4> SUFFICES ASSUME ~Undisturbed PROVE FALSE
        OBVIOUS
      <4>1. PICK r \in Processes : KillInstances(r)
        BY OnlyForcedStopRecovers
      <4>2. pc[r] \in {"killInstances", "killForRestart"}
        BY <4>1 DEF KillInstances, StopForRestart, Goto
      <4> QED
        BY <2>3, <4>2 DEF BusyInv, Resting
    <3> QED
      BY <2>2, <3>1 DEF StopInv
  <2>5. CASE pc[p] \in {"stopDB", "killInstances"}
    BY <2>2, <2>3, <2>5 DEF StopInv
  <2>6. CASE pc[p] \in {"abortDB", "foregroundStopDB", "restartDB", "killForRestart"}
    BY <2>2, <2>6
  <2> QED
    BY <2>2, <2>4, <2>5, <2>6 DEF Stopping
<1>2. IInv /\ [Next]_vars => [Undisturbed' /\ cut' # cut => Forced]_vars
  BY <1>1
<1> QED
  BY <1>2, Invariance, PTL DEF OnlyForceCutsSessions, Spec
=============================================================================
