--------------------------- MODULE ConnectionRefresh ---------------------------
(***************************************************************************)
(* The connections of the config files become schemas of the database.     *)
(* Every steampipe command refreshes them when it starts, and the          *)
(* connection watcher, in the process of the plugin manager, does so when  *)
(* a config file changes (connectionwatcher, db/db_local).                 *)
(*                                                                         *)
(* A refresh compares the config with the connection state file, asks the  *)
(* plugin manager for the plugins of the connections to update, drops and  *)
(* imports schemas one statement at a time, and saves the state file last. *)
(* There is one config file for every connection; what a connection and    *)
(* its plugin are is abstracted to the version of the file.                *)
(***************************************************************************)
EXTENDS FileWatcher

CONSTANT MaxCommands   \* bound: commands that refresh the connections

ASSUME RefreshAssumption == MaxCommands \in Nat

Refreshers == {"watcher", "command"}

VARIABLES
  commands,     \* how many commands were started
  firstEvent,   \* the watcher has not handled an event yet
  globalConfig, \* GlobalConfig of each process
  manager,      \* the plugin manager: whether it runs, and its config
  schemas,      \* the version each schema was imported from, 0 when there is none
  stateFile,    \* the connection state file
  searchPath,   \* the schemas in the search path of the users
  refresh,      \* how far the refresh of each process is
  noticeLost,   \* history: the watcher will not see some change
  untrue        \* history: connections the state file is wrong about

dbVars == <<schemas, stateFile, searchPath, untrue>>
processVars == <<commands, firstEvent, globalConfig, manager, noticeLost>>
vars == <<fileWatcherVars, processVars, dbVars, refresh>>

NoSchema == [c \in Files |-> 0]
Schemas == {c \in Files : schemas[c] # 0}

NoRefresh == [at |-> "idle", names |-> {}, current |-> NoSchema, todo |-> {},
              failed |-> {}, dropped |-> {}, overlaps |-> FALSE]
Active(p) == refresh[p].at # "idle"

Init ==
  /\ FileWatcherInit
  /\ commands = 0
  /\ firstEvent = TRUE
  /\ globalConfig = [p \in Refreshers |-> disk]
  /\ manager = [up |-> TRUE, config |-> disk]
  /\ schemas = disk
  /\ stateFile = disk
  /\ searchPath = Schemas
  /\ refresh = [p \in Refreshers |-> NoRefresh]
  /\ noticeLost = FALSE
  /\ untrue = {}

\* The refresh of p starts, with the names its database client has loaded.
Begin(p) ==
  LET overlaps == \E q \in Refreshers \ {p} : Active(q) IN
  refresh' = [q \in Refreshers |->
                IF q = p THEN [NoRefresh EXCEPT !.at = "plan", !.names = Schemas,
                                                !.overlaps = overlaps]
                ELSE [refresh[q] EXCEPT !.overlaps = @ \/ Active(q)]]

-----------------------------------------------------------------------------
(* The connection watcher: handleFileWatcherEvent.                         *)

(* The event that Start raises is ignored, and every event with it that    *)
(* came before it was handled.                                             *)
IgnoreFirstEvent ==
  /\ HandlerEnds
  /\ firstEvent
  /\ firstEvent' = FALSE
  /\ noticeLost' = (noticeLost \/ disk # globalConfig["watcher"])
  /\ UNCHANGED <<commands, globalConfig, manager, dbVars, refresh>>

\* The config the plugin manager is given: GlobalConfig, not yet replaced.
ConfigForManager == globalConfig["watcher"]

WatcherRefreshes ==
  /\ handler = "running"
  /\ ~firstEvent
  /\ ~Active("watcher")
  /\ manager' = [manager EXCEPT !.config = ConfigForManager]
  /\ globalConfig' = [globalConfig EXCEPT !["watcher"] = disk]
  /\ Begin("watcher")
  /\ UNCHANGED <<fileWatcherVars, commands, firstEvent, dbVars, noticeLost>>

(* Without a client for the database both configs are set all the same,    *)
(* and the call of the missing client ends the handler.                    *)
WatcherHasNoClient ==
  /\ HandlerEnds
  /\ ~firstEvent
  /\ ~Active("watcher")
  /\ manager' = [manager EXCEPT !.config = ConfigForManager]
  /\ globalConfig' = [globalConfig EXCEPT !["watcher"] = disk]
  /\ UNCHANGED <<commands, firstEvent, dbVars, refresh, noticeLost>>

-----------------------------------------------------------------------------
(* A command: it loads the config, and starts the plugin manager, with its *)
(* connection watcher, when there is none.                                 *)

CommandRefreshes ==
  /\ ~Active("command")
  /\ commands < MaxCommands
  /\ commands' = commands + 1
  /\ Begin("command")
  /\ IF manager.up
     THEN /\ globalConfig' = [globalConfig EXCEPT !["command"] = disk]
          /\ UNCHANGED <<manager, firstEvent, noticeLost, watcherVars>>
     ELSE /\ globalConfig' = [p \in Refreshers |-> disk]
          /\ manager' = [up |-> TRUE, config |-> disk]
          /\ firstEvent' = TRUE
          /\ noticeLost' = FALSE
          /\ StartWatcher
  /\ UNCHANGED <<diskVars, dbVars>>

-----------------------------------------------------------------------------
(* refreshConnections                                                      *)

\* The refresh of p is over; that of the watcher was the handler's work.
End(p) ==
  /\ refresh' = [refresh EXCEPT ![p] = NoRefresh]
  /\ IF p = "watcher" THEN HandlerEnds ELSE UNCHANGED fileWatcherVars

Required(p) == globalConfig[p]
\* Mutant: a connection that has a schema is up to date.
MutUpdate(p) == {c \in Files : Required(p)[c] # 0 /\ refresh[p].current[c] = 0}

Update(p) == {c \in Files : Required(p)[c] # 0 /\ Required(p)[c] # refresh[p].current[c]}
Delete(p) == {c \in Files : Required(p)[c] = 0 /\ refresh[p].current[c] # 0}

\* Mutant: the state file counts for schemas that do not exist.
MutLoadState(p) ==
  /\ refresh[p].at = "plan"
  /\ refresh' = [refresh EXCEPT ![p].at = "plugins", ![p].current = stateFile]
  /\ UNCHANGED <<fileWatcherVars, processVars, dbVars>>

(* NewConnectionUpdates: the state file counts for the schemas that exist. *)
LoadState(p) ==
  /\ refresh[p].at = "plan"
  /\ refresh' = [refresh EXCEPT ![p].at = "plugins",
                   ![p].current = [c \in Files |-> IF c \in refresh[p].names
                                                   THEN stateFile[c] ELSE 0]]
  /\ UNCHANGED <<fileWatcherVars, processVars, dbVars>>

(* The plugin manager starts the plugins of the connections to update; it  *)
(* may not be possible to attach to one.  Nothing is executed, or saved,   *)
(* when there is nothing to do.                                            *)
CreatePlugins(p) ==
  /\ refresh[p].at = "plugins"
  /\ manager.up
  /\ \A c \in Update(p) : manager.config[c] # 0
  /\ \E failed \in SUBSET Update(p) :
       LET todo == (Update(p) \ failed) \cup Delete(p)
       IN refresh' = [refresh EXCEPT ![p].at = IF todo = {} THEN "paths" ELSE "execute",
                                     ![p].todo = todo, ![p].failed = failed]
  /\ UNCHANGED <<fileWatcherVars, processVars, dbVars>>

(* A connection the plugin manager does not know is an error there, and    *)
(* the error path of Get unlocks a mutex twice: with one connection asked  *)
(* for, this ends the process of the plugin manager.                       *)
NoPlugins(p) ==
  /\ refresh[p].at = "plugins"
  /\ ~(manager.up /\ \A c \in Update(p) : manager.config[c] # 0)
  /\ \E up \in BOOLEAN :
       /\ up => manager.up /\ Cardinality(Update(p)) > 1
       /\ manager' = [manager EXCEPT !.up = up]
       /\ IF manager.up /\ ~up
          THEN \* the watcher is gone with it
               /\ refresh' = [q \in Refreshers |-> IF q \in {p, "watcher"} THEN NoRefresh
                                                   ELSE refresh[q]]
               /\ watches' = {} /\ inotify' = {} /\ queue' = {} /\ loop' = "idle"
               /\ event' = NoEvent /\ handler' = "none"
               /\ untrue' = IF Active("watcher") THEN Files ELSE untrue
               /\ UNCHANGED diskVars
          ELSE End(p) /\ UNCHANGED untrue
  /\ UNCHANGED <<commands, firstEvent, globalConfig, noticeLost, schemas, stateFile, searchPath>>

(* updateConnectionQuery and deleteConnectionQuery: the schema is dropped, *)
(* and, in a statement of its own, created and imported.                   *)
DropSchema(p, c) ==
  /\ refresh[p].at = "execute"
  /\ refresh[p].dropped = {}
  /\ c \in refresh[p].todo
  /\ schemas' = [schemas EXCEPT ![c] = 0]
  /\ refresh' = [refresh EXCEPT ![p].todo = @ \ {c},
                                ![p].dropped = IF c \in Delete(p) THEN {} ELSE {c}]
  /\ UNCHANGED <<fileWatcherVars, processVars, stateFile, searchPath, untrue>>

ImportSchema(p, c) ==
  /\ refresh[p].at = "execute"
  /\ c \in refresh[p].dropped
  /\ schemas[c] = 0
  /\ schemas' = [schemas EXCEPT ![c] = Required(p)[c]]
  /\ refresh' = [refresh EXCEPT ![p].dropped = {}]
  /\ UNCHANGED <<fileWatcherVars, processVars, stateFile, searchPath, untrue>>

\* The connections whose schema is not the one the state file names.
Torn == {c \in Files : schemas[c] # 0 /\ stateFile[c] # 0 /\ schemas[c] # stateFile[c]}

(* A statement fails, or the process is killed: the state file is not      *)
(* saved.  Creating a schema that exists fails.                            *)
StatementFails(p) ==
  /\ refresh[p].at = "execute"
  /\ End(p)
  /\ untrue' = IF refresh[p].overlaps THEN Files ELSE untrue \cup Torn
  /\ UNCHANGED <<processVars, schemas, stateFile, searchPath>>

(* The state of all the connections of the config is saved, of those whose *)
(* plugin could not be attached to as well.                                *)
SaveConnectionState(p) ==
  /\ refresh[p].at = "execute"
  /\ refresh[p].todo = {} /\ refresh[p].dropped = {}
  /\ stateFile' = Required(p)
  /\ refresh' = [refresh EXCEPT ![p].at = "paths", ![p].names = Schemas]
  /\ untrue' = IF refresh[p].overlaps THEN Files
               ELSE (untrue \ Update(p)) \cup (refresh[p].failed \cap Schemas)
  /\ UNCHANGED <<fileWatcherVars, processVars, schemas, searchPath>>

(* RefreshConnectionAndSearchPaths: the search path of the users. *)
SetSearchPath(p) ==
  /\ refresh[p].at = "paths"
  /\ searchPath' = refresh[p].names
  /\ End(p)
  /\ UNCHANGED <<processVars, schemas, stateFile, untrue>>

Refresh(p) ==
  \/ LoadState(p) \/ CreatePlugins(p) \/ NoPlugins(p)
  \/ SaveConnectionState(p) \/ SetSearchPath(p)
  \/ \E c \in Files : DropSchema(p, c) \/ ImportSchema(p, c)

Handle == IgnoreFirstEvent \/ WatcherRefreshes \/ WatcherHasNoClient

-----------------------------------------------------------------------------

(* A file that is created and removed, or replaced and removed, between    *)
(* two polls is not watched when it goes.                                  *)
ChangeConfig ==
  /\ ChangeFile
  /\ noticeLost' = \/ noticeLost
                   \/ /\ \E c \in Files \ inotify : disk[c] # 0 /\ disk'[c] = 0
                      /\ queue = {} /\ loop # "schedule" /\ handler # "scheduled"
  /\ UNCHANGED <<commands, firstEvent, globalConfig, manager, dbVars, refresh>>

Next ==
  \/ ChangeConfig
  \/ manager.up /\ (Watch \/ HandlerStarts) /\ UNCHANGED <<processVars, dbVars, refresh>>
  \/ manager.up /\ Handle
  \/ CommandRefreshes
  \/ \E p \in Refreshers : Refresh(p) \/ StatementFails(p)

Spec == Init /\ [][Next]_vars

FairSpec ==
  /\ Spec
  /\ WF_vars(manager.up /\ Watch /\ UNCHANGED <<processVars, dbVars, refresh>>)
  /\ WF_vars(manager.up /\ HandlerStarts /\ UNCHANGED <<processVars, dbVars, refresh>>)
  /\ WF_vars(manager.up /\ Handle)
  /\ \A p \in Refreshers : WF_vars(Refresh(p) \/ StatementFails(p))

-----------------------------------------------------------------------------
(* Properties                                                              *)

Versions == [Files -> 0..MaxChanges + 2]

TypeOK ==
  /\ FileWatcherTypeOK
  /\ commands \in 0..MaxCommands
  /\ {firstEvent, noticeLost} \subseteq BOOLEAN
  /\ globalConfig \in [Refreshers -> Versions]
  /\ manager \in [up : BOOLEAN, config : Versions]
  /\ {schemas, stateFile} \subseteq Versions
  /\ searchPath \cup untrue \subseteq Files
  /\ refresh \in [Refreshers ->
       [at : {"idle", "plan", "plugins", "execute", "paths"}, names : SUBSET Files,
        current : Versions, todo : SUBSET Files, failed : SUBSET Files,
        dropped : SUBSET Files, overlaps : BOOLEAN]]

\* While nobody refreshes, a schema is the one the state file names, so that
\* the next refresh finds what has changed; except after a refresh that
\* overlapped with another, that ended before it saved, or that saved a
\* connection whose plugin it could not attach to.
StateFileTrue ==
  (\A p \in Refreshers : ~Active(p)) => Torn \subseteq untrue

\* A refresh that no other one overlaps with leaves the schemas the config
\* asks for: of every connection in it, and of no connection it removed.
RefreshApplied ==
  \A p \in Refreshers :
    refresh[p].at = "paths" /\ ~refresh[p].overlaps =>
      /\ \A c \in Files \ (refresh[p].failed \cup untrue) :
           Required(p)[c] # 0 => schemas[c] = Required(p)[c]
      /\ \A c \in Files :
           Required(p)[c] = 0 /\ refresh[p].current[c] # 0 => schemas[c] = 0

\* Every change of the config files reaches the config of the watcher's
\* process, unless it came before the first event was handled or was the end
\* of a file that was not watched yet.
ChangesNoticed ==
  []<>(globalConfig["watcher"] = disk \/ noticeLost \/ ~manager.up)

=============================================================================
