----------------------------- MODULE PluginInstall -----------------------------
(***************************************************************************)
(* `steampipe plugin install | update | uninstall` and the daily check for *)
(* updates that any command runs first (cmd/plugin.go, plugin,             *)
(* ociinstaller, task).                                                    *)
(*                                                                         *)
(* A plugin is a directory with its binary and docs, and an entry in the   *)
(* plugin version file. The file is read as a whole, changed in memory and *)
(* written as a whole, with no lock: commands of two terminals interleave  *)
(* at every step. What a plugin image contains is abstracted to its digest,*)
(* a number that grows with every release; 0 stands for nothing.           *)
(***************************************************************************)
EXTENDS Integers, FiniteSets

CONSTANTS
  Plugins,
  OldPlugins,    \* installed by a release that kept the legacy version file
  Terminals,     \* where commands are run
  MaxDigest,     \* bound: releases of a plugin
  MaxCommands,   \* bound: commands run
  MaxFaults      \* bound: commands killed, or stopped by a failing file system

ASSUME PluginAssumption ==
  /\ OldPlugins \subseteq Plugins
  /\ MaxDigest \in Nat \ {0}
  /\ MaxCommands \in Nat
  /\ MaxFaults \in Nat

VARIABLES
  registry,      \* the latest digest of each plugin
  legacy,        \* whether the legacy version file exists
  entries,       \* the plugin version file: a digest for each plugin, or 0
  readable,      \* the plugin version file is not a truncated one
  files,         \* the directory of each plugin
  configured,    \* plugins with a config file
  due,           \* the last check for updates is more than a day ago
  command,       \* the command each terminal runs
  started, faults,
  disturbed      \* history: plugins an accident has made the version file wrong about

releaseVars == <<registry, due>>
fileVars == <<legacy, entries, readable, files, configured>>
countVars == <<started, faults>>
pluginVars == <<releaseVars, fileVars, command, countVars, disturbed>>

Digests == 0..MaxDigest
Broken == -1     \* a binary that was written only in part
NoDirectory == [dir |-> FALSE, binary |-> 0, docs |-> 0]
OldRelease == [p \in Plugins |-> IF p \in OldPlugins THEN 1 ELSE 0]

\* at: the step the command does next; tasks: it runs the daily tasks still;
\* data: the version file it has loaded; names: the plugins it asks the hub about;
\* digest: the image it installs; alone: no other command changed the same files.
NoCommand == [op |-> "none", plugin |-> CHOOSE p \in Plugins : TRUE, at |-> "idle",
              tasks |-> FALSE, data |-> [p \in Plugins |-> 0], names |-> {},
              digest |-> 0, alone |-> TRUE]

PluginInit ==
  /\ registry = [p \in Plugins |-> 1]
  /\ due = TRUE
  /\ legacy = TRUE
  /\ entries = [p \in Plugins |-> 0]
  /\ readable = TRUE
  /\ files = [p \in Plugins |-> IF p \in OldPlugins
                                THEN [dir |-> TRUE, binary |-> 1, docs |-> 1]
                                ELSE NoDirectory]
  /\ configured = OldPlugins
  /\ command = [t \in Terminals |-> NoCommand]
  /\ started = 0
  /\ faults = 0
  /\ disturbed = {}

At(t, step) == command[t].at = step
Step(t, next) == command' = [command EXCEPT ![t] = next]
Goto(t, step) == Step(t, [command[t] EXCEPT !.at = step])
Finish(t) == Step(t, NoCommand)

\* The commands other than t that have begun to change the files of plugin p.
Changing(p) == {t \in Terminals : /\ command[t].plugin = p
                                  /\ command[t].at \in {"docs", "load", "save"}}

-----------------------------------------------------------------------------
(* The version file                                                        *)

\* LoadPluginVersionFile: the legacy file, when there is one, replaces the new.
Loadable == legacy \/ readable
Loaded == IF legacy THEN OldRelease ELSE entries

\* Loading migrates: the new file is written, the legacy file deleted.
Load == /\ entries' = Loaded
        /\ readable' = (readable \/ legacy)
        /\ legacy' = FALSE

LoadFails == ~Loadable /\ UNCHANGED <<legacy, entries, readable>>

(* Writing the file: what others wrote since data was loaded is undone.    *)
Undone(t) == {p \in Plugins : entries[p] # command[t].data[p]}
Save(t, data) ==
  /\ entries' = data
  /\ readable' = TRUE
  /\ legacy' = legacy

-----------------------------------------------------------------------------
(* Starting a command. The tasks are run first, when they are due.         *)

FirstStep(op) == CASE op = "install" -> "exists"
                   [] op = "update" -> "current"
                   [] op = "uninstall" -> "remove"
                   [] OTHER -> "idle"

PluginCommand(t, op, p) ==
  /\ At(t, "idle")
  /\ started < MaxCommands
  /\ op = "query" => due /\ p = NoCommand.plugin   \* it is not about a plugin
  /\ started' = started + 1
  /\ Step(t, [NoCommand EXCEPT !.op = op, !.plugin = p, !.tasks = due,
                               !.at = IF due THEN "list" ELSE FirstStep(op)])
  /\ UNCHANGED <<releaseVars, fileVars, faults, disturbed>>

\* The tasks end with the state file saved; the command itself follows.
TasksEnd(t) ==
  /\ due' = FALSE
  /\ LET first == FirstStep(command[t].op) IN
     IF first = "idle" THEN Finish(t)
     ELSE Step(t, [NoCommand EXCEPT !.op = command[t].op, !.plugin = command[t].plugin,
                                    !.at = first])

\* What follows a check for updates that has nothing to report.
CheckEnds(t) == IF command[t].tasks THEN TasksEnd(t) ELSE Finish(t) /\ due' = due

(* GetAllUpdateReport loads the names, reportPluginUpdates loads again.    *)
ListForCheck(t) ==
  /\ At(t, "list")
  /\ \/ /\ Loadable
        /\ Load
        /\ Step(t, [command[t] EXCEPT !.at = "check",
                                      !.names = {p \in Plugins : Loaded[p] # 0}])
        /\ due' = due
     \/ LoadFails /\ CheckEnds(t)
  /\ UNCHANGED <<registry, files, configured, countVars, disturbed>>

ReportLoads(t) ==
  /\ At(t, "check")
  /\ \/ /\ Loadable
        /\ Load
        /\ IF command[t].names = {} THEN CheckEnds(t)
           ELSE /\ Step(t, [command[t] EXCEPT !.at = "request", !.data = Loaded])
                /\ due' = due
     \/ LoadFails /\ CheckEnds(t)
  /\ UNCHANGED <<registry, files, configured, countVars, disturbed>>

\* The hub answers with the latest digests, or it cannot be reached: 0.
RequestLatest(t) ==
  /\ At(t, "request")
  /\ \E answer \in {0, registry[command[t].plugin]} :
       Step(t, [command[t] EXCEPT !.at = "record", !.digest = answer])
  /\ UNCHANGED <<releaseVars, fileVars, countVars, disturbed>>

(* The date of the check is written, with all that was loaded before the   *)
(* request. An entry that was listed but not loaded is a nil pointer: the  *)
(* goroutine of the task ends the process; `plugin update` recovers.       *)
RecordCheck(t) ==
  /\ At(t, "record")
  /\ LET cmd == command[t] IN
     IF \E p \in cmd.names : cmd.data[p] = 0
     THEN /\ Finish(t)
          /\ UNCHANGED <<due, legacy, entries, readable, disturbed>>
     ELSE /\ Save(t, cmd.data)
          /\ disturbed' = disturbed \cup Undone(t)
          /\ IF cmd.tasks \/ cmd.digest \in {0, cmd.data[cmd.plugin]} THEN CheckEnds(t)
             ELSE Goto(t, "download") /\ due' = due
  /\ UNCHANGED <<registry, files, configured, countVars>>

-----------------------------------------------------------------------------
(* plugin install; plugin update ends with the same steps                  *)

\* An error of Exists is taken for "does not exist".
Exists(t) == Loadable /\ Loaded[command[t].plugin] # 0

InstallExists(t) ==
  /\ At(t, "exists")
  /\ command[t].op = "install"
  /\ IF Loadable THEN Load ELSE LoadFails
  /\ IF Exists(t) THEN Finish(t) ELSE Goto(t, "download")
  /\ UNCHANGED <<releaseVars, files, configured, countVars, disturbed>>

UpdateLoadsCurrent(t) ==
  /\ At(t, "current")
  /\ \/ Loadable /\ Load /\ Step(t, [command[t] EXCEPT !.at = "exists", !.data = Loaded])
     \/ LoadFails /\ Finish(t)
  /\ UNCHANGED <<releaseVars, files, configured, countVars, disturbed>>

(* The entry is looked up in a second load and taken from the first: when  *)
(* it appeared in between it is a nil pointer, and the command panics.     *)
UpdateExists(t) ==
  /\ At(t, "exists")
  /\ command[t].op = "update"
  /\ IF Loadable THEN Load ELSE LoadFails
  /\ LET p == command[t].plugin IN
     IF Exists(t) /\ command[t].data[p] # 0
     THEN Step(t, [command[t] EXCEPT !.at = "check", !.names = {p}])
     ELSE Finish(t)
  /\ UNCHANGED <<releaseVars, files, configured, countVars, disturbed>>

Download(t) ==
  /\ At(t, "download")
  /\ \/ Step(t, [command[t] EXCEPT !.at = "binary", !.digest = registry[command[t].plugin]])
     \/ Finish(t)
  /\ UNCHANGED <<releaseVars, fileVars, countVars, disturbed>>

\* Command t begins to change the files of its plugin.
BeginChange(t, next) ==
  LET p == command[t].plugin
      others == Changing(p) \ {t} IN
  command' = [u \in Terminals |->
                IF u = t THEN [command[t] EXCEPT !.at = next, !.alone = (others = {})]
                ELSE IF u \in others THEN [command[u] EXCEPT !.alone = FALSE]
                ELSE command[u]]

InstallBinary(t) ==
  /\ At(t, "binary")
  /\ BeginChange(t, "docs")
  /\ files' = [files EXCEPT ![command[t].plugin] =
                 [@ EXCEPT !.dir = TRUE, !.binary = command[t].digest]]
  /\ UNCHANGED <<releaseVars, legacy, entries, readable, configured, countVars, disturbed>>

\* The docs are replaced; the config file is written unless there is one.
InstallDocsAndConfig(t) ==
  /\ At(t, "docs")
  /\ Goto(t, "load")
  /\ files' = [files EXCEPT ![command[t].plugin] =
                 [@ EXCEPT !.dir = TRUE, !.docs = command[t].digest]]
  /\ configured' = configured \cup {command[t].plugin}
  /\ UNCHANGED <<releaseVars, legacy, entries, readable, countVars, disturbed>>

-----------------------------------------------------------------------------
(* plugin uninstall                                                        *)

RemoveFiles(t) ==
  /\ At(t, "remove")
  /\ IF files[command[t].plugin].dir
     THEN /\ BeginChange(t, "load")
          /\ files' = [files EXCEPT ![command[t].plugin] = NoDirectory]
     ELSE Finish(t) /\ files' = files   \* "not found"
  /\ UNCHANGED <<releaseVars, legacy, entries, readable, configured, countVars, disturbed>>

-----------------------------------------------------------------------------
(* The entry of the plugin is written last.                                *)

LoadEntries(t) ==
  /\ At(t, "load")
  /\ \/ /\ Loadable /\ Load
        /\ Step(t, [command[t] EXCEPT !.at = "save", !.data = Loaded])
        /\ disturbed' = disturbed
     \/ /\ LoadFails
        /\ Finish(t)
        /\ disturbed' = disturbed \cup {command[t].plugin}
  /\ UNCHANGED <<releaseVars, files, configured, countVars>>

\* Mutant: uninstall leaves the entry as it was.
MutNewEntry(t) ==
  IF command[t].op = "uninstall" THEN command[t].data[command[t].plugin] ELSE command[t].digest

NewEntry(t) == IF command[t].op = "uninstall" THEN 0 ELSE command[t].digest

SaveEntry(t) ==
  /\ At(t, "save")
  /\ LET p == command[t].plugin IN
     /\ Save(t, [command[t].data EXCEPT ![p] = NewEntry(t)])
     /\ disturbed' = (disturbed \ {p}) \cup (Undone(t) \ {p})
                       \cup {q \in {p} : ~command[t].alone}
  /\ Finish(t)
  /\ UNCHANGED <<releaseVars, files, configured, countVars>>

-----------------------------------------------------------------------------
(* The command is killed, or the file system fails, in the middle of a     *)
(* step: a file that is being written may be left truncated, a directory   *)
(* that is being removed with some of its files.                           *)

PartOf(t) ==
  LET p == command[t].plugin
      now == files[p] IN
  CASE At(t, "binary") -> {now, [now EXCEPT !.dir = TRUE, !.binary = Broken]}
    [] At(t, "docs") -> {now, [now EXCEPT !.docs = 0]}
    [] At(t, "remove") /\ now.dir -> {now, [now EXCEPT !.binary = 0], NoDirectory}
    [] OTHER -> {now}

Interrupt(t) ==
  /\ ~At(t, "idle")
  /\ faults < MaxFaults
  /\ faults' = faults + 1
  /\ LET p == command[t].plugin IN
     \E left \in PartOf(t) :
       /\ files' = [files EXCEPT ![p] = left]
       /\ disturbed' = IF left # files[p] \/ t \in Changing(p)
                       THEN disturbed \cup {p} ELSE disturbed
       /\ command' = [u \in Terminals |->
                        IF u = t THEN NoCommand
                        ELSE [command[u] EXCEPT !.alone =
                                @ /\ ~(u \in Changing(p) /\ left # files[p])]]
  /\ readable' \in IF command[t].at \in {"save", "record"} THEN {readable, FALSE}
                   ELSE {readable}
  /\ UNCHANGED <<releaseVars, legacy, entries, configured, started>>

\* A new version of a plugin is published.
Publish(p) ==
  /\ registry[p] < MaxDigest
  /\ registry' = [registry EXCEPT ![p] = @ + 1]
  /\ UNCHANGED <<due, fileVars, command, countVars, disturbed>>

ADayPasses ==
  /\ ~due
  /\ due' = TRUE
  /\ UNCHANGED <<registry, fileVars, command, countVars, disturbed>>

PluginNext ==
  \/ \E t \in Terminals, p \in Plugins, op \in {"install", "update", "uninstall", "query"} :
       PluginCommand(t, op, p)
  \/ \E t \in Terminals :
       \/ ListForCheck(t) \/ ReportLoads(t) \/ RequestLatest(t) \/ RecordCheck(t)
       \/ InstallExists(t) \/ UpdateLoadsCurrent(t) \/ UpdateExists(t)
       \/ Download(t) \/ InstallBinary(t) \/ InstallDocsAndConfig(t)
       \/ RemoveFiles(t) \/ LoadEntries(t) \/ SaveEntry(t) \/ Interrupt(t)
  \/ \E p \in Plugins : Publish(p)
  \/ ADayPasses

PluginSpec == PluginInit /\ [][PluginNext]_pluginVars
-----------------------------------------------------------------------------
(* Properties                                                              *)

PluginTypeOK ==
  /\ registry \in [Plugins -> 1..MaxDigest]
  /\ entries \in [Plugins -> Digests]
  /\ files \in [Plugins -> [dir : BOOLEAN, binary : Digests \cup {Broken}, docs : Digests]]
  /\ configured \subseteq Plugins
  /\ disturbed \subseteq Plugins
  /\ \A t \in Terminals : command[t].data \in [Plugins -> Digests]
  /\ {legacy, readable, due} \subseteq BOOLEAN

\* `plugin list`: the plugins with a binary, and the version of the entry; 0 is
\* shown as "local".
List == [p \in {q \in Plugins : files[q].binary # 0} |-> Loaded[p]]

(* EntriesTrue: a plugin whose files no command is changing has the binary *)
(* and the docs of the version its entry names and `plugin list` shows,    *)
(* and no directory when it has no entry. The exceptions are those that    *)
(* `disturbed` records: a command was                                      *)
(* stopped between the first file it changed and the save of the entry;    *)
(* two commands changed the files of the plugin at the same time; a save   *)
(* undid what another had written since the file was loaded. An entry      *)
(* without files is the worst of them: install skips the plugin, uninstall *)
(* does not find it, and update sees nothing new. A later install, update  *)
(* or uninstall of the plugin that runs to its end puts it right.          *)
EntriesTrue ==
  \A p \in Plugins \ disturbed :
    Changing(p) = {} /\ Loadable =>
      /\ p \in DOMAIN List => List[p] = files[p].binary
      /\ Loaded[p] # 0 => p \in DOMAIN List
      /\ Loaded[p] = files[p].docs
      /\ files[p].dir <=> Loaded[p] # 0
=============================================================================
