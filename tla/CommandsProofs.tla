---------------------------- MODULE CommandsProofs ----------------------------
(***************************************************************************)
(* Proofs about the components that work one after another in a command    *)
(* and share no state (MCCommands checks them in one run), each for every  *)
(* value of its constants:                                                 *)
(*  - PluginInstall: the version file is true of every plugin that no      *)
(*    accident has disturbed;                                              *)
(*  - DatabaseInstall: a database that was installed alone can be started; *)
(*  - WorkspaceLoad: a workspace is loaded when what it is loaded from is  *)
(*    valid, and then with the value that takes precedence;                *)
(*  - PreparedStatements: a query runs the SQL that is loaded for it;      *)
(*  - ModInstall: after a command that ended well every version that is    *)
(*    locked is installed and the workspace loads;                         *)
(*  - ModParse: a mod is parsed exactly when its blocks can be put in      *)
(*    order, but for what a dashboard hides.                               *)
(* The last section puts the types of the seven components together, as    *)
(* Commands composes them.                                                 *)
(***************************************************************************)
EXTENDS Commands, SearchPathsProofs, TLAPS, FiniteSetTheorems, FunctionTheorems,
        WellFoundedInduction

(***************************************************************************)
(* PluginInstall: the commands that change plugins.                        *)
(***************************************************************************)

Operations == {"none", "install", "update", "uninstall", "query"}
Steps == {"idle", "list", "check", "request", "record", "exists", "current", "download",
          "binary", "docs", "remove", "load", "save"}
CommandStates ==
  [op : Operations, plugin : Plugins \cup {NoCommand.plugin}, at : Steps, tasks : BOOLEAN,
   data : [Plugins -> Digests], names : SUBSET Plugins, digest : Digests, alone : BOOLEAN]

(* The types, those of the commands as well. *)
PluginTypes ==
  /\ PluginTypeOK
  /\ command \in [Terminals -> CommandStates]
  /\ \A t \in Terminals : ~At(t, "idle") => command[t].plugin \in Plugins

(* What a command has loaded, it has loaded from the new version file: the *)
(* legacy one is gone.                                                     *)
LegacyInv ==
  \A t \in Terminals : command[t].at \in {"request", "record", "save"} => ~legacy

(* The steps of an operation: only update goes on from a check to a        *)
(* download, only uninstall removes files, and an image that is installed  *)
(* has a digest.                                                           *)
OperationInv ==
  \A t \in Terminals :
    LET cmd == command[t] IN
    /\ cmd.at \in {"list", "check", "request", "record"} => cmd.tasks \/ cmd.op = "update"
    /\ cmd.at \in {"download", "binary", "docs"} => cmd.op # "uninstall"
    /\ cmd.at = "remove" => cmd.op = "uninstall"
    /\ cmd.at \in {"binary", "docs"} => cmd.digest # 0
    /\ cmd.at \in {"load", "save"} => cmd.op = "uninstall" \/ cmd.digest # 0

(* The files of a plugin of which version v is installed, and of one that  *)
(* is not (0).                                                             *)
FilesOf(v) == IF v = 0 THEN NoDirectory ELSE [dir |-> TRUE, binary |-> v, docs |-> v]

(* How a command leaves the files before it does the step it is at. *)
LeftBy(t) ==
  LET cmd == command[t]
      p == cmd.plugin IN
  CASE cmd.at = "docs" -> files[p].dir /\ files[p].binary = cmd.digest
    [] cmd.at \in {"load", "save"} -> files[p] = FilesOf(NewEntry(t))
    [] OTHER -> TRUE

(* A command that is alone is the only one that changes its plugin, and    *)
(* the files are as it has left them.                                      *)
AloneInv ==
  \A t \in Terminals :
    command[t].at \in {"docs", "load", "save"} /\ command[t].alone =>
      Changing(command[t].plugin) = {t} /\ LeftBy(t)

(* The version file tells the truth, and would if it could be read. *)
TrueInv ==
  \A p \in Plugins \ disturbed : Changing(p) = {} => files[p] = FilesOf(Loaded[p])

PluginInv == PluginTypes /\ LegacyInv /\ OperationInv /\ AloneInv /\ TrueInv

-----------------------------------------------------------------------------
(* The steps.                                                              *)

LEMMA NoCommandType == NoCommand \in CommandStates
BY PluginAssumption DEF NoCommand, CommandStates, Operations, Steps, Digests

LEMMA LoadedType ==
  ASSUME PluginTypeOK
  PROVE  Loaded \in [Plugins -> Digests]
BY PluginAssumption DEF PluginTypeOK, Loaded, OldRelease, Digests

LEMMA DigestType ==
  ASSUME PluginTypes, NEW t \in Terminals, ~At(t, "idle")
  PROVE  /\ 0 \in Digests
         /\ registry[command[t].plugin] \in Digests
         /\ registry[command[t].plugin] # 0
<1>1. command[t].plugin \in Plugins
  BY DEF PluginTypes
<1> QED
  BY <1>1, PluginAssumption DEF PluginTypes, PluginTypeOK, Digests

(* Loading a version file changes nothing that a later load would find. *)
LEMMA LoadKeeps ==
  ASSUME Load \/ LoadFails
  PROVE  Loaded' = Loaded /\ (~legacy => ~legacy')
BY DEF Load, LoadFails, Loaded, Loadable

(* Every step is one of the actions: the case split of the proofs below.   *)
LEMMA PluginCases ==
  ASSUME [PluginNext]_pluginVars
  PROVE  \/ \E t \in Terminals :
              \/ \E p \in Plugins, op \in Operations \ {"none"} : PluginCommand(t, op, p)
              \/ ListForCheck(t) \/ ReportLoads(t) \/ RequestLatest(t) \/ RecordCheck(t)
              \/ InstallExists(t) \/ UpdateLoadsCurrent(t) \/ UpdateExists(t)
              \/ Download(t) \/ InstallBinary(t) \/ InstallDocsAndConfig(t)
              \/ RemoveFiles(t) \/ LoadEntries(t) \/ SaveEntry(t) \/ Interrupt(t)
         \/ \E p \in Plugins : Publish(p)
         \/ ADayPasses
         \/ UNCHANGED pluginVars
BY DEF PluginNext, Operations

LEMMA PluginInitInv == PluginInit => PluginInv
<1> SUFFICES ASSUME PluginInit PROVE PluginInv
  OBVIOUS
<1> USE PluginAssumption DEF PluginInit
<1>1. \A t \in Terminals : command[t] = NoCommand /\ At(t, "idle")
  BY DEF At, NoCommand
<1>2. PluginTypes
  <2>1. PluginTypeOK
    BY <1>1 DEF PluginTypeOK, Digests, NoDirectory, NoCommand
  <2> QED
    BY <1>1, <2>1, NoCommandType DEF PluginTypes
<1>3. LegacyInv /\ OperationInv /\ AloneInv
  BY <1>1 DEF LegacyInv, OperationInv, AloneInv, At
<1>4. TrueInv
  <2>1. Loaded = OldRelease
    BY DEF Loaded
  <2>2. ASSUME NEW p \in Plugins PROVE files[p] = FilesOf(Loaded[p])
    <3>1. CASE p \in OldPlugins
      BY <2>1, <3>1 DEF FilesOf, OldRelease
    <3>2. CASE p \notin OldPlugins
      BY <2>1, <3>2 DEF FilesOf, OldRelease
    <3> QED
      BY <3>1, <3>2
  <2> QED
    BY <2>2 DEF TrueInv
<1> QED
  BY <1>2, <1>3, <1>4 DEF PluginInv


(* The states of a command are typed one step at a time. *)
LEMMA StepTyped ==
  ASSUME PluginTypes, NEW t \in Terminals, NEW next \in CommandStates,
         next.at = "idle" \/ next.plugin \in Plugins, Step(t, next)
  PROVE  /\ command' \in [Terminals -> CommandStates]
         /\ \A u \in Terminals : command'[u].at # "idle" => command'[u].plugin \in Plugins
BY DEF PluginTypes, Step, At

LEMMA NextTyped ==
  ASSUME PluginTypes, NEW t \in Terminals, ~At(t, "idle"), NEW at \in Steps
  PROVE  /\ command[t] \in CommandStates
         /\ command[t].plugin \in Plugins
         /\ [command[t] EXCEPT !.at = at] \in CommandStates
         /\ \A read \in [Plugins -> Digests] : [command[t] EXCEPT !.at = at, !.data = read] \in CommandStates
         /\ \A names \in SUBSET Plugins : [command[t] EXCEPT !.at = at, !.names = names] \in CommandStates
         /\ \A digest \in Digests : [command[t] EXCEPT !.at = at, !.digest = digest] \in CommandStates
<1>1. command[t] \in CommandStates /\ command[t].plugin \in Plugins
  BY DEF PluginTypes, At
<1> QED
  BY <1>1 DEF CommandStates

(* The commands keep their types. *)
LEMMA CommandStep ==
  ASSUME PluginTypes, [PluginNext]_pluginVars
  PROVE  /\ command' \in [Terminals -> CommandStates]
         /\ \A u \in Terminals : command'[u].at # "idle" => command'[u].plugin \in Plugins
<1> DEFINE Typed == /\ command' \in [Terminals -> CommandStates]
                    /\ \A u \in Terminals : command'[u].at # "idle" => command'[u].plugin \in Plugins
<1> HIDE DEF Typed
<1>a. ASSUME NEW t \in Terminals, NEW next \in CommandStates,
             next.at = "idle" \/ next.plugin \in Plugins, Step(t, next)
      PROVE  Typed
  BY <1>a, StepTyped DEF Typed
<1>b. ASSUME NEW t \in Terminals, Finish(t) PROVE Typed
  BY <1>a, <1>b, NoCommandType DEF Finish, NoCommand
<1>c. ASSUME NEW t \in Terminals, ~At(t, "idle"), NEW at \in Steps
      PROVE  /\ Goto(t, at) => Typed
             /\ \A read \in [Plugins -> Digests] : Step(t, [command[t] EXCEPT !.at = at, !.data = read]) => Typed
             /\ \A names \in SUBSET Plugins : Step(t, [command[t] EXCEPT !.at = at, !.names = names]) => Typed
             /\ \A digest \in Digests : Step(t, [command[t] EXCEPT !.at = at, !.digest = digest]) => Typed
  <2>1. /\ [command[t] EXCEPT !.at = at].plugin \in Plugins
        /\ \A read : [command[t] EXCEPT !.at = at, !.data = read].plugin \in Plugins
        /\ \A names : [command[t] EXCEPT !.at = at, !.names = names].plugin \in Plugins
        /\ \A digest : [command[t] EXCEPT !.at = at, !.digest = digest].plugin \in Plugins
    BY <1>c, NextTyped DEF CommandStates
  <2> QED
    BY <1>a, <1>c, <2>1, NextTyped DEF Goto
<1>d. /\ PluginTypeOK /\ Loaded \in [Plugins -> Digests]
      /\ {p \in Plugins : Loaded[p] # 0} \in SUBSET Plugins
      /\ MaxDigest \in Nat \ {0}
  BY LoadedType, PluginAssumption DEF PluginTypes
<1>e. ASSUME NEW t \in Terminals, ~At(t, "idle"), CheckEnds(t) PROVE Typed
  <2>1. CASE command[t].tasks
    <3>1. CASE FirstStep(command[t].op) = "idle"
      BY <1>b, <1>e, <2>1, <3>1 DEF CheckEnds, TasksEnd
    <3>2. CASE FirstStep(command[t].op) # "idle"
      <4> DEFINE next == [NoCommand EXCEPT !.op = command[t].op, !.plugin = command[t].plugin,
                                           !.at = FirstStep(command[t].op)]
      <4>1. command[t] \in CommandStates /\ command[t].plugin \in Plugins
        BY <1>e, NextTyped DEF Steps
      <4>2. next \in CommandStates /\ next.plugin \in Plugins
        BY <4>1, NoCommandType DEF CommandStates, FirstStep, Steps
      <4> QED
        BY <1>a, <1>e, <2>1, <3>2, <4>2 DEF CheckEnds, TasksEnd
    <3> QED
      BY <3>1, <3>2
  <2>2. CASE ~command[t].tasks
    BY <1>b, <1>e, <2>2 DEF CheckEnds
  <2> QED
    BY <2>1, <2>2
<1>f. ASSUME NEW t \in Terminals, NEW at \in Steps, ~At(t, "idle"), BeginChange(t, at) PROVE Typed
  <2> DEFINE others == Changing(command[t].plugin) \ {t}
  <2>1. command[t] \in CommandStates /\ command[t].plugin \in Plugins
    BY <1>f, NextTyped
  <2>2. [command[t] EXCEPT !.at = at, !.alone = (others = {})] \in CommandStates
    BY <2>1 DEF CommandStates
  <2>3. [command[t] EXCEPT !.at = at, !.alone = (others = {})].plugin \in Plugins
    BY <2>1 DEF CommandStates
  <2>4. ASSUME NEW u \in others
        PROVE  /\ [command[u] EXCEPT !.alone = FALSE] \in CommandStates
               /\ [command[u] EXCEPT !.alone = FALSE].plugin \in Plugins
    <3>1. command[u] \in CommandStates /\ command[u].plugin \in Plugins
      BY <2>1, <2>4 DEF PluginTypes, Changing
    <3> QED
      BY <3>1 DEF CommandStates
  <2> HIDE DEF others
  <2>5. command' = [u \in Terminals |->
                      IF u = t THEN [command[t] EXCEPT !.at = at, !.alone = (others = {})]
                      ELSE IF u \in others THEN [command[u] EXCEPT !.alone = FALSE]
                      ELSE command[u]]
    BY <1>f DEF BeginChange, others
  <2> QED
    BY <2>2, <2>3, <2>4, <2>5 DEF Typed, PluginTypes, At
<1> USE DEF At
<1>1. ASSUME NEW t \in Terminals, NEW p \in Plugins, NEW op \in Operations \ {"none"},
             PluginCommand(t, op, p)
      PROVE  Typed
  <2> DEFINE next == [NoCommand EXCEPT !.op = op, !.plugin = p, !.tasks = due,
                               !.at = IF due THEN "list" ELSE FirstStep(op)]
  <2>1. due \in BOOLEAN
    BY <1>d DEF PluginTypeOK
  <2>2. next \in CommandStates /\ next.plugin \in Plugins
    BY <2>1, NoCommandType DEF CommandStates, FirstStep, Steps, Operations
  <2> QED
    BY <1>1, <1>a, <2>2 DEF PluginCommand
<1>2. ASSUME NEW t \in Terminals, ListForCheck(t) PROVE Typed
  BY <1>2, <1>b, <1>c, <1>e, <1>d DEF ListForCheck, Steps
<1>3. ASSUME NEW t \in Terminals, ReportLoads(t) PROVE Typed
  BY <1>3, <1>b, <1>c, <1>e, <1>d DEF ReportLoads, Steps
<1>4. ASSUME NEW t \in Terminals, RequestLatest(t) PROVE Typed
  <2>1. PICK answer \in {0, registry[command[t].plugin]} :
               Step(t, [command[t] EXCEPT !.at = "record", !.digest = answer])
    BY <1>4 DEF RequestLatest
  <2>2. "record" \in Steps /\ ~At(t, "idle") /\ answer \in Digests
    BY <1>4, DigestType DEF RequestLatest, Steps
  <2> QED
    BY <1>c, <2>1, <2>2
<1>5. ASSUME NEW t \in Terminals, RecordCheck(t) PROVE Typed
  BY <1>5, <1>b, <1>c, <1>e, <1>d DEF RecordCheck, Steps
<1>6. ASSUME NEW t \in Terminals, InstallExists(t) PROVE Typed
  BY <1>6, <1>b, <1>c, <1>e, <1>d DEF InstallExists, Steps
<1>7. ASSUME NEW t \in Terminals, UpdateLoadsCurrent(t) PROVE Typed
  BY <1>7, <1>b, <1>c, <1>e, <1>d DEF UpdateLoadsCurrent, Steps
<1>8. ASSUME NEW t \in Terminals, UpdateExists(t) PROVE Typed
  <2>1. "check" \in Steps /\ ~At(t, "idle") /\ {command[t].plugin} \in SUBSET Plugins
    BY <1>8 DEF UpdateExists, Steps, PluginTypes
  <2>2. \/ Step(t, [command[t] EXCEPT !.at = "check", !.names = {command[t].plugin}])
        \/ Finish(t)
    BY <1>8 DEF UpdateExists
  <2> QED
    BY <1>b, <1>c, <2>1, <2>2
<1>9. ASSUME NEW t \in Terminals, Download(t) PROVE Typed
  <2>1. "binary" \in Steps /\ ~At(t, "idle") /\ registry[command[t].plugin] \in Digests
    BY <1>9, DigestType DEF Download, Steps
  <2> QED
    BY <1>9, <1>b, <1>c, <2>1 DEF Download
<1>10. ASSUME NEW t \in Terminals, InstallBinary(t) PROVE Typed
  BY <1>10, <1>f, <1>d DEF InstallBinary, Steps
<1>11. ASSUME NEW t \in Terminals, InstallDocsAndConfig(t) PROVE Typed
  BY <1>11, <1>b, <1>c, <1>e, <1>d DEF InstallDocsAndConfig, Steps
<1>12. ASSUME NEW t \in Terminals, RemoveFiles(t) PROVE Typed
  BY <1>12, <1>b, <1>f, <1>d DEF RemoveFiles, Steps
<1>13. ASSUME NEW t \in Terminals, LoadEntries(t) PROVE Typed
  BY <1>13, <1>b, <1>c, <1>e, <1>d DEF LoadEntries, Steps
<1>14. ASSUME NEW t \in Terminals, SaveEntry(t) PROVE Typed
  BY <1>14, <1>b, <1>c, <1>e, <1>d DEF SaveEntry, Steps
<1>15. ASSUME NEW t \in Terminals, Interrupt(t) PROVE Typed
  <2>1. PICK left \in PartOf(t) :
          command' = [u \in Terminals |->
                        IF u = t THEN NoCommand
                        ELSE [command[u] EXCEPT !.alone =
                                @ /\ ~(u \in Changing(command[t].plugin) /\ left # files[command[t].plugin])]]
    BY <1>15 DEF Interrupt
  <2>2. NoCommand.at = "idle"
    BY DEF NoCommand
  <2>3. ASSUME NEW u \in Terminals, NEW alone \in BOOLEAN
        PROVE  /\ [command[u] EXCEPT !.alone = alone] \in CommandStates
               /\ [command[u] EXCEPT !.alone = alone].at = command[u].at
               /\ [command[u] EXCEPT !.alone = alone].plugin = command[u].plugin
    BY DEF PluginTypes, CommandStates
  <2>4. \A u \in Terminals : command[u].alone \in BOOLEAN
    BY DEF PluginTypes, CommandStates
  <2> QED
    BY <2>1, <2>2, <2>3, <2>4, NoCommandType DEF Typed, PluginTypes
<1>16. CASE UNCHANGED command
  BY <1>16 DEF Typed, PluginTypes
<1> QED
  BY PluginCases, <1>1, <1>2, <1>3, <1>4, <1>5, <1>6, <1>7, <1>8, <1>9, <1>10, <1>11, <1>12, <1>13, <1>14, <1>15, <1>16 DEF pluginVars, Publish, ADayPasses, Typed

(* What the commands do to the files, the version file and its history. *)
LEMMA VersionFileStep ==
  ASSUME PluginTypes, [PluginNext]_pluginVars
  PROVE  /\ entries' \in [Plugins -> Digests]
         /\ {legacy', readable', due'} \subseteq BOOLEAN
<1> DEFINE Typed == entries' \in [Plugins -> Digests] /\ {legacy', readable', due'} \subseteq BOOLEAN
<1>a. /\ Loaded \in [Plugins -> Digests] /\ entries \in [Plugins -> Digests]
      /\ {legacy, readable, due} \subseteq BOOLEAN
  BY LoadedType DEF PluginTypes, PluginTypeOK
<1>b. Load \/ LoadFails => entries' \in [Plugins -> Digests] /\ {legacy', readable'} \subseteq BOOLEAN
  BY <1>a DEF Load, LoadFails
<1>c. ASSUME NEW t \in Terminals, CheckEnds(t) \/ due' = due PROVE due' \in BOOLEAN
  BY <1>a, <1>c DEF CheckEnds, TasksEnd
<1>d. ASSUME NEW t \in Terminals, NEW read \in [Plugins -> Digests], Save(t, read)
      PROVE  entries' \in [Plugins -> Digests] /\ {legacy', readable'} \subseteq BOOLEAN
  BY <1>a, <1>d DEF Save
<1>1. ASSUME NEW t \in Terminals,
             \/ ListForCheck(t) \/ ReportLoads(t) \/ InstallExists(t)
             \/ UpdateLoadsCurrent(t) \/ UpdateExists(t) \/ LoadEntries(t)
      PROVE  Typed
  <2>1. Load \/ LoadFails
    BY <1>1 DEF ListForCheck, ReportLoads, InstallExists, UpdateLoadsCurrent, UpdateExists, LoadEntries
  <2>2. CheckEnds(t) \/ due' = due
    BY <1>1 DEF ListForCheck, ReportLoads, InstallExists, UpdateLoadsCurrent, UpdateExists, LoadEntries,
                releaseVars
  <2> QED
    BY <1>b, <1>c, <2>1, <2>2
<1>2. ASSUME NEW t \in Terminals, RecordCheck(t) PROVE Typed
  <2>1. command[t].data \in [Plugins -> Digests]
    BY DEF PluginTypes, PluginTypeOK
  <2>2. CheckEnds(t) \/ due' = due
    BY <1>2 DEF RecordCheck
  <2>3. Save(t, command[t].data) \/ UNCHANGED <<entries, legacy, readable>>
    BY <1>2 DEF RecordCheck
  <2> QED
    BY <1>a, <1>c, <1>d, <2>1, <2>2, <2>3
<1>3. ASSUME NEW t \in Terminals, SaveEntry(t) PROVE Typed
  <2> DEFINE saved == [command[t].data EXCEPT ![command[t].plugin] = NewEntry(t)]
  <2>1. command[t] \in CommandStates
    BY DEF PluginTypes
  <2>2. saved \in [Plugins -> Digests]
    <3>1. command[t].data \in [Plugins -> Digests] /\ command[t].digest \in Digests
      BY <2>1 DEF CommandStates
    <3>2. NewEntry(t) \in Digests
      BY <3>1, PluginAssumption DEF NewEntry, Digests
    <3> QED
      BY <3>1, <3>2
  <2>3. Save(t, saved) /\ due' = due
    BY <1>3 DEF SaveEntry, releaseVars
  <2> QED
    BY <1>a, <1>d, <2>2, <2>3
<1>4. ASSUME NEW t \in Terminals, Interrupt(t) PROVE Typed
  BY <1>4, <1>a DEF Interrupt, releaseVars
<1>5. CASE ADayPasses
  BY <1>5, <1>a DEF ADayPasses, fileVars
<1>6. CASE UNCHANGED <<entries, legacy, readable, due>>
  BY <1>6, <1>a
<1> QED
  BY PluginCases, <1>1, <1>2, <1>3, <1>4, <1>5, <1>6
     DEF pluginVars, releaseVars, fileVars, PluginCommand, RequestLatest, Download, InstallBinary,
         InstallDocsAndConfig, RemoveFiles, Publish

LEMMA FilesStep ==
  ASSUME PluginTypes, [PluginNext]_pluginVars
  PROVE  /\ registry' \in [Plugins -> 1..MaxDigest]
         /\ files' \in [Plugins -> [dir : BOOLEAN, binary : Digests \cup {Broken}, docs : Digests]]
         /\ configured' \subseteq Plugins
         /\ disturbed' \subseteq Plugins
<1> DEFINE Directories == [dir : BOOLEAN, binary : Digests \cup {Broken}, docs : Digests]
<1>a. /\ registry \in [Plugins -> 1..MaxDigest] /\ files \in [Plugins -> Directories]
      /\ configured \subseteq Plugins /\ disturbed \subseteq Plugins
      /\ 0 \in Digests
  BY PluginAssumption DEF PluginTypes, PluginTypeOK, Digests
<1>b. ASSUME NEW t \in Terminals, ~At(t, "idle")
      PROVE  command[t].plugin \in Plugins /\ command[t].digest \in Digests
  BY <1>b DEF PluginTypes, CommandStates
<1>1. registry' \in [Plugins -> 1..MaxDigest]
  <2>1. ASSUME NEW p \in Plugins, Publish(p) PROVE registry' \in [Plugins -> 1..MaxDigest]
    BY <1>a, <2>1, PluginAssumption DEF Publish
  <2> QED
    BY PluginCases, <1>a, <2>1
       DEF pluginVars, releaseVars, PluginCommand, ListForCheck, ReportLoads, RequestLatest,
           RecordCheck, InstallExists, UpdateLoadsCurrent, UpdateExists, Download, InstallBinary,
           InstallDocsAndConfig, RemoveFiles, LoadEntries, SaveEntry, Interrupt, ADayPasses
<1>2. files' \in [Plugins -> Directories]
  <2>1. ASSUME NEW t \in Terminals, InstallBinary(t) PROVE files' \in [Plugins -> Directories]
    BY <1>a, <1>b, <2>1 DEF InstallBinary, At
  <2>2. ASSUME NEW t \in Terminals, InstallDocsAndConfig(t) PROVE files' \in [Plugins -> Directories]
    BY <1>a, <1>b, <2>2 DEF InstallDocsAndConfig, At
  <2>3. ASSUME NEW t \in Terminals, RemoveFiles(t) PROVE files' \in [Plugins -> Directories]
    <3>1. NoDirectory \in Directories
      BY <1>a DEF NoDirectory
    <3>2. files' = [files EXCEPT ![command[t].plugin] = NoDirectory] \/ files' = files
      BY <2>3 DEF RemoveFiles
    <3> QED
      BY <1>a, <3>1, <3>2
  <2>4. ASSUME NEW t \in Terminals, Interrupt(t) PROVE files' \in [Plugins -> Directories]
    <3>1. PICK left \in PartOf(t) : files' = [files EXCEPT ![command[t].plugin] = left]
      BY <2>4 DEF Interrupt
    <3>2. files[command[t].plugin] \in Directories
      BY <1>a, <1>b, <2>4 DEF Interrupt
    <3>3. left \in Directories
      <4> DEFINE now == files[command[t].plugin]
      <4>1. NoDirectory \in Directories
        BY <1>a DEF NoDirectory
      <4>2. /\ [now EXCEPT !.dir = TRUE, !.binary = Broken] \in Directories
            /\ [now EXCEPT !.docs = 0] \in Directories
            /\ [now EXCEPT !.binary = 0] \in Directories
        BY <1>a, <3>2
      <4>3. left \in {now, [now EXCEPT !.dir = TRUE, !.binary = Broken], [now EXCEPT !.docs = 0],
                     [now EXCEPT !.binary = 0], NoDirectory}
        BY DEF PartOf
      <4> QED
        BY <3>2, <4>1, <4>2, <4>3
    <3> QED
      BY <1>a, <3>1, <3>3
  <2> QED
    BY PluginCases, <1>a, <2>1, <2>2, <2>3, <2>4
       DEF pluginVars, fileVars, PluginCommand, ListForCheck, ReportLoads, RequestLatest, RecordCheck,
           InstallExists, UpdateLoadsCurrent, UpdateExists, Download, LoadEntries, SaveEntry, Publish,
           ADayPasses
<1>3. configured' \subseteq Plugins
  <2>1. ASSUME NEW t \in Terminals, InstallDocsAndConfig(t) PROVE configured' \subseteq Plugins
    BY <1>a, <1>b, <2>1 DEF InstallDocsAndConfig, At
  <2> QED
    BY PluginCases, <1>a, <2>1
       DEF pluginVars, fileVars, PluginCommand, ListForCheck, ReportLoads, RequestLatest,
           RecordCheck, InstallExists, UpdateLoadsCurrent, UpdateExists, Download, InstallBinary,
           RemoveFiles, LoadEntries, SaveEntry, Interrupt, Publish, ADayPasses
<1>4. disturbed' \subseteq Plugins
  <2>1. ASSUME NEW t \in Terminals, RecordCheck(t) \/ LoadEntries(t) \/ SaveEntry(t) \/ Interrupt(t)
        PROVE  disturbed' \subseteq Plugins
    <3>1. Undone(t) \subseteq Plugins
      BY DEF Undone
    <3>2. command[t].plugin \in Plugins
      BY <1>b, <2>1 DEF RecordCheck, LoadEntries, SaveEntry, Interrupt, At
    <3>3. CASE RecordCheck(t)
      BY <1>a, <3>1, <3>3 DEF RecordCheck
    <3>4. CASE LoadEntries(t)
      BY <1>a, <3>2, <3>4 DEF LoadEntries
    <3>5. CASE SaveEntry(t)
      BY <1>a, <3>1, <3>2, <3>5 DEF SaveEntry
    <3>6. CASE Interrupt(t)
      BY <1>a, <3>2, <3>6 DEF Interrupt
    <3> QED
      BY <2>1, <3>3, <3>4, <3>5, <3>6
  <2> QED
    BY PluginCases, <1>a, <2>1
       DEF pluginVars, fileVars, PluginCommand, ListForCheck, ReportLoads, RequestLatest,
           InstallExists, UpdateLoadsCurrent, UpdateExists, Download, InstallBinary,
           InstallDocsAndConfig, RemoveFiles, Publish, ADayPasses
<1> QED
  BY <1>1, <1>2, <1>3, <1>4

LEMMA PluginTypeStep ==
  ASSUME PluginTypes, [PluginNext]_pluginVars
  PROVE  PluginTypes'
<1>1. \A t \in Terminals : command'[t].data \in [Plugins -> Digests]
  BY CommandStep DEF CommandStates
<1> QED
  BY <1>1, CommandStep, VersionFileStep, FilesStep DEF PluginTypes, PluginTypeOK, At

(* PluginTypeCorrect: the version file, the files of the plugins and what  *)
(* each command remembers keep their types.                                *)
THEOREM PluginTypeCorrect == PluginSpec => []PluginTypeOK
<1>1. PluginInit => PluginTypes
  BY PluginInitInv DEF PluginInv
<1>2. PluginTypes => PluginTypeOK
  BY DEF PluginTypes
<1> QED
  BY <1>1, <1>2, PluginTypeStep, PTL DEF PluginSpec

-----------------------------------------------------------------------------
(* The invariant of the steps of an operation.                             *)

(* How a step changes the command of a terminal. *)
Moves(t) ==
  LET cmd == command[t]
      next == command'[t]
      Same == next.op = cmd.op /\ next.tasks = cmd.tasks IN
  \/ next.at = cmd.at /\ Same /\ next.digest = cmd.digest
  \/ next.at \in {"idle", "exists", "current"}
  \/ next.at = "list" /\ next.tasks
  \/ next.at = "remove" /\ next.op = "uninstall"
  \/ next.at = "check" /\ ((cmd.at = "list" /\ Same) \/ next.op = "update")
  \/ next.at = "request" /\ cmd.at = "check" /\ Same /\ ~legacy'
  \/ next.at = "record" /\ cmd.at = "request" /\ Same
  \/ next.at = "download" /\ next.op # "uninstall"
  \/ next.at = "binary" /\ cmd.at = "download" /\ Same /\ next.digest # 0
  \/ next.at = "docs" /\ cmd.at = "binary" /\ Same /\ next.digest = cmd.digest
  \/ next.at = "load" /\ cmd.at = "docs" /\ Same /\ next.digest = cmd.digest
  \/ next.at = "load" /\ cmd.at = "remove" /\ next.op = "uninstall"
  \/ next.at = "save" /\ cmd.at = "load" /\ Same /\ next.digest = cmd.digest /\ ~legacy'

LEMMA MovesStep ==
  ASSUME PluginInv, [PluginNext]_pluginVars, NEW u \in Terminals
  PROVE  Moves(u)
<1>a. /\ command \in [Terminals -> CommandStates]
      /\ NoCommand \in CommandStates /\ NoCommand.at = "idle"
  BY NoCommandType DEF PluginInv, PluginTypes, NoCommand
<1>b. CASE command'[u] = command[u]
  BY <1>b DEF Moves
<1>c. ASSUME NEW t \in Terminals, NEW next, Step(t, next), u # t PROVE Moves(u)
  BY <1>a, <1>b, <1>c DEF Step
<1>d. ASSUME Finish(u) PROVE Moves(u)
  BY <1>a, <1>d DEF Finish, Step, Moves
<1>e. ASSUME CheckEnds(u) PROVE Moves(u)
  <2>1. CASE Finish(u)
    BY <1>d, <2>1
  <2>2. CASE Step(u, [NoCommand EXCEPT !.op = command[u].op, !.plugin = command[u].plugin,
                                       !.at = FirstStep(command[u].op)])
    <3>1. /\ command'[u].op = command[u].op
          /\ command'[u].at = FirstStep(command[u].op)
      BY <1>a, <2>2 DEF Step, CommandStates
    <3> QED
      BY <1>a, <3>1 DEF Moves, FirstStep
  <2> QED
    BY <1>e, <2>1, <2>2 DEF CheckEnds, TasksEnd
<1>f. ASSUME NEW t \in Terminals,
             \/ CheckEnds(t) \/ Finish(t)
             \/ \E next : Step(t, next)
      PROVE  u # t => Moves(u)
  BY <1>c, <1>f DEF CheckEnds, TasksEnd, Finish
<1>1. ASSUME NEW t \in Terminals, NEW p \in Plugins, NEW op \in Operations \ {"none"},
             PluginCommand(t, op, p)
      PROVE  Moves(u)
  <2> DEFINE next == [NoCommand EXCEPT !.op = op, !.plugin = p, !.tasks = due,
                                       !.at = IF due THEN "list" ELSE FirstStep(op)]
  <2>1. Step(t, next)
    BY <1>1 DEF PluginCommand
  <2>2. next.op = op /\ next.at = (IF due THEN "list" ELSE FirstStep(op)) /\ next.tasks = due
    BY <1>a DEF CommandStates
  <2>3. due \in BOOLEAN
    BY DEF PluginInv, PluginTypes, PluginTypeOK
  <2>4. CASE u = t
    <3>1. command'[u] = next
      BY <1>a, <2>1, <2>4 DEF Step
    <3> HIDE DEF next
    <3> QED
      BY <2>2, <2>3, <3>1 DEF Moves, FirstStep
  <2> QED
    BY <1>c, <2>1, <2>4
<1>2. ASSUME NEW t \in Terminals, ListForCheck(t) PROVE Moves(u)
  <2>1. CASE u = t
    <3> DEFINE next == [command[u] EXCEPT !.at = "check", !.names = {p \in Plugins : Loaded[p] # 0}]
    <3>1. next.at = "check" /\ next.op = command[u].op /\ next.tasks = command[u].tasks
      BY <1>a DEF CommandStates
    <3>2. CASE Step(u, next)
      BY <1>2, <1>a, <2>1, <3>1, <3>2 DEF ListForCheck, Step, Moves, At
    <3> QED
      BY <1>2, <1>e, <2>1, <3>2 DEF ListForCheck
  <2> QED
    BY <1>2, <1>f, <2>1 DEF ListForCheck
<1>3. ASSUME NEW t \in Terminals, ReportLoads(t) PROVE Moves(u)
  <2>1. CASE u = t
    <3> DEFINE next == [command[u] EXCEPT !.at = "request", !.data = Loaded]
    <3>1. next.at = "request" /\ next.op = command[u].op /\ next.tasks = command[u].tasks
      BY <1>a DEF CommandStates
    <3>2. CASE Step(u, next) /\ Load
      BY <1>3, <1>a, <2>1, <3>1, <3>2 DEF ReportLoads, Step, Moves, At, Load
    <3> QED
      BY <1>3, <1>e, <2>1, <3>2 DEF ReportLoads
  <2> QED
    BY <1>3, <1>f, <2>1 DEF ReportLoads
<1>4. ASSUME NEW t \in Terminals, RequestLatest(t) PROVE Moves(u)
  <2>1. CASE u = t
    BY <1>4, <1>a, <2>1 DEF RequestLatest, Step, Moves, At, CommandStates
  <2> QED
    BY <1>4, <1>f, <2>1 DEF RequestLatest
<1>5. ASSUME NEW t \in Terminals, RecordCheck(t) PROVE Moves(u)
  <2>1. CASE u = t /\ Goto(u, "download") /\ ~command[u].tasks
    <3>1. command[u].op = "update"
      BY <1>5, <2>1 DEF RecordCheck, At, PluginInv, OperationInv
    <3> QED
      BY <1>a, <2>1, <3>1 DEF Goto, Step, Moves, CommandStates
  <2>2. \/ Finish(t) \/ CheckEnds(t)
        \/ Goto(t, "download") /\ ~command[t].tasks
    BY <1>5 DEF RecordCheck
  <2> QED
    BY <1>d, <1>e, <1>f, <2>1, <2>2 DEF Goto
<1>6. ASSUME NEW t \in Terminals, InstallExists(t) PROVE Moves(u)
  <2>1. CASE u = t
    BY <1>6, <1>a, <1>d, <2>1 DEF InstallExists, Goto, Step, Moves, CommandStates
  <2> QED
    BY <1>6, <1>f, <2>1 DEF InstallExists, Goto
<1>7. ASSUME NEW t \in Terminals, UpdateLoadsCurrent(t) PROVE Moves(u)
  <2>1. CASE u = t
    BY <1>7, <1>a, <1>d, <2>1 DEF UpdateLoadsCurrent, Step, Moves, CommandStates
  <2> QED
    BY <1>7, <1>f, <2>1 DEF UpdateLoadsCurrent
<1>8. ASSUME NEW t \in Terminals, UpdateExists(t) PROVE Moves(u)
  <2>1. CASE u = t
    BY <1>8, <1>a, <1>d, <2>1 DEF UpdateExists, Step, Moves, CommandStates
  <2> QED
    BY <1>8, <1>f, <2>1 DEF UpdateExists
<1>9. ASSUME NEW t \in Terminals, Download(t) PROVE Moves(u)
  <2>1. registry[command[t].plugin] # 0
    BY <1>9, DigestType DEF Download, At, PluginInv
  <2>2. CASE u = t
    <3> DEFINE next == [command[u] EXCEPT !.at = "binary", !.digest = registry[command[u].plugin]]
    <3>1. /\ next.at = "binary" /\ next.op = command[u].op /\ next.tasks = command[u].tasks
          /\ next.digest = registry[command[u].plugin]
      BY <1>a DEF CommandStates
    <3>2. CASE Step(u, next)
      BY <1>9, <1>a, <2>1, <2>2, <3>1, <3>2 DEF Download, Step, Moves, At
    <3> QED
      BY <1>9, <1>d, <2>2, <3>2 DEF Download
  <2> QED
    BY <1>9, <1>f, <2>2 DEF Download
<1>10. ASSUME NEW t \in Terminals, InstallBinary(t) PROVE Moves(u)
  BY <1>10, <1>a DEF InstallBinary, BeginChange, Moves, At, CommandStates
<1>11. ASSUME NEW t \in Terminals, InstallDocsAndConfig(t) PROVE Moves(u)
  <2>1. CASE u = t
    BY <1>11, <1>a, <2>1 DEF InstallDocsAndConfig, Goto, Step, Moves, At, CommandStates
  <2> QED
    BY <1>11, <1>f, <2>1 DEF InstallDocsAndConfig, Goto
<1>12. ASSUME NEW t \in Terminals, RemoveFiles(t) PROVE Moves(u)
  <2>1. CASE Finish(t)
    BY <1>d, <1>f, <2>1
  <2>2. CASE BeginChange(t, "load")
    <3>1. command[t].op = "uninstall" /\ command[t].at = "remove"
      BY <1>12 DEF RemoveFiles, At, PluginInv, OperationInv
    <3> QED
      BY <1>a, <2>2, <3>1 DEF BeginChange, Moves, CommandStates
  <2> QED
    BY <1>12, <2>1, <2>2 DEF RemoveFiles
<1>13. ASSUME NEW t \in Terminals, LoadEntries(t) PROVE Moves(u)
  <2>1. CASE u = t
    <3> DEFINE next == [command[u] EXCEPT !.at = "save", !.data = Loaded]
    <3>1. /\ next.at = "save" /\ next.op = command[u].op /\ next.tasks = command[u].tasks
          /\ next.digest = command[u].digest
      BY <1>a DEF CommandStates
    <3>2. CASE Step(u, next) /\ Load
      BY <1>13, <1>a, <2>1, <3>1, <3>2 DEF LoadEntries, Step, Moves, At, Load
    <3> QED
      BY <1>13, <1>d, <2>1, <3>2 DEF LoadEntries
  <2> QED
    BY <1>13, <1>f, <2>1 DEF LoadEntries
<1>14. ASSUME NEW t \in Terminals, SaveEntry(t) PROVE Moves(u)
  BY <1>14, <1>d, <1>f DEF SaveEntry
<1>15. ASSUME NEW t \in Terminals, Interrupt(t) PROVE Moves(u)
  BY <1>15, <1>a DEF Interrupt, Moves, CommandStates
<1>16. CASE UNCHANGED command
  BY <1>16, <1>b
<1> QED
  BY PluginCases, <1>1, <1>2, <1>3, <1>4, <1>5, <1>6, <1>7, <1>8, <1>9, <1>10, <1>11, <1>12, <1>13, <1>14, <1>15, <1>16 DEF pluginVars, Publish, ADayPasses

(* The legacy file never comes back. *)
LEMMA LegacyGone ==
  ASSUME PluginInv, [PluginNext]_pluginVars, ~legacy
  PROVE  ~legacy'
BY PluginCases
   DEF pluginVars, fileVars, PluginCommand, ListForCheck, ReportLoads, RequestLatest, RecordCheck,
       InstallExists, UpdateLoadsCurrent, UpdateExists, Download, InstallBinary,
       InstallDocsAndConfig, RemoveFiles, LoadEntries, SaveEntry, Interrupt, Publish, ADayPasses,
       Load, LoadFails, Save

LEMMA LegacyStep ==
  ASSUME PluginInv, [PluginNext]_pluginVars
  PROVE  LegacyInv'
BY MovesStep, LegacyGone DEF PluginInv, LegacyInv, Moves

LEMMA OperationStep ==
  ASSUME PluginInv, [PluginNext]_pluginVars
  PROVE  OperationInv'
BY MovesStep DEF PluginInv, OperationInv, Moves

-----------------------------------------------------------------------------
(* The files and the version file.                                         *)

InChange == {"docs", "load", "save"}

(* What the version file says is the same, of the plugins that are not     *)
(* disturbed.                                                              *)
SameEntries == \A p \in Plugins \ disturbed' : p \notin disturbed /\ Loaded'[p] = Loaded[p]

(* A step of a command that is outside the change of its files, before and *)
(* after: nobody else notices.                                             *)
Outside(t) ==
  /\ \E next : Step(t, next)
  /\ {command[t].at, command'[t].at} \cap InChange = {}
  /\ files' = files
  /\ SameEntries

LEMMA OutsideKeeps ==
  ASSUME PluginInv, NEW t \in Terminals, Outside(t)
  PROVE  AloneInv' /\ TrueInv'
<1>1. \A u \in Terminals : u # t => command'[u] = command[u]
  BY DEF PluginInv, PluginTypes, Outside, Step
<1>2. \A u \in Terminals : command'[u].at \in InChange \/ command[u].at \in InChange => command'[u] = command[u]
  BY <1>1 DEF Outside
<1>3. \A p : Changing(p)' = Changing(p)
  BY <1>2 DEF Changing, InChange
<1>4. AloneInv'
  <2> SUFFICES ASSUME NEW u \in Terminals, command'[u].at \in InChange, command'[u].alone
               PROVE  (Changing(command[u].plugin) = {u} /\ LeftBy(u))'
    BY DEF AloneInv, InChange
  <2>1. command'[u] = command[u]
    BY <1>2
  <2>2. Changing(command[u].plugin) = {u} /\ LeftBy(u)
    BY <2>1 DEF PluginInv, AloneInv, InChange
  <2> QED
    BY <1>3, <2>1, <2>2 DEF Outside, LeftBy, NewEntry
<1>5. TrueInv'
  BY <1>3 DEF PluginInv, TrueInv, Outside, SameEntries
<1> QED
  BY <1>4, <1>5

LEMMA OutsideSteps ==
  ASSUME PluginInv, [PluginNext]_pluginVars, NEW t \in Terminals,
         \/ \E p \in Plugins, op \in Operations \ {"none"} : PluginCommand(t, op, p)
         \/ ListForCheck(t) \/ ReportLoads(t) \/ RequestLatest(t) \/ RecordCheck(t)
         \/ InstallExists(t) \/ UpdateLoadsCurrent(t) \/ UpdateExists(t) \/ Download(t)
  PROVE  Outside(t)
<1>1. \E next : Step(t, next)
  BY DEF PluginCommand, ListForCheck, ReportLoads, RequestLatest, RecordCheck, InstallExists,
         UpdateLoadsCurrent, UpdateExists, Download, Finish, Goto, CheckEnds, TasksEnd
<1>2. command[t].at \notin InChange \cup {"binary", "remove"}
  BY DEF PluginCommand, ListForCheck, ReportLoads, RequestLatest, RecordCheck, InstallExists,
         UpdateLoadsCurrent, UpdateExists, Download, At, InChange
<1>3. command'[t].at \notin InChange
  BY <1>2, MovesStep DEF Moves, InChange
<1>4. files' = files
  BY DEF PluginCommand, ListForCheck, ReportLoads, RequestLatest, RecordCheck, InstallExists,
         UpdateLoadsCurrent, UpdateExists, Download, fileVars
<1>5. SameEntries
  <2>1. CASE RecordCheck(t)
    <3>1. ~legacy
      BY <2>1 DEF RecordCheck, At, PluginInv, LegacyInv
    <3>2. CASE UNCHANGED <<legacy, entries, disturbed>>
      BY <3>2 DEF SameEntries, Loaded
    <3>3. CASE Save(t, command[t].data) /\ disturbed' = disturbed \cup Undone(t)
      BY <3>1, <3>3 DEF SameEntries, Save, Undone, Loaded
    <3> QED
      BY <2>1, <3>2, <3>3 DEF RecordCheck
  <2>2. CASE UNCHANGED <<legacy, entries, disturbed>>
    BY <2>2 DEF SameEntries, Loaded
  <2>3. CASE Load \/ LoadFails
    <3>1. CASE disturbed' = disturbed
      BY <2>3, <3>1, LoadKeeps DEF SameEntries
    <3> QED
      BY <2>1, <2>2, <3>1
         DEF PluginCommand, ListForCheck, ReportLoads, RequestLatest, InstallExists,
             UpdateLoadsCurrent, UpdateExists, Download, fileVars
  <2> QED
    BY <2>1, <2>2, <2>3
       DEF PluginCommand, ListForCheck, ReportLoads, RequestLatest, InstallExists,
           UpdateLoadsCurrent, UpdateExists, Download, fileVars
<1> QED
  BY <1>1, <1>2, <1>3, <1>4, <1>5 DEF Outside

(* A command begins to change the files of its plugin: all that change     *)
(* them already are not alone any more.                                    *)
LEMMA BeginKeeps ==
  ASSUME PluginInv, NEW t \in Terminals, NEW at \in InChange, BeginChange(t, at),
         command[t].at \in {"binary", "remove"},
         \A p \in Plugins : p # command[t].plugin => files'[p] = files[p],
         UNCHANGED <<legacy, entries, disturbed>>,
         LeftBy(t)'
  PROVE  AloneInv' /\ TrueInv'
<1>p. PICK p : p = command[t].plugin
  OBVIOUS
<1>o. PICK others : others = Changing(p) \ {t}
  OBVIOUS
<1>1. /\ command[t] \in CommandStates /\ p \in Plugins
      /\ command'[t] = [command[t] EXCEPT !.at = at, !.alone = (others = {})]
      /\ \A u \in Terminals : u \in others => command'[u] = [command[u] EXCEPT !.alone = FALSE]
      /\ \A u \in Terminals : u \notin others \cup {t} => command'[u] = command[u]
  BY <1>p, <1>o DEF BeginChange, PluginInv, PluginTypes, At
<1>2. /\ command'[t].at = at /\ command'[t].plugin = p
      /\ command'[t].alone <=> others = {}
  BY <1>p, <1>1 DEF CommandStates
<1>3. \A u \in Terminals : u # t =>
        /\ command'[u].at = command[u].at /\ command'[u].plugin = command[u].plugin
        /\ command'[u].alone => command'[u] = command[u] /\ u \notin others
  <2> SUFFICES ASSUME NEW u \in Terminals, u # t
               PROVE  /\ command'[u].at = command[u].at /\ command'[u].plugin = command[u].plugin
                      /\ command'[u].alone => command'[u] = command[u] /\ u \notin others
    OBVIOUS
  <2>1. command[u] \in CommandStates
    BY DEF PluginInv, PluginTypes
  <2>2. CASE u \in others
    <3>1. command'[u] = [command[u] EXCEPT !.alone = FALSE]
      BY <1>1, <2>2
    <3>2. [command[u] EXCEPT !.alone = FALSE].alone = FALSE
      BY <2>1 DEF CommandStates
    <3>3. /\ [command[u] EXCEPT !.alone = FALSE].at = command[u].at
          /\ [command[u] EXCEPT !.alone = FALSE].plugin = command[u].plugin
      BY <2>1 DEF CommandStates
    <3> QED
      BY <3>1, <3>2, <3>3
  <2>3. CASE u \notin others
    BY <1>1, <2>3
  <2> QED
    BY <2>2, <2>3
<1>4. Changing(p)' = Changing(p) \cup {t} /\ \A q : q # p => Changing(q)' = Changing(q)
  <2>1. ASSUME NEW q, q # p PROVE Changing(q)' = Changing(q)
    BY <1>2, <1>3, <2>1 DEF Changing
  <2>2. Changing(p)' = Changing(p) \cup {t}
    BY <1>2, <1>3 DEF Changing, InChange
  <2> QED
    BY <2>1, <2>2
<1>5. AloneInv'
  <2> SUFFICES ASSUME NEW u \in Terminals, command'[u].at \in InChange, command'[u].alone
               PROVE  (Changing(command[u].plugin) = {u} /\ LeftBy(u))'
    BY DEF AloneInv, InChange
  <2>1. CASE u = t
    <3>1. Changing(p) \subseteq {t}
      BY <1>2, <1>o, <2>1
    <3>2. Changing(p)' = {t}
      BY <1>4, <3>1
    <3> QED
      BY <1>2, <2>1, <3>2
  <2>2. CASE u # t
    <3>1. command'[u] = command[u] /\ command[u].plugin # p
      BY <1>3, <1>o, <2>2 DEF Changing, InChange
    <3>2. Changing(command[u].plugin) = {u} /\ LeftBy(u) /\ command[u].plugin \in Plugins
      BY <3>1 DEF PluginInv, AloneInv, InChange, PluginTypes, At
    <3> QED
      BY <1>p, <1>4, <3>1, <3>2 DEF LeftBy, NewEntry
  <2> QED
    BY <2>1, <2>2
<1>6. TrueInv'
  <2>1. Loaded' = Loaded
    BY DEF Loaded
  <2> QED
    BY <1>p, <1>4, <2>1 DEF PluginInv, TrueInv
<1> QED
  BY <1>5, <1>6

(* A command ends whose files have been changed: what becomes of its entry *)
(* is left to the step that ends it.                                       *)
LEMMA EndKeeps ==
  ASSUME PluginInv, NEW t \in Terminals, NEW p \in Plugins, command[t].plugin = p,
         command[t].at \in InChange, Finish(t), files' = files,
         \A q \in Plugins \ disturbed' : q # p => q \notin disturbed /\ Loaded'[q] = Loaded[q],
         p \notin disturbed' => files[p] = FilesOf(Loaded'[p])
  PROVE  AloneInv' /\ TrueInv'
<1>1. /\ command'[t].at = "idle"
      /\ \A u \in Terminals : u # t => command'[u] = command[u]
  BY DEF Finish, Step, NoCommand, PluginInv, PluginTypes
<1>2. ASSUME NEW q, q # p PROVE Changing(q)' = Changing(q)
  BY <1>1, <1>2 DEF Changing
<1>3. AloneInv'
  <2> SUFFICES ASSUME NEW u \in Terminals, command'[u].at \in InChange, command'[u].alone
               PROVE  (Changing(command[u].plugin) = {u} /\ LeftBy(u))'
    BY DEF AloneInv, InChange
  <2>1. u # t /\ command'[u] = command[u]
    BY <1>1 DEF InChange
  <2>2. Changing(command[u].plugin) = {u} /\ LeftBy(u)
    BY <2>1 DEF PluginInv, AloneInv, InChange
  <2>3. command[u].plugin # p
    BY <2>1, <2>2 DEF Changing, InChange
  <2>4. PICK q : q = command[u].plugin
    OBVIOUS
  <2> QED
    BY <1>2, <2>1, <2>2, <2>3, <2>4 DEF LeftBy, NewEntry
<1>4. TrueInv'
  BY <1>2 DEF PluginInv, TrueInv
<1> QED
  BY <1>3, <1>4

(* A command goes on with its change: the same commands change the same    *)
(* files.                                                                  *)
LEMMA GoOnKeeps ==
  ASSUME PluginInv, NEW t \in Terminals, NEW p \in Plugins, command[t].plugin = p,
         NEW next \in CommandStates, Step(t, next),
         command[t].at \in InChange, next.at \in InChange, next.plugin = p,
         next.alone = command[t].alone, disturbed' = disturbed, Loaded' = Loaded,
         \A q \in Plugins : q # p => files'[q] = files[q],
         command[t].alone /\ LeftBy(t) => LeftBy(t)'
  PROVE  AloneInv' /\ TrueInv'
<1>1. /\ command'[t] = next
      /\ \A u \in Terminals : u # t => command'[u] = command[u]
  BY DEF Step, PluginInv, PluginTypes
<1>2. ASSUME NEW q PROVE Changing(q)' = Changing(q)
  BY <1>1 DEF Changing, InChange
<1>3. t \in Changing(p)
  BY DEF Changing, InChange
<1>4. AloneInv'
  <2> SUFFICES ASSUME NEW u \in Terminals, command'[u].at \in InChange, command'[u].alone
               PROVE  (Changing(command[u].plugin) = {u} /\ LeftBy(u))'
    BY DEF AloneInv, InChange
  <2>1. CASE u = t
    <3>1. command[t].alone /\ Changing(p) = {t} /\ LeftBy(t)
      BY <1>1, <2>1 DEF PluginInv, AloneInv, InChange
    <3> QED
      BY <1>1, <1>2, <2>1, <3>1
  <2>2. CASE u # t
    <3>1. PICK q : q = command[u].plugin
      OBVIOUS
    <3>2. command'[u] = command[u] /\ command[u].plugin \in Plugins
      BY <1>1, <2>2 DEF InChange, PluginInv, PluginTypes, At
    <3>3. Changing(q) = {u} /\ LeftBy(u)
      BY <3>1, <3>2 DEF PluginInv, AloneInv, InChange
    <3>4. q # p
      BY <1>3, <2>2, <3>3
    <3> QED
      BY <1>2, <3>1, <3>2, <3>3, <3>4 DEF LeftBy, NewEntry
  <2> QED
    BY <2>1, <2>2
<1>5. TrueInv'
  BY <1>2, <1>3 DEF PluginInv, TrueInv
<1> QED
  BY <1>4, <1>5

LEMMA InterruptKeeps ==
  ASSUME PluginInv, NEW t \in Terminals, Interrupt(t)
  PROVE  AloneInv' /\ TrueInv'
<1>p. PICK p : p = command[t].plugin
  OBVIOUS
<1>1. p \in Plugins
  BY <1>p DEF Interrupt, PluginInv, PluginTypes
<1>0. PICK left \in PartOf(t) :
        /\ files' = [files EXCEPT ![command[t].plugin] = left]
        /\ disturbed' = IF left # files[command[t].plugin] \/ t \in Changing(command[t].plugin)
                        THEN disturbed \cup {command[t].plugin} ELSE disturbed
        /\ command' = [u \in Terminals |->
                         IF u = t THEN NoCommand
                         ELSE [command[u] EXCEPT !.alone =
                                 @ /\ ~(u \in Changing(command[t].plugin) /\ left # files[command[t].plugin])]]
  BY DEF Interrupt
<1>2. /\ files' = [files EXCEPT ![p] = left]
      /\ disturbed' = IF left # files[p] \/ t \in Changing(p)
                      THEN disturbed \cup {p} ELSE disturbed
      /\ command' = [u \in Terminals |->
                       IF u = t THEN NoCommand
                       ELSE [command[u] EXCEPT !.alone =
                               @ /\ ~(u \in Changing(p) /\ left # files[p])]]
  BY <1>p, <1>0
<1>3. Loaded' = Loaded
  BY DEF Interrupt, Loaded
<1>4. \A u \in Terminals : command[u] \in CommandStates
  BY DEF PluginInv, PluginTypes
<1>5. command'[t].at = "idle"
  BY <1>2 DEF NoCommand
<1>6. ASSUME NEW u \in Terminals, u # t
      PROVE  /\ command'[u].at = command[u].at /\ command'[u].plugin = command[u].plugin
             /\ command'[u].op = command[u].op /\ command'[u].digest = command[u].digest
             /\ command'[u].alone => command[u].alone /\ ~(u \in Changing(p) /\ left # files[p])
  <2>1. PICK alone \in BOOLEAN : alone = (command[u].alone /\ ~(u \in Changing(p) /\ left # files[p]))
    OBVIOUS
  <2>2. command'[u] = [command[u] EXCEPT !.alone = alone]
    BY <1>2, <1>6, <2>1
  <2>3. command[u] \in CommandStates
    BY <1>4
  <2>4. [command[u] EXCEPT !.alone = alone].alone = alone
    BY <2>3 DEF CommandStates
  <2>5. /\ [command[u] EXCEPT !.alone = alone].at = command[u].at
        /\ [command[u] EXCEPT !.alone = alone].plugin = command[u].plugin
        /\ [command[u] EXCEPT !.alone = alone].op = command[u].op
        /\ [command[u] EXCEPT !.alone = alone].digest = command[u].digest
    BY <2>3 DEF CommandStates
  <2> QED
    BY <2>1, <2>2, <2>4, <2>5
<1>7. ASSUME NEW q PROVE Changing(q)' = Changing(q) \ {t}
  BY <1>5, <1>6 DEF Changing
<1>8. \A q : q # p => t \notin Changing(q)
  BY <1>p DEF Changing
<1>9. \A q \in Plugins : q # p \/ left = files[p] => files'[q] = files[q]
  BY <1>1, <1>2 DEF PluginInv, PluginTypes, PluginTypeOK
<1>10. AloneInv'
  <2> SUFFICES ASSUME NEW u \in Terminals, command'[u].at \in InChange, command'[u].alone
               PROVE  (Changing(command[u].plugin) = {u} /\ LeftBy(u))'
    BY DEF AloneInv, InChange
  <2>1. u # t
    BY <1>5 DEF InChange
  <2>2. PICK q : q = command[u].plugin
    OBVIOUS
  <2>3. Changing(q) = {u} /\ LeftBy(u) /\ q \in Plugins
    BY <1>6, <2>1, <2>2 DEF PluginInv, AloneInv, InChange, PluginTypes, At
  <2>4. q # p \/ left = files[p]
    BY <1>6, <2>1, <2>3
  <2>5. files'[q] = files[q]
    BY <1>9, <2>3, <2>4
  <2>6. Changing(q)' = {u}
    BY <1>7, <2>1, <2>3
  <2> QED
    BY <1>6, <2>1, <2>2, <2>3, <2>5, <2>6 DEF LeftBy, NewEntry
<1>11. TrueInv'
  <2> SUFFICES ASSUME NEW q \in Plugins, q \notin disturbed', Changing(q)' = {}
               PROVE  (files[q] = FilesOf(Loaded[q]))'
    BY DEF TrueInv
  <2>1. /\ q \notin disturbed
        /\ q = p => left = files[p] /\ t \notin Changing(p)
    BY <1>2
  <2>2. Changing(q) = {}
    BY <1>7, <1>8, <2>1
  <2>3. files[q] = FilesOf(Loaded[q])
    BY <2>1, <2>2 DEF PluginInv, TrueInv
  <2>4. files'[q] = files[q]
    BY <1>9, <2>1
  <2> QED
    BY <1>3, <2>3, <2>4 DEF FilesOf
<1> QED
  BY <1>10, <1>11

(* The steps that change files, and those that write the version file.     *)
LEMMA TrueStep ==
  ASSUME PluginInv, [PluginNext]_pluginVars
  PROVE  AloneInv' /\ TrueInv'
<1>p. ASSUME NEW t \in Terminals, ~At(t, "idle")
      PROVE  command[t] \in CommandStates /\ command[t].plugin \in Plugins
  BY <1>p DEF PluginInv, PluginTypes
<1>f. /\ files \in [Plugins -> [dir : BOOLEAN, binary : Digests \cup {Broken}, docs : Digests]]
      /\ entries \in [Plugins -> Digests]
      /\ \A t \in Terminals : command[t].data \in [Plugins -> Digests]
      /\ command \in [Terminals -> CommandStates]
  BY DEF PluginInv, PluginTypes, PluginTypeOK
<1>1. ASSUME NEW t \in Terminals,
             \/ \E p \in Plugins, op \in Operations \ {"none"} : PluginCommand(t, op, p)
             \/ ListForCheck(t) \/ ReportLoads(t) \/ RequestLatest(t) \/ RecordCheck(t)
             \/ InstallExists(t) \/ UpdateLoadsCurrent(t) \/ UpdateExists(t) \/ Download(t)
      PROVE  AloneInv' /\ TrueInv'
  BY <1>1, OutsideSteps, OutsideKeeps
<1>2. ASSUME NEW t \in Terminals, InstallBinary(t) PROVE AloneInv' /\ TrueInv'
  <2>1. command[t].at = "binary"
    BY <1>2 DEF InstallBinary, At
  <2>2. command[t] \in CommandStates /\ command[t].plugin \in Plugins
    BY <1>p, <2>1 DEF At
  <2>3. /\ command'[t].at = "docs" /\ command'[t].plugin = command[t].plugin
        /\ command'[t].digest = command[t].digest
    BY <1>2, <2>2 DEF InstallBinary, BeginChange, CommandStates
  <2>4. /\ files'[command[t].plugin].dir /\ files'[command[t].plugin].binary = command[t].digest
        /\ \A p \in Plugins : p # command[t].plugin => files'[p] = files[p]
    BY <1>2, <1>f, <2>2 DEF InstallBinary
  <2>5. LeftBy(t)'
    BY <2>3, <2>4 DEF LeftBy
  <2> QED
    BY <1>2, <2>1, <2>4, <2>5, BeginKeeps DEF InstallBinary, InChange
<1>3. ASSUME NEW t \in Terminals, RemoveFiles(t) PROVE AloneInv' /\ TrueInv'
  <2>1. command[t].at = "remove" /\ command[t].op = "uninstall"
    BY <1>3 DEF RemoveFiles, At, PluginInv, OperationInv
  <2>2. command[t] \in CommandStates /\ command[t].plugin \in Plugins
    BY <1>p, <2>1 DEF At
  <2>3. CASE BeginChange(t, "load") /\ files' = [files EXCEPT ![command[t].plugin] = NoDirectory]
    <3>1. /\ command'[t].at = "load" /\ command'[t].plugin = command[t].plugin
          /\ command'[t].op = "uninstall"
      BY <2>1, <2>2, <2>3 DEF BeginChange, CommandStates
    <3>2. /\ files'[command[t].plugin] = NoDirectory
          /\ \A p \in Plugins : p # command[t].plugin => files'[p] = files[p]
      BY <1>f, <2>2, <2>3
    <3>3. LeftBy(t)'
      BY <3>1, <3>2 DEF LeftBy, NewEntry, FilesOf
    <3> QED
      BY <1>3, <2>1, <2>3, <3>2, <3>3, BeginKeeps DEF RemoveFiles, InChange
  <2>4. CASE Finish(t) /\ files' = files
    <3>1. UNCHANGED <<legacy, entries, disturbed>>
      BY <1>3 DEF RemoveFiles
    <3>2. command'[t].at = "idle"
      BY <1>f, <2>4 DEF Finish, Step, NoCommand
    <3>3. Outside(t)
      BY <2>1, <2>4, <3>1, <3>2 DEF Outside, InChange, SameEntries, Loaded, Finish
    <3> QED
      BY <3>3, OutsideKeeps
  <2> QED
    BY <1>3, <2>3, <2>4 DEF RemoveFiles
<1>4. ASSUME NEW t \in Terminals, InstallDocsAndConfig(t) PROVE AloneInv' /\ TrueInv'
  <2>1. /\ command[t].at = "docs" /\ command[t].op # "uninstall" /\ command[t].digest # 0
        /\ Goto(t, "load")
    BY <1>4 DEF InstallDocsAndConfig, At, PluginInv, OperationInv
  <2>2. PICK p \in Plugins : p = command[t].plugin /\ command[t] \in CommandStates
    BY <1>p, <2>1 DEF At
  <2>3. PICK next : next = [command[t] EXCEPT !.at = "load"]
    OBVIOUS
  <2>4. /\ next \in CommandStates /\ next.at = "load" /\ next.plugin = p
        /\ next.alone = command[t].alone /\ next.op = command[t].op
        /\ next.digest = command[t].digest
    BY <2>2, <2>3 DEF CommandStates, Steps
  <2>5. Step(t, next) /\ command'[t] = next
    BY <1>f, <2>1, <2>3 DEF Goto, Step
  <2>6. /\ \A q \in Plugins : q # p => files'[q] = files[q]
        /\ files'[p] = [files[p] EXCEPT !.dir = TRUE, !.docs = command[t].digest]
    BY <1>4, <1>f, <2>2 DEF InstallDocsAndConfig
  <2>7. files[p].binary = command[t].digest => files'[p] = FilesOf(command[t].digest)
    <3>1. files[p] \in [dir : BOOLEAN, binary : Digests \cup {Broken}, docs : Digests]
      BY <1>f
    <3>2. command[t].digest \in Digests
      BY <2>2 DEF CommandStates
    <3>3. [files[p] EXCEPT !.dir = TRUE, !.docs = command[t].digest]
            \in [dir : BOOLEAN, binary : Digests \cup {Broken}, docs : Digests]
      BY <3>1, <3>2
    <3>4. /\ files'[p].dir = TRUE /\ files'[p].docs = command[t].digest
          /\ files'[p].binary = files[p].binary
      BY <2>6, <3>1
    <3>5. files'[p] = [dir |-> files'[p].dir, binary |-> files'[p].binary, docs |-> files'[p].docs]
      BY <2>6, <3>3
    <3> QED
      BY <2>1, <3>4, <3>5 DEF FilesOf
  <2>8. LeftBy(t) => LeftBy(t)'
    BY <2>1, <2>2, <2>4, <2>5, <2>7 DEF LeftBy, NewEntry
  <2>9. disturbed' = disturbed /\ Loaded' = Loaded
    BY <1>4 DEF InstallDocsAndConfig, Loaded
  <2> QED
    BY <2>1, <2>2, <2>4, <2>5, <2>6, <2>8, <2>9, GoOnKeeps DEF InChange
<1>5. ASSUME NEW t \in Terminals, LoadEntries(t) PROVE AloneInv' /\ TrueInv'
  <2>1. command[t].at = "load" /\ files' = files
    BY <1>5 DEF LoadEntries, At
  <2>2. PICK p \in Plugins : p = command[t].plugin /\ command[t] \in CommandStates
    BY <1>p, <2>1 DEF At
  <2>3. Loaded' = Loaded
    BY <1>5, LoadKeeps DEF LoadEntries
  <2>4. CASE Step(t, [command[t] EXCEPT !.at = "save", !.data = Loaded]) /\ disturbed' = disturbed
    <3>1. PICK next : next = [command[t] EXCEPT !.at = "save", !.data = Loaded]
      OBVIOUS
    <3>2. Loaded \in [Plugins -> Digests]
      BY LoadedType DEF PluginInv, PluginTypes
    <3>3. /\ next \in CommandStates /\ next.at = "save" /\ next.plugin = p
          /\ next.alone = command[t].alone /\ next.op = command[t].op
          /\ next.digest = command[t].digest
      BY <2>2, <3>1, <3>2 DEF CommandStates, Steps
    <3>4. Step(t, next) /\ command'[t] = next
      BY <1>f, <2>4, <3>1 DEF Step
    <3>5. LeftBy(t) => LeftBy(t)'
      BY <2>1, <2>2, <3>3, <3>4 DEF LeftBy, NewEntry
    <3> QED
      BY <2>1, <2>2, <2>3, <2>4, <3>3, <3>4, <3>5, GoOnKeeps DEF InChange
  <2>5. CASE Finish(t) /\ disturbed' = disturbed \cup {command[t].plugin}
    BY <2>1, <2>2, <2>3, <2>5, EndKeeps DEF InChange
  <2> QED
    BY <1>5, <2>4, <2>5 DEF LoadEntries
<1>6. ASSUME NEW t \in Terminals, SaveEntry(t) PROVE AloneInv' /\ TrueInv'
  <2>1. command[t].at = "save" /\ files' = files /\ Finish(t) /\ ~legacy /\ ~legacy'
    BY <1>6 DEF SaveEntry, Save, At, PluginInv, LegacyInv
  <2>2. PICK p \in Plugins : p = command[t].plugin
    BY <1>p, <2>1 DEF At
  <2>3. /\ entries' = [command[t].data EXCEPT ![p] = NewEntry(t)]
        /\ disturbed' = (disturbed \ {p}) \cup (Undone(t) \ {p}) \cup {q \in {p} : ~command[t].alone}
    BY <1>6, <2>2 DEF SaveEntry, Save
  <2>4. Loaded = entries /\ Loaded' = entries'
    BY <2>1 DEF Loaded
  <2>5. \A q \in Plugins \ disturbed' : q # p => q \notin disturbed /\ Loaded'[q] = Loaded[q]
    BY <1>f, <2>3, <2>4 DEF Undone
  <2>6. ASSUME p \notin disturbed' PROVE files[p] = FilesOf(Loaded'[p])
    <3>1. command[t].alone
      BY <2>3, <2>6
    <3>2. files[p] = FilesOf(NewEntry(t))
      BY <2>1, <2>2, <3>1 DEF PluginInv, AloneInv, LeftBy
    <3>3. Loaded'[p] = NewEntry(t)
      BY <1>f, <2>2, <2>3, <2>4
    <3> QED
      BY <3>2, <3>3
  <2> QED
    BY <2>1, <2>2, <2>5, <2>6, EndKeeps DEF InChange
<1>7. CASE UNCHANGED <<fileVars, command, disturbed>>
  BY <1>7 DEF PluginInv, AloneInv, TrueInv, Changing, LeftBy, NewEntry, Loaded, fileVars
<1> QED
  BY PluginCases, <1>1, <1>2, <1>3, <1>4, <1>5, <1>6, <1>7, InterruptKeeps
     DEF pluginVars, Publish, ADayPasses

(* The invariant is inductive. *)
LEMMA PluginInvStep ==
  ASSUME PluginInv, [PluginNext]_pluginVars
  PROVE  PluginInv'
<1>1. PluginTypes'
  BY PluginTypeStep DEF PluginInv
<1> QED
  BY <1>1, LegacyStep, OperationStep, TrueStep DEF PluginInv

(* The files say what the version file does. *)
LEMMA PluginInvTrue == PluginInv => EntriesTrue
<1> SUFFICES ASSUME PluginInv, NEW p \in Plugins, p \notin disturbed, Changing(p) = {}
             PROVE  /\ p \in DOMAIN List => List[p] = files[p].binary
                    /\ Loaded[p] # 0 => p \in DOMAIN List
                    /\ Loaded[p] = files[p].docs
                    /\ files[p].dir <=> Loaded[p] # 0
  BY DEF EntriesTrue
<1>1. files[p] = FilesOf(Loaded[p])
  BY DEF PluginInv, TrueInv
<1>2. /\ files[p].binary = Loaded[p] /\ files[p].docs = Loaded[p]
      /\ files[p].dir <=> Loaded[p] # 0
  BY <1>1 DEF FilesOf, NoDirectory
<1>3. p \in DOMAIN List <=> Loaded[p] # 0
  BY <1>2 DEF List
<1> QED
  BY <1>2, <1>3 DEF List

(* EntriesTrueCorrect: whatever commands the terminals run, and wherever   *)
(* they are killed, the version file names the version of the files of     *)
(* every plugin that no accident has disturbed.                            *)
THEOREM EntriesTrueCorrect == PluginSpec => []EntriesTrue
<1>1. PluginInv /\ [PluginNext]_pluginVars => PluginInv'
  BY PluginInvStep
<1> QED
  BY PluginInitInv, <1>1, PluginInvTrue, PTL DEF PluginSpec
-----------------------------------------------------------------------------
(***************************************************************************)
(* DatabaseInstall: every command makes sure that the database is there.   *)
(***************************************************************************)

EnsureSteps == {"idle", "prepare", "prepared", "clean", "binaries", "fdw", "record",
                "init", "initdb", "start", "configure", "server"}

(* The steps of an installation that is not a first one, up to the data    *)
(* directory; and those that make the data directory.                      *)
Preparing == {"prepare", "fdw", "record", "prepared"}
Initialising == {"start", "configure", "server"}

(* What the version file says is never newer than the release; when it is  *)
(* that, or is about to be, so are the files of the FDW that are there; and *)
(* a command that has passed it, or has ended well, has seen it there.     *)
VersionInv ==
  /\ versions <= release
  /\ versions = release \/ (\E s \in Shells : Ensuring(s, "record")) =>
       \A f \in FdwFiles : fdw[f] \in {0, release}
  /\ \A s \in Shells :
       ensure[s].ok \/ ensure[s].at \in {"prepared", "init", "initdb"} \cup Initialising =>
         versions = release

(* A first installation starts with the old files, an update does not; of  *)
(* two commands that install at once only the first is alone, and while it *)
(* does no other one has ended well alone.                                 *)
AloneInstalls ==
  /\ \A s \in Shells :
       /\ ensure[s].ok => ensure[s].at = "idle"
       /\ ensure[s].at \in {"clean", "binaries"} => ensure[s].fresh
       /\ ensure[s].at \in {"prepare", "prepared"} => ~ensure[s].fresh
  /\ \A s \in Shells : ensure[s].at # "idle" /\ ensure[s].alone =>
       \A q \in Shells \ {s} :
         ensure[q].alone => ensure[q].at = "idle" /\ ~ensure[q].ok

(* The others that a command which found everything installed may overlap. *)
OthersPrepare(s, steps) ==
  /\ IsInstalled
  /\ \A q \in Busy \ {s} : ~ensure[q].fresh /\ ensure[q].at \in steps
PrepareInv ==
  ~halfDone =>
    \A s \in Shells :
      ensure[s].alone /\ ~ensure[s].fresh /\ ensure[s].at \in Preparing =>
        OthersPrepare(s, Preparing \cup IF NeedsInit THEN {"init"} ELSE {})

(* As long as nothing stopped half way, whoever makes the data directory   *)
(* is alone and finds it as it was left, and otherwise it is complete.     *)
DataInv ==
  ~halfDone =>
    /\ \A s \in Shells :
         /\ ensure[s].at \in {"initdb"} \cup Initialising => ensure[s].alone
         /\ ensure[s].at = "initdb" => NeedsInit
         /\ ensure[s].at \in Initialising => binaries /\ ~NeedsInit
         /\ ensure[s].at = "server" => data.hba = "final" /\ data.database
    /\ ~NeedsInit /\ (\A s \in Shells : ensure[s].at \notin Initialising) =>
         data.hba = "final" /\ data.database /\ ~postgres

UsableInv ==
  ~halfDone =>
    \A s \in Shells : ensure[s].ok /\ ensure[s].alone =>
      /\ OthersPrepare(s, Preparing)
      /\ data.hba = "final" /\ data.database /\ ~postgres

DatabaseInv == /\ DatabaseTypeOK /\ VersionInv /\ AloneInstalls /\ PrepareInv /\ DataInv /\ UsableInv

EnsureStates == [at : EnsureSteps, fresh : BOOLEAN, ok : BOOLEAN, alone : BOOLEAN]

LEMMA DatabaseTypes ==
  ASSUME DatabaseTypeOK
  PROVE  /\ release \in Nat /\ versions \in Nat
         /\ binaries \in BOOLEAN /\ postgres \in BOOLEAN /\ halfDone \in BOOLEAN
         /\ ensure \in [Shells -> EnsureStates]
BY DatabaseAssumption DEF DatabaseTypeOK, EnsureStates, EnsureSteps

LEMMA DatabaseInitInv == DatabaseInit => DatabaseInv
<1> SUFFICES ASSUME DatabaseInit PROVE DatabaseInv
  OBVIOUS
<1>1. DatabaseTypeOK
  <2>1. /\ release \in 1..MaxRelease /\ versions \in 0..MaxRelease
        /\ fdw \in [FdwFiles -> 0..MaxRelease]
    BY DatabaseAssumption DEF DatabaseInit, NoFdw
  <2>2. data \in [hba : {"none", "initdb", "minimal", "final"}, database : BOOLEAN, server : BOOLEAN]
    BY DEF DatabaseInit, NoData
  <2>3. ensure \in [Shells -> EnsureStates]
    BY DEF DatabaseInit, NoEnsure, EnsureStates, EnsureSteps
  <2> QED
    BY <2>1, <2>2, <2>3 DEF DatabaseInit, DatabaseTypeOK, EnsureStates, EnsureSteps
<1>2. VersionInv
  BY DEF DatabaseInit, VersionInv, NoFdw, NoEnsure, Ensuring, Initialising
<1> QED
  BY <1>1, <1>2 DEF DatabaseInv, DatabaseInit, AloneInstalls, PrepareInv, DataInv, UsableInv, NoEnsure, NoData,
     Preparing, Initialising, NeedsInit

LEMMA ChangesAlone ==
  ASSUME NEW s \in Shells, Changes(s), halfDone \in BOOLEAN, ~halfDone'
  PROVE  ~halfDone /\ Busy = {s}
BY DEF Changes

LEMMA HaltsClean ==
  ASSUME Halts, halfDone \in BOOLEAN, ~halfDone'
  PROVE  ~halfDone /\ data.hba = "none"
BY DEF Halts

(* The commands that a step leaves alone, and how it moves the one it is of. *)
Moved(s, steps) ==
  /\ ensure' \in [Shells -> EnsureStates]
  /\ \A q \in Shells \ {s} : ensure'[q] = ensure[q]
  /\ \/ ensure'[s] = NoEnsure
     \/ /\ ensure'[s].at \in steps
        /\ ensure'[s].fresh = ensure[s].fresh /\ ensure'[s].alone = ensure[s].alone
        /\ ensure'[s].ok = IF ensure'[s].at = "idle" THEN TRUE ELSE ensure[s].ok

LEMMA MovedTo ==
  ASSUME NEW s \in Shells, NEW steps, Moved(s, steps)
  PROVE  /\ ensure'[s].at \in {"idle"} \cup steps
         /\ ensure'[s].at # "idle" => /\ ensure'[s].at \in steps
                                     /\ ensure'[s].alone = ensure[s].alone
                                     /\ ensure'[s].fresh = ensure[s].fresh
                                     /\ ensure'[s].ok = ensure[s].ok
<1>1. CASE ensure'[s] = NoEnsure
  <2>1. ensure'[s].at = "idle"
    BY <1>1 DEF NoEnsure
  <2> QED
    BY <2>1
<1>2. CASE ensure'[s] # NoEnsure
  BY <1>2 DEF Moved
<1> QED
  BY <1>1, <1>2

LEMMA ThenMoves ==
  ASSUME NEW s \in Shells, NEW step \in EnsureSteps \ {"idle"}, ensure \in [Shells -> EnsureStates],
         Then(s, step)
  PROVE  Moved(s, {step}) /\ ensure'[s].at = step
BY DEF Then, Moved, EnsureStates, EnsureSteps

LEMMA SucceedsMoves ==
  ASSUME NEW s \in Shells, ensure \in [Shells -> EnsureStates], Succeeds(s)
  PROVE  Moved(s, {"idle"}) /\ ensure'[s].at = "idle" /\ ensure'[s].ok
BY DEF Succeeds, Moved, EnsureStates, EnsureSteps

LEMMA FailsMoves ==
  ASSUME NEW s \in Shells, ensure \in [Shells -> EnsureStates], Fails(s)
  PROVE  Moved(s, {}) /\ ensure'[s] = NoEnsure
BY DEF Fails, Moved, EnsureStates, EnsureSteps, NoEnsure

(* The steps that may follow one that does not fail. *)
StepsAfter(step) ==
  CASE step = "prepare" -> {"fdw", "prepared"}
    [] step = "prepared" -> {"init", "idle"}
    [] step = "clean" -> {"binaries"}
    [] step = "binaries" -> {"fdw"}
    [] step = "fdw" -> {"record"}
    [] step = "record" -> {"init", "prepared"}
    [] step = "init" -> {"initdb"}
    [] step = "initdb" -> {"start"}
    [] step = "start" -> {"configure"}
    [] step = "configure" -> {"server"}
    [] OTHER -> {"idle"}

(* The steps of an installation that is under way. *)
GoesOn(s) ==
  \/ PrepareFdw(s) \/ PrepareData(s) \/ RemovePrevious(s) \/ InstallDB(s) \/ InstallFdw(s)
  \/ UpdateVersionFileFdw(s) \/ ClearData(s) \/ InitDatabase(s) \/ StartServiceForInstall(s)
  \/ InstallDatabase(s) \/ InstallForeignServer(s) \/ Killed(s)

LEMMA DatabaseCases ==
  ASSUME [DatabaseNext]_databaseVars
  PROVE  \/ UNCHANGED databaseVars
         \/ NewRelease
         \/ \E s \in Shells : EnsureDBInstalled(s)
         \/ \E s \in Shells : StartDB(s)
         \/ \E s \in Shells : GoesOn(s)
BY DEF DatabaseNext, GoesOn

LEMMA GoesOnMoves ==
  ASSUME DatabaseTypeOK, NEW s \in Shells, GoesOn(s)
  PROVE  /\ ensure[s].at # "idle"
         /\ Moved(s, StepsAfter(ensure[s].at))
<1> USE DatabaseTypes
<1> USE DEF Ensuring, StepsAfter
<1> DEFINE Follows == StepsAfter(ensure[s].at)
<1>1. ASSUME NEW step \in EnsureSteps \ {"idle"}, step \in Follows, Then(s, step)
      PROVE  Moved(s, Follows)
  BY <1>1, ThenMoves DEF Moved
<1>2. ASSUME Fails(s)
      PROVE  Moved(s, Follows)
  BY <1>2, FailsMoves DEF Moved
<1>3. ASSUME Succeeds(s), "idle" \in Follows
      PROVE  Moved(s, Follows)
  BY <1>3, SucceedsMoves DEF Moved
<1>4. CASE PrepareFdw(s)
  BY <1>1, <1>2, <1>3, <1>4 DEF PrepareFdw, EnsureSteps
<1>5. CASE PrepareData(s)
  BY <1>1, <1>2, <1>3, <1>5 DEF PrepareData, EnsureSteps
<1>6. CASE RemovePrevious(s)
  BY <1>1, <1>2, <1>3, <1>6 DEF RemovePrevious, EnsureSteps
<1>7. CASE InstallDB(s)
  BY <1>1, <1>2, <1>3, <1>7 DEF InstallDB, EnsureSteps
<1>8. CASE InstallFdw(s)
  BY <1>1, <1>2, <1>3, <1>8 DEF InstallFdw, EnsureSteps
<1>9. CASE UpdateVersionFileFdw(s)
  BY <1>1, <1>2, <1>3, <1>9 DEF UpdateVersionFileFdw, EnsureSteps
<1>10. CASE ClearData(s)
  BY <1>1, <1>2, <1>3, <1>10 DEF ClearData, EnsureSteps
<1>11. CASE InitDatabase(s)
  BY <1>1, <1>2, <1>3, <1>11 DEF InitDatabase, EnsureSteps
<1>12. CASE StartServiceForInstall(s)
  BY <1>1, <1>2, <1>3, <1>12 DEF StartServiceForInstall, EnsureSteps
<1>13. CASE InstallDatabase(s)
  BY <1>1, <1>2, <1>3, <1>13 DEF InstallDatabase, EnsureSteps
<1>14. CASE InstallForeignServer(s)
  BY <1>1, <1>2, <1>3, <1>14 DEF InstallForeignServer, EnsureSteps
<1>15. CASE Killed(s)
  BY <1>1, <1>2, <1>3, <1>15 DEF Killed, EnsureSteps
<1> QED
  BY <1>4, <1>5, <1>6, <1>7, <1>8, <1>9, <1>10, <1>11, <1>12, <1>13, <1>14, <1>15 DEF GoesOn

(* The types of what is on the disk. *)
DiskOK ==
  /\ fdw \in [FdwFiles -> 0..MaxRelease]
  /\ versions \in 0..MaxRelease
  /\ data \in [hba : {"none", "initdb", "minimal", "final"}, database : BOOLEAN, server : BOOLEAN]
  /\ binaries \in BOOLEAN /\ postgres \in BOOLEAN /\ halfDone \in BOOLEAN

LEMMA DiskParts ==
  DatabaseTypeOK <=> release \in 1..MaxRelease /\ DiskOK /\ ensure \in [Shells -> EnsureStates]
BY DEF DatabaseTypeOK, DiskOK, EnsureStates, EnsureSteps

LEMMA DiskPartsNext ==
  DatabaseTypeOK' <=> release' \in 1..MaxRelease /\ DiskOK' /\ ensure' \in [Shells -> EnsureStates]
BY DEF DatabaseTypeOK, DiskOK, EnsureStates, EnsureSteps

LEMMA DiskGoesOn ==
  ASSUME DatabaseTypeOK, NEW s \in Shells, GoesOn(s)
  PROVE  release' = release /\ DiskOK'
<1> USE DiskParts, DatabaseAssumption
<1> USE DEF DiskOK
<1>1. CASE PrepareFdw(s)
  BY <1>1 DEF PrepareFdw, diskVars
<1>2. CASE PrepareData(s)
  BY <1>2 DEF PrepareData, diskVars
<1>3. CASE RemovePrevious(s)
  <2>1. fdw' \in [FdwFiles -> 0..MaxRelease]
    BY <1>3 DEF RemovePrevious, NoFdw
  <2>2. binaries' \in BOOLEAN /\ halfDone' \in BOOLEAN
    BY <1>3 DEF RemovePrevious, Changes
  <2> QED
    BY <1>3, <2>1, <2>2 DEF RemovePrevious
<1>4. CASE InstallDB(s)
  BY <1>4 DEF InstallDB, Changes
<1>5. CASE InstallFdw(s)
  BY <1>5 DEF InstallFdw, Changes, FdwFiles
<1>6. CASE UpdateVersionFileFdw(s)
  BY <1>6 DEF UpdateVersionFileFdw, Changes
<1>7. CASE ClearData(s)
  BY <1>7 DEF ClearData, NoData
<1>8. CASE InitDatabase(s)
  BY <1>8 DEF InitDatabase, Changes, Halts
<1>9. CASE StartServiceForInstall(s)
  BY <1>9 DEF StartServiceForInstall, diskVars, Changes, Halts
<1>10. CASE InstallDatabase(s)
  BY <1>10 DEF InstallDatabase, Changes, Halts
<1>11. CASE InstallForeignServer(s)
  BY <1>11 DEF InstallForeignServer, Changes
<1>12. CASE Killed(s)
  BY <1>12 DEF Killed, Halts
<1> QED
  BY <1>1, <1>2, <1>3, <1>4, <1>5, <1>6, <1>7, <1>8, <1>9, <1>10, <1>11, <1>12 DEF GoesOn

LEMMA DatabaseTypeStep ==
  ASSUME DatabaseTypeOK, [DatabaseNext]_databaseVars
  PROVE  DatabaseTypeOK'
<1> USE DiskParts
<1>1. CASE UNCHANGED databaseVars
  BY <1>1 DEF databaseVars, diskVars, DatabaseTypeOK
<1>2. CASE NewRelease
  <2>1. release' \in 1..MaxRelease
    BY <1>2, DatabaseAssumption DEF NewRelease
  <2>2. ensure' \in [Shells -> EnsureStates]
    BY <1>2 DEF NewRelease, NoEnsure, EnsureStates, EnsureSteps
  <2> QED
    BY <1>2, <2>1, <2>2, DiskPartsNext DEF NewRelease, diskVars, DiskOK
<1>3. ASSUME NEW s \in Shells, EnsureDBInstalled(s)
      PROVE  DatabaseTypeOK'
  <2>1. ensure' \in [Shells -> EnsureStates]
    BY <1>3 DEF EnsureDBInstalled, EnsureStates, EnsureSteps
  <2> QED
    BY <1>3, <2>1, DiskPartsNext DEF EnsureDBInstalled, diskVars, DiskOK
<1>4. ASSUME NEW s \in Shells, StartDB(s)
      PROVE  DatabaseTypeOK'
  BY <1>4, DiskPartsNext DEF StartDB, DiskOK
<1>5. ASSUME NEW s \in Shells, GoesOn(s)
      PROVE  DatabaseTypeOK'
  BY <1>5, DiskGoesOn, GoesOnMoves, DiskPartsNext DEF Moved
<1> QED
  BY <1>1, <1>2, <1>3, <1>4, <1>5, DatabaseCases

(* DatabaseTypeCorrect: the files of postgres and of the FDW, the version  *)
(* file, the data directory and EnsureDBInstalled of each shell keep their *)
(* types.                                                                  *)
THEOREM DatabaseTypeCorrect == DatabaseSpec => []DatabaseTypeOK
<1>1. DatabaseInit => DatabaseTypeOK
  BY DatabaseInitInv DEF DatabaseInv
<1>2. DatabaseTypeOK /\ [DatabaseNext]_databaseVars => DatabaseTypeOK'
  BY DatabaseTypeStep
<1> QED
  BY <1>1, <1>2, PTL DEF DatabaseSpec

-----------------------------------------------------------------------------
(* The version file.                                                       *)

LEMMA VersionsGoOn ==
  ASSUME DatabaseTypeOK, NEW s \in Shells, GoesOn(s)
  PROVE  /\ versions' = versions \/ (Ensuring(s, "record") /\ versions' = release)
         /\ \A f \in FdwFiles : fdw'[f] \in {0, release, fdw[f]}
         /\ ensure'[s].at = "record" => \A f \in FdwFiles : fdw'[f] = release
         /\ Ensuring(s, "prepare") /\ ensure'[s].at = "prepared" => versions = release
         /\ Ensuring(s, "record") /\ ensure'[s] # NoEnsure => versions' = release
<1> USE DatabaseTypes, DiskParts
<1> USE DEF Ensuring, DiskOK
<1>m. /\ ensure[s].at # "idle"
      /\ Moved(s, StepsAfter(ensure[s].at))
  BY GoesOnMoves
<1>a. ensure'[s].at = "record" => Ensuring(s, "fdw") \/ Ensuring(s, "record")
  BY <1>m DEF Moved, NoEnsure, StepsAfter
<1>1. CASE PrepareFdw(s)
  BY <1>m, <1>a, <1>1 DEF PrepareFdw, Moved, NoEnsure, StepsAfter, diskVars, Then, FdwNeedsUpdate
<1>2. CASE PrepareData(s)
  BY <1>m, <1>a, <1>2 DEF PrepareData, Moved, NoEnsure, StepsAfter, diskVars
<1>3. CASE RemovePrevious(s)
  BY <1>m, <1>a, <1>3 DEF RemovePrevious, Moved, NoEnsure, StepsAfter, NoFdw
<1>4. CASE InstallDB(s)
  BY <1>m, <1>a, <1>4 DEF InstallDB, Moved, NoEnsure, StepsAfter
<1>5. CASE InstallFdw(s)
  <2>1. \A f \in FdwFiles : fdw'[f] \in {0, release, fdw[f]}
    BY <1>5 DEF InstallFdw
  <2>2. ASSUME ensure'[s].at = "record", NEW f \in FdwFiles
        PROVE  fdw'[f] = release
    <3>1. ~Fails(s)
      BY <2>2 DEF Fails, NoEnsure
    <3> QED
      BY <1>5, <2>2, <3>1 DEF InstallFdw
  <2> QED
    BY <1>5, <2>1, <2>2 DEF InstallFdw
<1>6. CASE UpdateVersionFileFdw(s)
  <2>1. StepsAfter(ensure[s].at) = {"init", "prepared"}
    BY <1>6 DEF UpdateVersionFileFdw, StepsAfter
  <2>2. ensure'[s].at # "record"
    BY <1>m, <2>1, MovedTo
  <2> QED
    BY <1>6, <2>2 DEF UpdateVersionFileFdw
<1>7. CASE ClearData(s)
  BY <1>m, <1>a, <1>7 DEF ClearData, Moved, NoEnsure, StepsAfter
<1>8. CASE InitDatabase(s)
  BY <1>m, <1>a, <1>8 DEF InitDatabase, Moved, NoEnsure, StepsAfter
<1>9. CASE StartServiceForInstall(s)
  BY <1>m, <1>a, <1>9 DEF StartServiceForInstall, Moved, NoEnsure, StepsAfter, diskVars
<1>10. CASE InstallDatabase(s)
  BY <1>m, <1>a, <1>10 DEF InstallDatabase, Moved, NoEnsure, StepsAfter
<1>11. CASE InstallForeignServer(s)
  BY <1>m, <1>a, <1>11 DEF InstallForeignServer, Moved, NoEnsure, StepsAfter
<1>12. CASE Killed(s)
  BY <1>m, <1>a, <1>12 DEF Killed, Moved, NoEnsure, StepsAfter, Fails, NoEnsure
<1> QED
  BY <1>1, <1>2, <1>3, <1>4, <1>5, <1>6, <1>7, <1>8, <1>9, <1>10, <1>11, <1>12 DEF GoesOn

LEMMA VersionStep ==
  ASSUME DatabaseTypeOK, VersionInv, AloneInstalls, [DatabaseNext]_databaseVars
  PROVE  VersionInv'
<1> USE DatabaseTypes
<1>1. CASE UNCHANGED databaseVars
  BY <1>1 DEF databaseVars, diskVars, VersionInv, Ensuring
<1>2. CASE NewRelease
  <2>1. versions' # release' /\ versions' <= release'
    BY <1>2 DEF NewRelease, diskVars, VersionInv
  <2>2. \A s \in Shells : ~ensure'[s].ok /\ ensure'[s].at = "idle"
    BY <1>2 DEF NewRelease, NoEnsure
  <2> QED
    BY <2>1, <2>2 DEF VersionInv, Ensuring, Initialising
<1>3. ASSUME NEW s \in Shells, EnsureDBInstalled(s)
      PROVE  VersionInv'
  <2>1. \A q \in Shells : /\ ~ensure'[q].ok
                          /\ q # s => ensure'[q].at = ensure[q].at
                          /\ ensure'[s].at \in {"prepare", "clean"}
    BY <1>3 DEF EnsureDBInstalled, EnsureStates
  <2> QED
    BY <1>3, <2>1 DEF EnsureDBInstalled, diskVars, VersionInv, Ensuring, Initialising
<1>4. ASSUME NEW s \in Shells, StartDB(s)
      PROVE  VersionInv'
  BY <1>4 DEF StartDB, VersionInv, Ensuring
<1>5. ASSUME NEW s \in Shells, GoesOn(s)
      PROVE  VersionInv'
  <2>1. /\ ensure[s].at # "idle" /\ ~ensure[s].ok
        /\ Moved(s, StepsAfter(ensure[s].at))
    BY <1>5, GoesOnMoves DEF AloneInstalls
  <2>2. release' = release
    BY <1>5, DiskGoesOn
  <2>3. versions' <= release'
    BY <1>5, <2>2, VersionsGoOn DEF VersionInv
  <2>4. ASSUME versions' = release' \/ (\E q \in Shells : ensure'[q].at = "record"), NEW f \in FdwFiles
        PROVE  fdw'[f] \in {0, release'}
    <3>1. CASE ensure'[s].at = "record"
      BY <1>5, <2>2, <3>1, VersionsGoOn
    <3>2. CASE ensure'[s].at # "record"
      <4>1. versions = release \/ (\E q \in Shells : ensure[q].at = "record")
        BY <1>5, <2>1, <2>2, <2>4, <3>2, VersionsGoOn DEF Moved, Ensuring
      <4>2. fdw[f] \in {0, release}
        BY <4>1 DEF VersionInv, Ensuring
      <4> QED
        BY <1>5, <2>2, <4>2, VersionsGoOn
    <3> QED
      BY <3>1, <3>2
  <2>5. ASSUME NEW q \in Shells,
               ensure'[q].ok \/ ensure'[q].at \in {"prepared", "init", "initdb"} \cup Initialising
        PROVE  versions' = release'
    <3>1. versions = release => versions' = release'
      BY <1>5, <2>2, VersionsGoOn
    <3>2. CASE q # s
      BY <2>1, <2>5, <3>1, <3>2 DEF Moved, VersionInv
    <3>3. CASE q = s
      <4>1. ensure'[s] # NoEnsure
        BY <2>5, <3>3 DEF NoEnsure, Initialising
      <4>2. ensure'[s].at \in StepsAfter(ensure[s].at)
        BY <2>1, <4>1 DEF Moved
      <4>3. CASE Ensuring(s, "record")
        BY <1>5, <2>2, <4>1, <4>3, VersionsGoOn
      <4>4. CASE Ensuring(s, "prepare")
        <5>1. ensure'[s].at \in {"fdw", "prepared"}
          BY <4>2, <4>4 DEF StepsAfter, Ensuring
        <5>2. ~ensure'[s].ok
          BY <2>1, <4>1, <5>1 DEF Moved
        <5>3. ensure'[s].at = "prepared"
          BY <2>5, <3>3, <5>1, <5>2 DEF Initialising
        <5> QED
          BY <1>5, <3>1, <4>4, <5>3, VersionsGoOn
      <4>5. CASE ensure[s].at \in {"clean", "binaries", "fdw"}
        <5>1. ensure'[s].at \in {"binaries", "fdw", "record"}
          BY <4>2, <4>5 DEF StepsAfter
        <5> QED
          BY <2>1, <2>5, <3>3, <4>1, <5>1 DEF Moved, Initialising
      <4>6. CASE ensure[s].at \in {"prepared", "init", "initdb"} \cup Initialising
        BY <3>1, <4>6 DEF VersionInv
      <4> QED
        BY <2>1, <4>3, <4>4, <4>5, <4>6 DEF Ensuring, EnsureStates, EnsureSteps, Initialising
    <3> QED
      BY <3>2, <3>3
  <2> QED
    BY <2>3, <2>4, <2>5 DEF VersionInv, Ensuring
<1> QED
  BY <1>1, <1>2, <1>3, <1>4, <1>5, DatabaseCases

-----------------------------------------------------------------------------
(* Who is alone.                                                           *)

LEMMA FreshRecords ==
  ASSUME DatabaseTypeOK, NEW s \in Shells, GoesOn(s), Ensuring(s, "record"), ensure'[s] # NoEnsure
  PROVE  ensure'[s].at = IF ensure[s].fresh THEN "init" ELSE "prepared"
<1> USE DEF Ensuring
<1>1. UpdateVersionFileFdw(s) \/ Fails(s)
  BY DEF GoesOn, PrepareFdw, PrepareData, RemovePrevious, InstallDB, InstallFdw, ClearData,
         InitDatabase, StartServiceForInstall, InstallDatabase, InstallForeignServer, Killed
<1>2. ~Fails(s)
  BY DatabaseTypes, FailsMoves
<1>3. Then(s, IF ensure[s].fresh THEN "init" ELSE "prepared")
  BY <1>1, <1>2 DEF UpdateVersionFileFdw
<1> QED
  BY <1>3, DatabaseTypes, ThenMoves DEF EnsureSteps

LEMMA AloneInstallsStep ==
  ASSUME DatabaseTypeOK, AloneInstalls, [DatabaseNext]_databaseVars
  PROVE  AloneInstalls'
<1> USE DatabaseTypes
<1>1. CASE UNCHANGED databaseVars
  BY <1>1 DEF databaseVars, AloneInstalls
<1>2. CASE NewRelease
  BY <1>2 DEF NewRelease, NoEnsure, AloneInstalls
<1>3. ASSUME NEW s \in Shells, EnsureDBInstalled(s)
      PROVE  AloneInstalls'
  <2>1. /\ \A q \in Shells : ~ensure'[q].ok
        /\ \A q \in Shells \ {s} : /\ ensure'[q].at = ensure[q].at
                                   /\ ensure'[q].fresh = ensure[q].fresh
                                   /\ ensure'[q].alone = ensure[q].alone
        /\ ensure'[s].alone = (Busy = {})
        /\ ensure'[s].at = IF ensure'[s].fresh THEN "clean" ELSE "prepare"
    BY <1>3 DEF EnsureDBInstalled, EnsureStates
  <2>2. ensure'[s].alone => \A q \in Shells : ensure[q].at = "idle"
    BY <2>1 DEF Busy
  <2> QED
    BY <2>1, <2>2 DEF AloneInstalls
<1>4. ASSUME NEW s \in Shells, StartDB(s)
      PROVE  AloneInstalls'
  BY <1>4 DEF StartDB, AloneInstalls
<1>5. ASSUME NEW s \in Shells, GoesOn(s)
      PROVE  AloneInstalls'
  <2>1. /\ ensure[s].at # "idle" /\ ~ensure[s].ok
        /\ Moved(s, StepsAfter(ensure[s].at))
    BY <1>5, GoesOnMoves DEF AloneInstalls
  <2>2. \/ ensure'[s] = NoEnsure
        \/ /\ ensure'[s].alone = ensure[s].alone
           /\ ensure'[s].fresh = ensure[s].fresh
           /\ ensure'[s].ok => ensure'[s].at = "idle"
           /\ ensure'[s].at \in StepsAfter(ensure[s].at)
    BY <2>1 DEF Moved
  <2>3. /\ ensure'[s].at \in {"clean", "binaries"} => ensure'[s].fresh
        /\ ensure'[s].at \in {"prepare", "prepared"} => ~ensure'[s].fresh
    <3>1. CASE ensure'[s] = NoEnsure
      BY <3>1 DEF NoEnsure
    <3>2. CASE Ensuring(s, "record")
      BY <1>5, <2>2, <3>1, <3>2, FreshRecords
    <3>3. CASE ensure[s].at = "prepare" \/ ensure[s].at = "clean" \/ ensure[s].at = "prepared"
      BY <2>2, <3>1, <3>3 DEF AloneInstalls, StepsAfter
    <3>4. CASE ensure[s].at \notin {"prepare", "clean", "prepared", "record"}
      <4>1. ensure[s].at \in EnsureSteps
        BY DEF EnsureStates
      <4>2. StepsAfter(ensure[s].at) \cap {"clean", "binaries", "prepare", "prepared"} = {}
        BY <4>1, <3>4 DEF StepsAfter, EnsureSteps
      <4> QED
        BY <2>2, <3>1, <4>2
    <3> QED
      BY <3>2, <3>3, <3>4 DEF Ensuring
  <2> QED
    BY <2>1, <2>2, <2>3 DEF Moved, AloneInstalls, NoEnsure
<1> QED
  BY <1>1, <1>2, <1>3, <1>4, <1>5, DatabaseCases

-----------------------------------------------------------------------------
(* The data directory.                                                     *)

LEMMA NothingBusy ==
  ASSUME NEW s \in Shells, Busy = {s}, NEW q \in Shells \ {s}
  PROVE  ensure[q].at = "idle"
BY DEF Busy

LEMMA DataGoesOn ==
  ASSUME DatabaseTypeOK, DataInv, AloneInstalls, NEW s \in Shells, GoesOn(s), ~halfDone'
  PROVE  DataInv'
<1> USE DatabaseTypes, DiskParts
<1> USE DEF Ensuring
<1>m. /\ ensure[s].at # "idle"
      /\ Moved(s, StepsAfter(ensure[s].at))
  BY GoesOnMoves
<1>o. \A q \in Shells \ {s} : ensure'[q] = ensure[q]
  BY <1>m DEF Moved
<1>n. /\ ensure'[s].at \in {"idle"} \cup StepsAfter(ensure[s].at)
      /\ ensure'[s].at # "idle" => ensure'[s].alone = ensure[s].alone
  BY <1>m, MovedTo
<1>c. ASSUME Changes(s)
      PROVE  ~halfDone /\ \A q \in Shells \ {s} : ensure[q].at = "idle"
  BY <1>c, ChangesAlone, NothingBusy
<1>h. ASSUME Halts
      PROVE  ~halfDone /\ NeedsInit
  BY <1>h, HaltsClean DEF NeedsInit
<1>d. ASSUME ~halfDone
      PROVE  /\ ensure[s].at \in {"initdb"} \cup Initialising => ensure[s].alone
             /\ ensure[s].at = "initdb" => NeedsInit
             /\ ensure[s].at \in Initialising => binaries /\ ~NeedsInit
             /\ ensure[s].at = "server" => data.hba = "final" /\ data.database
  BY <1>d DEF DataInv
<1> USE DEF NeedsInit, Initialising
<1>1. CASE PrepareFdw(s)
  BY <1>o, <1>n, <1>1 DEF PrepareFdw, StepsAfter, DataInv, diskVars
<1>2. CASE PrepareData(s)
  BY <1>o, <1>n, <1>2 DEF PrepareData, StepsAfter, DataInv, diskVars
<1>3. CASE RemovePrevious(s)
  BY <1>o, <1>n, <1>c, <1>3 DEF RemovePrevious, StepsAfter, DataInv
<1>4. CASE InstallDB(s)
  BY <1>o, <1>n, <1>c, <1>4 DEF InstallDB, StepsAfter, DataInv
<1>5. CASE InstallFdw(s)
  BY <1>o, <1>n, <1>c, <1>5 DEF InstallFdw, StepsAfter, DataInv
<1>6. CASE UpdateVersionFileFdw(s)
  BY <1>o, <1>n, <1>c, <1>6 DEF UpdateVersionFileFdw, StepsAfter, DataInv
<1>7. CASE ClearData(s)
  <2>1. /\ Busy = {s} /\ ensure[s].alone
    BY <1>7 DEF ClearData
  <2>2. \A q \in Shells \ {s} : ensure[q].at = "idle"
    BY <2>1, NothingBusy
  <2>3. ensure'[s].at \in {"initdb", "idle"}
    BY <1>n, <1>7 DEF ClearData, StepsAfter
  <2>4. data'.hba = "none"
    BY <1>7 DEF ClearData, NoData
  <2> QED
    BY <1>o, <1>n, <2>1, <2>2, <2>3, <2>4 DEF DataInv
<1>8. CASE InitDatabase(s)
  <2>1. ~halfDone /\ ensure[s].alone /\ NeedsInit /\ ensure[s].at = "initdb"
    BY <1>8, <1>c, <1>h, <1>d DEF InitDatabase
  <2>2. ensure'[s].at \in {"start", "idle"}
    BY <1>n, <2>1 DEF StepsAfter
  <2>3. CASE ensure'[s].at = "start"
    <3>1. ~Fails(s)
      BY <2>3, FailsMoves DEF NoEnsure
    <3>2. Changes(s) /\ binaries' /\ data'.hba = "minimal"
      BY <1>8, <3>1 DEF InitDatabase, DiskOK
    <3>3. \A q \in Shells \ {s} : ensure'[q].at = "idle"
      BY <1>o, <1>c, <3>2
    <3>4. ensure'[s].alone
      BY <1>n, <2>1, <2>3
    <3> QED
      BY <2>3, <3>2, <3>3, <3>4 DEF DataInv
  <2>4. CASE ensure'[s].at = "idle"
    <3>1. ~Then(s, "start")
      <4>1. "start" \in EnsureSteps \ {"idle"}
        BY DEF EnsureSteps
      <4>2. Then(s, "start") => ensure'[s].at = "start"
        BY <4>1, ThenMoves
      <4> QED
        BY <2>4, <4>2
    <3>2. UNCHANGED <<data, binaries, postgres>>
      BY <1>8, <3>1 DEF InitDatabase
    <3> QED
      BY <1>o, <2>1, <2>4, <3>2 DEF DataInv
  <2> QED
    BY <2>2, <2>3, <2>4
<1>9. CASE StartServiceForInstall(s)
  <2>1. ensure[s].at = "start" /\ UNCHANGED <<data, binaries>>
    BY <1>9 DEF StartServiceForInstall, diskVars
  <2>2. ~Halts
    BY <1>h, <1>d, <2>1
  <2>3. ~halfDone /\ Then(s, "configure") /\ Changes(s)
    BY <1>9, <1>c, <2>2 DEF StartServiceForInstall
  <2>a. ensure[s].alone
    BY <1>d, <2>1, <2>3
  <2>b. ensure'[s].at = "configure"
    BY <2>3, ThenMoves DEF EnsureSteps
  <2>4. ensure'[s].at = "configure" /\ ensure'[s].alone
    BY <1>n, <2>a, <2>b
  <2> QED
    BY <1>o, <1>c, <1>d, <2>1, <2>3, <2>4 DEF DataInv
<1>10. CASE InstallDatabase(s)
  <2>1. ensure[s].at = "configure" /\ binaries' = binaries
    BY <1>10 DEF InstallDatabase
  <2>2. ~Halts
    BY <1>h, <1>d, <2>1
  <2>3. /\ ~halfDone /\ Then(s, "server") /\ Changes(s)
        /\ data' = [data EXCEPT !.database = TRUE, !.hba = "final"]
    BY <1>10, <1>c, <2>2 DEF InstallDatabase
  <2>a. ensure[s].alone
    BY <1>d, <2>1, <2>3
  <2>b. ensure'[s].at = "server"
    BY <2>3, ThenMoves DEF EnsureSteps
  <2>4. ensure'[s].at = "server" /\ ensure'[s].alone
    BY <1>n, <2>a, <2>b
  <2>5. data'.hba = "final" /\ data'.database
    BY <2>3 DEF DiskOK
  <2> QED
    BY <1>o, <1>c, <1>d, <2>1, <2>3, <2>4, <2>5 DEF DataInv
<1>11. CASE InstallForeignServer(s)
  <2>1. ensure[s].at = "server" /\ Changes(s) /\ ~postgres'
    BY <1>11 DEF InstallForeignServer
  <2>2. data'.hba = data.hba /\ data'.database = data.database
    BY <1>11 DEF InstallForeignServer, DiskOK
  <2>3. ensure'[s].at = "idle"
    BY <1>n, <2>1 DEF StepsAfter
  <2> QED
    BY <1>o, <1>c, <1>d, <2>1, <2>2, <2>3 DEF DataInv
<1>12. CASE Killed(s)
  <2>1. ensure'[s].at = "idle" /\ UNCHANGED <<binaries, postgres>>
    BY <1>12, FailsMoves DEF Killed, NoEnsure
  <2>2. ~halfDone /\ data' = data /\ (ensure[s].at \in Initialising => NeedsInit)
    <3>1. CASE Ensuring(s, "initdb") /\ binaries
      <4>1. PICK hba \in {"none", "initdb"} :
              /\ data' = [data EXCEPT !.hba = IF @ = "none" THEN hba ELSE @]
              /\ halfDone' = (halfDone \/ data'.hba # "none")
        BY <1>12, <3>1 DEF Killed
      <4>2. ~halfDone /\ data'.hba = "none"
        BY <4>1
      <4>3. data' = data
        BY <4>1, <4>2 DEF DiskOK
      <4> QED
        BY <3>1, <4>2, <4>3
    <3>2. CASE ~(Ensuring(s, "initdb") /\ binaries)
      BY <1>12, <1>h, <3>2 DEF Killed
    <3> QED
      BY <3>1, <3>2
  <2>3. ensure[s].at \notin Initialising
    BY <1>d, <2>2
  <2> QED
    BY <1>o, <2>1, <2>2, <2>3 DEF DataInv
<1> QED
  BY <1>1, <1>2, <1>3, <1>4, <1>5, <1>6, <1>7, <1>8, <1>9, <1>10, <1>11, <1>12 DEF GoesOn

LEMMA DataStep ==
  ASSUME DatabaseTypeOK, DataInv, AloneInstalls, [DatabaseNext]_databaseVars
  PROVE  DataInv'
<1> USE DatabaseTypes, DiskParts
<1>1. CASE UNCHANGED databaseVars
  BY <1>1 DEF databaseVars, diskVars, DataInv, NeedsInit
<1>2. CASE NewRelease
  <2>1. \A s \in Shells : ensure'[s].at = "idle"
    BY <1>2 DEF NewRelease, NoEnsure
  <2>2. \A s \in Shells : ensure[s].at = "idle"
    BY <1>2 DEF NewRelease, Busy
  <2> QED
    BY <1>2, <2>1, <2>2 DEF NewRelease, diskVars, DataInv, NeedsInit, Initialising
<1>3. ASSUME NEW s \in Shells, EnsureDBInstalled(s)
      PROVE  DataInv'
  <2>1. /\ \A q \in Shells \ {s} : ensure'[q].at = ensure[q].at /\ ensure'[q].alone = ensure[q].alone
        /\ ensure[s].at = "idle" /\ ensure'[s].at \in {"prepare", "clean"}
    BY <1>3 DEF EnsureDBInstalled, EnsureStates, Ensuring
  <2> QED
    BY <1>3, <2>1 DEF EnsureDBInstalled, diskVars, DataInv, NeedsInit, Initialising
<1>4. ASSUME NEW s \in Shells, StartDB(s)
      PROVE  DataInv'
  <2>1. data'.hba = data.hba /\ data'.database = data.database
    BY <1>4 DEF StartDB, DiskOK
  <2> QED
    BY <1>4, <2>1 DEF StartDB, DataInv, NeedsInit
<1>5. ASSUME NEW s \in Shells, GoesOn(s)
      PROVE  DataInv'
  BY <1>5, DataGoesOn DEF DataInv
<1> QED
  BY <1>1, <1>2, <1>3, <1>4, <1>5, DatabaseCases

-----------------------------------------------------------------------------
(* The commands that find everything installed.                            *)

(* What such a command does before it gets to the data directory. *)
LEMMA PreparingGoesOn ==
  ASSUME DatabaseTypeOK, AloneInstalls, NEW s \in Shells, GoesOn(s),
         ensure[s].at \in Preparing, ~ensure[s].fresh, IsInstalled
  PROVE  /\ IsInstalled' /\ data' = data
         /\ postgres' = postgres \/ (NeedsInit /\ ~postgres')
         /\ ~halfDone' => ~halfDone
         /\ ensure'[s].at # "idle" =>
              /\ ~ensure'[s].fresh
              /\ ensure'[s].at \in Preparing \cup IF NeedsInit THEN {"init"} ELSE {}
         /\ ensure'[s].ok => Ensuring(s, "prepared") /\ ~NeedsInit
<1> USE DatabaseTypes, DiskParts
<1> USE DEF Ensuring
<1>m. Moved(s, StepsAfter(ensure[s].at)) /\ ensure[s].at # "idle" /\ ~ensure[s].ok
  BY GoesOnMoves DEF AloneInstalls
<1>n. /\ ensure'[s].at \in {"idle"} \cup StepsAfter(ensure[s].at)
      /\ ensure'[s].at # "idle" => ensure'[s].fresh = ensure[s].fresh /\ ensure'[s].ok = ensure[s].ok
  BY <1>m, MovedTo
<1>i. ensure'[s].at = "idle" /\ ensure'[s].ok => "idle" \in StepsAfter(ensure[s].at)
  BY <1>m DEF Moved, NoEnsure
<1>1. CASE PrepareFdw(s)
  <2>1. StepsAfter(ensure[s].at) = {"fdw", "prepared"} /\ ensure[s].at = "prepare"
    BY <1>1 DEF PrepareFdw, StepsAfter
  <2> QED
    BY <1>1, <1>m, <1>n, <1>i, <2>1 DEF PrepareFdw, diskVars, IsInstalled, FdwInstalled, Preparing
<1>2. CASE PrepareData(s)
  <2>1. StepsAfter(ensure[s].at) = {"init", "idle"} /\ ensure[s].at = "prepared"
    BY <1>2 DEF PrepareData, StepsAfter
  <2>2. UNCHANGED <<diskVars, halfDone>>
    BY <1>2 DEF PrepareData
  <2>3. CASE NeedsInit
    <3>1. Then(s, "init") /\ ~postgres'
      BY <1>2, <2>3 DEF PrepareData
    <3>2. ensure'[s].at = "init"
      BY <3>1, ThenMoves DEF EnsureSteps
    <3> QED
      BY <1>m, <1>n, <2>1, <2>2, <2>3, <3>1, <3>2 DEF diskVars, IsInstalled, FdwInstalled
  <2>4. CASE ~NeedsInit
    <3>1. Succeeds(s) /\ postgres' = postgres
      BY <1>2, <2>4 DEF PrepareData
    <3>2. ensure'[s].at = "idle"
      BY <3>1, SucceedsMoves
    <3> QED
      BY <2>1, <2>2, <2>4, <3>1, <3>2 DEF diskVars, IsInstalled, FdwInstalled
  <2> QED
    BY <2>3, <2>4
<1>3. CASE InstallFdw(s)
  <2>1. StepsAfter(ensure[s].at) = {"record"} /\ ensure[s].at = "fdw"
    BY <1>3 DEF InstallFdw, StepsAfter
  <2>2. \A f \in FdwFiles : fdw'[f] # 0
    BY <1>3 DEF InstallFdw, IsInstalled, FdwInstalled, DiskOK
  <2>3. ~halfDone' => ~halfDone
    BY <1>3, ChangesAlone DEF InstallFdw
  <2> QED
    BY <1>3, <1>m, <1>n, <1>i, <2>1, <2>2, <2>3 DEF InstallFdw, IsInstalled, FdwInstalled, Preparing
<1>4. CASE UpdateVersionFileFdw(s)
  <2>1. StepsAfter(ensure[s].at) = {"init", "prepared"} /\ ensure[s].at = "record"
    BY <1>4 DEF UpdateVersionFileFdw, StepsAfter
  <2>2. ensure'[s].at \in {"idle", "prepared"}
    BY FreshRecords, <2>1 DEF NoEnsure
  <2>3. ~halfDone' => ~halfDone
    BY <1>4, ChangesAlone DEF UpdateVersionFileFdw
  <2> QED
    BY <1>4, <1>m, <1>n, <1>i, <2>1, <2>2, <2>3
       DEF UpdateVersionFileFdw, IsInstalled, FdwInstalled, Preparing
<1>5. CASE Killed(s)
  <2>1. ensure'[s].at = "idle" /\ ~ensure'[s].ok
    BY <1>5, FailsMoves DEF Killed, NoEnsure
  <2> QED
    BY <1>5, <2>1 DEF Killed, IsInstalled, FdwInstalled, Preparing
<1> QED
  BY <1>1, <1>2, <1>3, <1>4, <1>5
     DEF GoesOn, Preparing, RemovePrevious, InstallDB, ClearData,
         InitDatabase, StartServiceForInstall, InstallDatabase, InstallForeignServer

LEMMA InitGoesOn ==
  ASSUME DatabaseTypeOK, NEW s \in Shells, GoesOn(s), ensure[s].at = "init", ~ClearData(s)
  PROVE  /\ UNCHANGED <<diskVars, postgres, halfDone>>
         /\ ensure'[s].at = "idle" /\ ~ensure'[s].ok
<1>1. Killed(s)
  BY DEF GoesOn, Ensuring, PrepareFdw, PrepareData, RemovePrevious, InstallDB, InstallFdw,
         UpdateVersionFileFdw, InitDatabase, StartServiceForInstall, InstallDatabase,
         InstallForeignServer
<1>2. ensure'[s] = NoEnsure
  BY <1>1, DatabaseTypes, FailsMoves DEF Killed
<1> QED
  BY <1>1, <1>2 DEF Killed, NoEnsure, Ensuring, diskVars

(* Another command that is at one of the steps goes on. *)
LEMMA OthersGoOn ==
  ASSUME DatabaseTypeOK, AloneInstalls, NEW s \in Shells, NEW p \in Shells \ {s}, GoesOn(p),
         OthersPrepare(s, Preparing \cup IF NeedsInit THEN {"init"} ELSE {}), ~ClearData(p)
  PROVE  /\ OthersPrepare(s, Preparing \cup IF NeedsInit THEN {"init"} ELSE {})'
         /\ data' = data /\ (postgres' = postgres \/ (NeedsInit /\ ~postgres'))
         /\ ~halfDone' => ~halfDone
<1>1. Moved(p, StepsAfter(ensure[p].at)) /\ ensure[p].at # "idle"
  BY GoesOnMoves
<1>2. p \in Busy
  BY <1>1 DEF Busy
<1>3. /\ IsInstalled /\ ~ensure[p].fresh
      /\ ensure[p].at \in Preparing \cup IF NeedsInit THEN {"init"} ELSE {}
  BY <1>2 DEF OthersPrepare
<1>4. /\ IsInstalled' /\ data' = data
      /\ postgres' = postgres \/ (NeedsInit /\ ~postgres')
      /\ ~halfDone' => ~halfDone
      /\ ensure'[p].at # "idle" =>
           /\ ~ensure'[p].fresh
           /\ ensure'[p].at \in Preparing \cup IF NeedsInit THEN {"init"} ELSE {}
  <2>1. CASE ensure[p].at \in Preparing
    BY <1>3, <2>1, PreparingGoesOn
  <2>2. CASE ensure[p].at = "init"
    BY <1>3, <2>2, InitGoesOn DEF diskVars, IsInstalled, FdwInstalled
  <2> QED
    BY <1>3, <2>1, <2>2
<1>5. NeedsInit' = NeedsInit
  BY <1>4 DEF NeedsInit
<1>6. ASSUME NEW q \in Shells \ {s}, ensure'[q].at # "idle"
      PROVE  ~ensure'[q].fresh /\ ensure'[q].at \in Preparing \cup IF NeedsInit THEN {"init"} ELSE {}
  <2>1. CASE q = p
    BY <1>4, <1>6, <2>1
  <2>2. CASE q # p
    <3>1. ensure'[q] = ensure[q]
      BY <1>1, <2>2 DEF Moved
    <3> QED
      BY <1>6, <3>1 DEF OthersPrepare, Busy
  <2> QED
    BY <2>1, <2>2
<1> QED
  BY <1>4, <1>5, <1>6 DEF OthersPrepare, Busy

LEMMA PrepareStep ==
  ASSUME DatabaseTypeOK, AloneInstalls, PrepareInv, [DatabaseNext]_databaseVars
  PROVE  PrepareInv'
<1> USE DatabaseTypes
<1> DEFINE Allowed == Preparing \cup IF NeedsInit THEN {"init"} ELSE {}
<1> SUFFICES ASSUME ~halfDone', NEW s \in Shells,
                    ensure'[s].alone, ~ensure'[s].fresh, ensure'[s].at \in Preparing
             PROVE  OthersPrepare(s, Allowed)'
  BY DEF PrepareInv
<1>0. ensure'[s].at # "idle"
  BY DEF Preparing
<1>a. ASSUME ~halfDone, ensure[s].alone, ~ensure[s].fresh, ensure[s].at \in Preparing
      PROVE  OthersPrepare(s, Allowed)
  BY <1>a DEF PrepareInv
<1>1. CASE UNCHANGED databaseVars
  BY <1>1, <1>a DEF databaseVars, diskVars, OthersPrepare, IsInstalled, FdwInstalled, NeedsInit, Busy
<1>2. CASE NewRelease
  BY <1>0, <1>2 DEF NewRelease, NoEnsure
<1>3. ASSUME NEW p \in Shells, EnsureDBInstalled(p)
      PROVE  OthersPrepare(s, Allowed)'
  <2>1. UNCHANGED <<diskVars, halfDone>>
    BY <1>3 DEF EnsureDBInstalled
  <2>2. /\ \A q \in Shells \ {p} : /\ ensure'[q].at = ensure[q].at
                                   /\ ensure'[q].fresh = ensure[q].fresh
                                   /\ ensure'[q].alone = ensure[q].alone
        /\ ensure'[p].alone = (Busy = {}) /\ ensure'[p].fresh = ~IsInstalled
        /\ ensure'[p].at = IF IsInstalled THEN "prepare" ELSE "clean"
    BY <1>3 DEF EnsureDBInstalled, EnsureStates
  <2>3. IsInstalled' = IsInstalled /\ NeedsInit' = NeedsInit
    BY <2>1 DEF diskVars, IsInstalled, FdwInstalled, NeedsInit
  <2>4. CASE p = s
    <3>1. IsInstalled /\ \A q \in Shells \ {s} : ensure'[q].at = "idle"
      BY <2>2, <2>4 DEF Busy
    <3> QED
      BY <2>3, <3>1 DEF OthersPrepare, Busy
  <2>5. CASE p # s
    <3>1. OthersPrepare(s, Allowed)
      BY <1>a, <2>1, <2>2, <2>5
    <3> QED
      BY <2>2, <2>3, <3>1 DEF OthersPrepare, Busy, Preparing
  <2> QED
    BY <2>4, <2>5
<1>4. ASSUME NEW p \in Shells, StartDB(p)
      PROVE  OthersPrepare(s, Allowed)'
  <2>1. data'.hba = data.hba
    BY <1>4, DiskParts DEF StartDB, DiskOK
  <2> QED
    BY <1>4, <1>a, <2>1 DEF StartDB, OthersPrepare, IsInstalled, FdwInstalled, NeedsInit, Busy
<1>5. ASSUME NEW p \in Shells, GoesOn(p)
      PROVE  OthersPrepare(s, Allowed)'
  <2>1. Moved(p, StepsAfter(ensure[p].at)) /\ ensure[p].at # "idle"
    BY <1>5, GoesOnMoves
  <2>2. CASE p = s
    <3>1. /\ ensure'[s].at \in StepsAfter(ensure[s].at)
          /\ ensure[s].alone /\ ~ensure[s].fresh
      BY <1>0, <2>1, <2>2, MovedTo
    <3>2. ensure[s].at \in {"prepare", "fdw", "record"}
      <4>1. ensure[s].at \in EnsureSteps
        BY DEF EnsureStates
      <4>2. ensure[s].at \notin {"clean", "binaries"}
        BY <3>1 DEF AloneInstalls
      <4> QED
        BY <3>1, <4>1, <4>2 DEF StepsAfter, EnsureSteps, Preparing
    <3>3. ~halfDone
      <4>1. ~Fails(s)
        BY <1>0, FailsMoves DEF NoEnsure
      <4> QED
        BY <1>5, <2>2, <3>2, <4>1, ChangesAlone
           DEF GoesOn, Ensuring, PrepareFdw, PrepareData, RemovePrevious, InstallDB, InstallFdw,
               UpdateVersionFileFdw, ClearData, InitDatabase, StartServiceForInstall,
               InstallDatabase, InstallForeignServer, Killed
    <3>4. OthersPrepare(s, Allowed)
      BY <1>a, <3>1, <3>2, <3>3 DEF Preparing
    <3>5. IsInstalled' /\ data' = data
      BY <1>5, <2>2, <3>1, <3>2, <3>4, PreparingGoesOn DEF OthersPrepare, Preparing
    <3> QED
      BY <2>1, <2>2, <3>4, <3>5 DEF OthersPrepare, Moved, NeedsInit, Busy
  <2>3. CASE p # s
    <3>1. ensure'[s] = ensure[s]
      BY <2>1, <2>3 DEF Moved
    <3>2. ~ClearData(p)
      BY <1>0, <2>3, <3>1 DEF ClearData, Busy
    <3>3. ~halfDone
      <4>1. ASSUME halfDone
            PROVE  halfDone'
        BY <1>5, <3>2, <4>1
           DEF GoesOn, PrepareFdw, PrepareData, RemovePrevious, InstallDB, InstallFdw,
               UpdateVersionFileFdw, InitDatabase, StartServiceForInstall,
               InstallDatabase, InstallForeignServer, Killed, Changes, Halts
      <4> QED
        BY <4>1
    <3>4. OthersPrepare(s, Allowed)
      BY <1>a, <3>1, <3>3
    <3> QED
      BY <1>5, <2>3, <3>2, <3>4, OthersGoOn
  <2> QED
    BY <2>2, <2>3
<1> QED
  BY <1>1, <1>2, <1>3, <1>4, <1>5, DatabaseCases

-----------------------------------------------------------------------------
(* The commands that have ended well, alone.                               *)

(* Only the last step of a first installation and the check of the data    *)
(* directory end well.                                                     *)
LEMMA EndsWell ==
  ASSUME DatabaseTypeOK, AloneInstalls, NEW s \in Shells, GoesOn(s), ensure'[s].ok
  PROVE  /\ ensure[s].alone = ensure'[s].alone
         /\ \/ PrepareData(s) /\ ~NeedsInit /\ postgres' = postgres
            \/ /\ InstallForeignServer(s) /\ FdwInstalled
               /\ data' = [data EXCEPT !.server = TRUE]
<1> USE DatabaseTypes
<1>1. ~Fails(s)
  BY FailsMoves DEF NoEnsure
<1>2. ensure[s].at # "idle" /\ ~ensure[s].ok /\ Moved(s, StepsAfter(ensure[s].at))
  BY GoesOnMoves DEF AloneInstalls
<1>3. ASSUME NEW step \in EnsureSteps \ {"idle"}, Then(s, step)
      PROVE  FALSE
  <2>1. ensure'[s].at # "idle"
    BY <1>3, ThenMoves
  <2> QED
    BY <1>2, <2>1, MovedTo
<1>4. \A step \in EnsureSteps \ {"idle"} : ~Then(s, step)
  BY <1>3
<1>5. PrepareData(s) \/ InstallForeignServer(s)
  BY <1>1, <1>4 DEF EnsureSteps, GoesOn, PrepareFdw, RemovePrevious, InstallDB, InstallFdw,
     UpdateVersionFileFdw, ClearData, InitDatabase, StartServiceForInstall, InstallDatabase, Killed
<1>6. ensure[s].alone = ensure'[s].alone
  <2>1. ensure'[s] # NoEnsure
    BY DEF NoEnsure
  <2> QED
    BY <1>2, <2>1 DEF Moved
<1>7. ASSUME PrepareData(s)
      PROVE  ~NeedsInit /\ postgres' = postgres
  BY <1>7, <1>4 DEF EnsureSteps, PrepareData
<1>8. ASSUME InstallForeignServer(s)
      PROVE  FdwInstalled /\ data' = [data EXCEPT !.server = TRUE]
  BY <1>8, <1>1 DEF InstallForeignServer
<1> QED
  BY <1>5, <1>6, <1>7, <1>8

LEMMA UsableStep ==
  ASSUME DatabaseTypeOK, AloneInstalls, PrepareInv, DataInv, UsableInv, [DatabaseNext]_databaseVars
  PROVE  UsableInv'
<1> USE DatabaseTypes, DiskParts
<1> DEFINE Complete == data.hba = "final" /\ data.database /\ ~postgres
<1> SUFFICES ASSUME ~halfDone', NEW s \in Shells, ensure'[s].ok, ensure'[s].alone
             PROVE  OthersPrepare(s, Preparing)' /\ Complete'
  BY DEF UsableInv
<1>a. ASSUME ~halfDone, ensure[s].ok, ensure[s].alone
      PROVE  OthersPrepare(s, Preparing) /\ Complete
  BY <1>a DEF UsableInv
<1>1. CASE UNCHANGED databaseVars
  BY <1>1, <1>a DEF databaseVars, diskVars, OthersPrepare, IsInstalled, FdwInstalled, Busy
<1>2. CASE NewRelease
  BY <1>2 DEF NewRelease, NoEnsure
<1>3. ASSUME NEW p \in Shells, EnsureDBInstalled(p)
      PROVE  FALSE
  BY <1>3 DEF EnsureDBInstalled, EnsureStates
<1>4. ASSUME NEW p \in Shells, StartDB(p)
      PROVE  OthersPrepare(s, Preparing)' /\ Complete'
  <2>1. data'.hba = data.hba /\ data'.database = data.database
    BY <1>4 DEF StartDB, DiskOK
  <2> QED
    BY <1>4, <1>a, <2>1 DEF StartDB, OthersPrepare, IsInstalled, FdwInstalled, Busy
<1>5. ASSUME NEW p \in Shells, GoesOn(p), p # s
      PROVE  OthersPrepare(s, Preparing)' /\ Complete'
  <2>1. Moved(p, StepsAfter(ensure[p].at)) /\ ensure[p].at # "idle" /\ ensure'[s] = ensure[s]
    BY <1>5, GoesOnMoves DEF Moved
  <2>2. ~ensure[p].alone
    BY <1>5, <2>1 DEF AloneInstalls
  <2>3. ~ClearData(p)
    BY <2>2 DEF ClearData
  <2>4. ~halfDone
    <3>1. ASSUME halfDone
          PROVE  halfDone'
      BY <1>5, <2>3, <3>1
         DEF GoesOn, PrepareFdw, PrepareData, RemovePrevious, InstallDB, InstallFdw,
             UpdateVersionFileFdw, InitDatabase, StartServiceForInstall,
             InstallDatabase, InstallForeignServer, Killed, Changes, Halts
    <3> QED
      BY <3>1
  <2>5. OthersPrepare(s, Preparing) /\ Complete
    BY <1>a, <2>1, <2>4
  <2>6. ~NeedsInit
    BY <2>5 DEF NeedsInit
  <2>7. OthersPrepare(s, Preparing \cup IF NeedsInit THEN {"init"} ELSE {})
    BY <2>5 DEF OthersPrepare
  <2>8. /\ OthersPrepare(s, Preparing \cup IF NeedsInit THEN {"init"} ELSE {})'
        /\ data' = data /\ postgres' = postgres
    BY <1>5, <2>3, <2>6, <2>7, OthersGoOn
  <2>9. ~NeedsInit'
    BY <2>6, <2>8 DEF NeedsInit
  <2> QED
    BY <2>5, <2>8, <2>9 DEF OthersPrepare
<1>6. ASSUME GoesOn(s)
      PROVE  OthersPrepare(s, Preparing)' /\ Complete'
  <2>1. /\ ensure[s].alone /\ ensure[s].at # "idle" /\ Moved(s, StepsAfter(ensure[s].at))
    BY <1>6, EndsWell, GoesOnMoves
  <2>2. CASE PrepareData(s) /\ ~NeedsInit /\ postgres' = postgres
    <3>1. /\ ensure[s].at = "prepared" /\ UNCHANGED <<diskVars, halfDone>>
      BY <2>2 DEF PrepareData, Ensuring
    <3>2. ~halfDone /\ ~ensure[s].fresh
      BY <3>1 DEF AloneInstalls
    <3>3. OthersPrepare(s, Preparing \cup IF NeedsInit THEN {"init"} ELSE {})
      BY <2>1, <3>1, <3>2 DEF PrepareInv, Preparing
    <3>4. OthersPrepare(s, Preparing)
      BY <2>2, <3>3 DEF OthersPrepare
    <3>5. \A q \in Shells : ensure[q].at \notin Initialising
      BY <3>1, <3>4 DEF OthersPrepare, Busy, Preparing, Initialising
    <3>6. Complete
      BY <2>2, <3>2, <3>5 DEF DataInv
    <3> QED
      BY <2>1, <2>2, <3>1, <3>4, <3>6 DEF Moved, OthersPrepare, Busy, IsInstalled, FdwInstalled, diskVars
  <2>3. CASE /\ InstallForeignServer(s) /\ FdwInstalled
             /\ data' = [data EXCEPT !.server = TRUE]
    <3>1. /\ ensure[s].at = "server" /\ Changes(s) /\ ~postgres'
          /\ UNCHANGED <<binaries, fdw>>
      BY <2>3 DEF InstallForeignServer, Ensuring
    <3>2. ~halfDone /\ \A q \in Shells \ {s} : ensure[q].at = "idle"
      BY <3>1, ChangesAlone, NothingBusy
    <3>3. binaries /\ data.hba = "final" /\ data.database
      BY <3>1, <3>2 DEF DataInv, Initialising
    <3>4. data'.hba = data.hba /\ data'.database = data.database
      BY <2>3 DEF DiskOK
    <3>5. \A q \in Shells \ {s} : ensure'[q].at = "idle"
      BY <2>1, <3>2 DEF Moved
    <3> QED
      BY <2>3, <3>1, <3>3, <3>4, <3>5 DEF OthersPrepare, Busy, IsInstalled, FdwInstalled
  <2> QED
    BY <1>6, <2>2, <2>3, EndsWell
<1> QED
  BY <1>1, <1>2, <1>3, <1>4, <1>5, <1>6, DatabaseCases

-----------------------------------------------------------------------------
LEMMA DatabaseInvStep ==
  ASSUME DatabaseInv, [DatabaseNext]_databaseVars
  PROVE  DatabaseInv'
BY DatabaseTypeStep, VersionStep, AloneInstallsStep, PrepareStep, DataStep, UsableStep DEF DatabaseInv

LEMMA DatabaseInvUsable == DatabaseInv => InstalledIsUsable
<1> SUFFICES ASSUME DatabaseInv, NEW s \in Shells, ensure[s].ok, ensure[s].alone, ~halfDone
             PROVE  /\ CanStart
                    /\ data.hba = "final"
                    /\ \A f \in FdwFiles : fdw[f] = release
  BY DEF InstalledIsUsable
<1>1. IsInstalled /\ data.hba = "final" /\ data.database /\ ~postgres
  BY DEF DatabaseInv, UsableInv, OthersPrepare
<1>2. versions = release
  BY DEF DatabaseInv, VersionInv
<1>3. \A f \in FdwFiles : fdw[f] \in {0, release}
  BY <1>2 DEF DatabaseInv, VersionInv
<1> QED
  BY <1>1, <1>3 DEF CanStart, IsInstalled, FdwInstalled

(* InstalledIsUsableCorrect: whatever releases are installed and wherever  *)
(* an installation is killed before initdb, EnsureDBInstalled returns      *)
(* without an error only when postgres can start on a finished data        *)
(* directory and all three files of the FDW are those of the release.      *)
THEOREM InstalledIsUsableCorrect == DatabaseSpec => []InstalledIsUsable
<1>1. DatabaseInv /\ [DatabaseNext]_databaseVars => DatabaseInv'
  BY DatabaseInvStep
<1> QED
  BY DatabaseInitInv, <1>1, DatabaseInvUsable, PTL DEF DatabaseSpec
-----------------------------------------------------------------------------
(***************************************************************************)
(* WorkspaceLoad: the workspace and its input variables.                   *)
(***************************************************************************)

LoadSteps == {"idle", "declare", "collect", "missing", "ask", "parse", "load", "exit"}
Loads == [at : LoadSteps, asked : BOOLEAN, block : {"no", "required", "default"}, next : 1..7,
          value : Values, source : Range(Sources) \cup {"none"}, broken : BOOLEAN]

(* The types, that of the load as well. *)
LoadTypes ==
  /\ declared \in {"no", "required", "default"}
  /\ given \in [Range(Sources) -> Values \cup {"broken"}]
  /\ loader \in Loads
  /\ workspace \in {"unloaded", "none", "default"} \cup Range(Sources)
  /\ refersTo \in BOOLEAN /\ failed \in BOOLEAN /\ changed \in BOOLEAN /\ stale \in BOOLEAN
  /\ edits \in 0..MaxEdits
  /\ loader.at \in {"idle", "declare", "collect"} => loader.next \in 1..6
  /\ loader.at \in {"missing", "ask", "parse", "load"} => loader.next = 7

(* What a load has collected from the sources before the next one is what  *)
(* they have: whether one is broken, and the last value.                   *)
CollectedInv ==
  LET before == 1..(loader.next - 1) IN
  /\ loader.broken = (\E i \in before : given[Sources[i]] = "broken")
  /\ loader.source = "none" => loader.value = "none" /\ Setting \cap before = {}
  /\ loader.source # "none" =>
       \E m \in Setting \cap before :
         /\ loader.source = Sources[m] /\ loader.value = given[Sources[m]]
         /\ \A j \in Setting \cap before : j <= m

NothingCollected ==
  loader.next = 1 /\ loader.value = "none" /\ loader.source = "none" /\ ~loader.broken
Loading == {"collect", "missing", "ask", "parse", "load"}
MissingValue == loader.block = "required" /\ loader.value = "none"
Refused == IF loader.block = "no" THEN loader.source \in {"args", "prompt"} ELSE loader.value = "bad"

(* As long as no file has changed, a load has the declaration and the      *)
(* values of the files, and each step was taken for its reason.            *)
LoadedSoFar ==
  /\ loader.block = declared
  /\ CollectedInv
  /\ loader.at = "ask" => MissingValue
  /\ loader.at \in {"parse", "load"} => ~loader.broken /\ ~MissingValue
  /\ loader.at = "load" => ~Refused
LoadInv ==
  /\ loader.at = "declare" => NothingCollected
  /\ ~changed /\ loader.at \in Loading => LoadedSoFar

WorkspaceInv == LoadTypes /\ LoadInv /\ LoadedIfValid

LEMMA SourcesFacts ==
  /\ DOMAIN Sources = 1..6 /\ Len(Sources) = 6
  /\ Range(Sources) = {"env", "defaultFile", "autoFiles", "varFiles", "args", "prompt"}
  /\ \A i \in 1..6 : Sources[i] \in Range(Sources) /\ (Sources[i] = "prompt" <=> i = 6)
  /\ \A i, j \in 1..6 : Sources[i] = Sources[j] => i = j
<1>1. DOMAIN Sources = 1..6 /\ Len(Sources) = 6
  BY DEF Sources
<1>2. /\ Sources[1] = "env" /\ Sources[2] = "defaultFile" /\ Sources[3] = "autoFiles"
      /\ Sources[4] = "varFiles" /\ Sources[5] = "args" /\ Sources[6] = "prompt"
  BY DEF Sources
<1>3. \A i \in 1..6 : i = 1 \/ i = 2 \/ i = 3 \/ i = 4 \/ i = 5 \/ i = 6
  OBVIOUS
<1>4. 1 \in 1..6 /\ 2 \in 1..6 /\ 3 \in 1..6 /\ 4 \in 1..6 /\ 5 \in 1..6 /\ 6 \in 1..6
  OBVIOUS
<1> HIDE DEF Sources
<1>5. Range(Sources) = {"env", "defaultFile", "autoFiles", "varFiles", "args", "prompt"}
  BY <1>1, <1>2, <1>3, <1>4 DEF Range
<1> QED
  BY <1>1, <1>2, <1>3, <1>5

(* What the sources say, when the last of them that has a value is known. *)
LEMMA SettingFacts ==
  /\ Setting \subseteq 1..6
  /\ Setting = {} => Effective = "default"
  /\ \A m \in Setting : (\A j \in Setting : j <= m) => Effective = Sources[m]
<1>1. Setting \subseteq 1..6
  BY SourcesFacts DEF Setting
<1>2. ASSUME NEW m \in Setting, \A j \in Setting : j <= m
      PROVE  Effective = Sources[m]
  <2>1. \A i \in Setting : (\A j \in Setting : j <= i) => i = m
    BY <1>1, <1>2
  <2>2. (CHOOSE i \in Setting : \A j \in Setting : j <= i) = m
    BY <1>2, <2>1
  <2> QED
    BY <2>2 DEF Effective
<1> QED
  BY <1>1, <1>2 DEF Effective

(* At the end of the sources a load has collected the effective value. *)
LEMMA CollectedAll ==
  ASSUME LoadTypes, CollectedInv, loader.next = 7
  PROVE  /\ loader.broken = (\E s \in DOMAIN given : given[s] = "broken")
         /\ loader.source = "none" => loader.value = "none" /\ Setting = {} /\ Effective = "default"
         /\ loader.source # "none" => /\ Setting # {} /\ Effective = loader.source
                                      /\ given[Effective] = loader.value
                                      /\ loader.value \in {"good", "bad"}
<1>1. 1..(loader.next - 1) = 1..6
  OBVIOUS
<1>2. DOMAIN given = Range(Sources)
  BY DEF LoadTypes
<1>3. loader.broken = (\E i \in 1..6 : given[Sources[i]] = "broken")
  BY <1>1 DEF CollectedInv
<1>4. (\E i \in 1..6 : given[Sources[i]] = "broken") <=> (\E s \in DOMAIN given : given[s] = "broken")
  BY <1>2, SourcesFacts DEF Range
<1>5. Setting \cap (1..6) = Setting
  BY SettingFacts
<1>6. CASE loader.source = "none"
  BY <1>1, <1>3, <1>4, <1>5, <1>6, SettingFacts DEF CollectedInv
<1>7. CASE loader.source # "none"
  <2>1. PICK m \in Setting : /\ loader.source = Sources[m] /\ loader.value = given[Sources[m]]
                             /\ \A j \in Setting : j <= m
    BY <1>1, <1>5, <1>7 DEF CollectedInv
  <2>2. Effective = Sources[m]
    BY <2>1, SettingFacts
  <2>3. given[Sources[m]] \in {"good", "bad"}
    BY DEF Setting
  <2> QED
    BY <1>3, <1>4, <1>7, <2>1, <2>2, <2>3
<1> QED
  BY <1>6, <1>7

LEMMA NoLoadType ==
  /\ NoLoad \in Loads /\ NoLoad.at = "idle" /\ NoLoad.next = 1
  /\ \A step \in LoadSteps :
       LET load == [NoLoad EXCEPT !.at = step] IN
       /\ load \in Loads /\ load.at = step /\ load.next = 1
       /\ load.value = "none" /\ load.source = "none" /\ ~load.broken
  /\ LET load == [NoLoad EXCEPT !.at = "declare", !.asked = TRUE] IN
     /\ load \in Loads /\ load.at = "declare" /\ load.next = 1
     /\ load.value = "none" /\ load.source = "none" /\ ~load.broken
<1>1. /\ NoLoad \in Loads /\ NoLoad.at = "idle" /\ NoLoad.next = 1
      /\ NoLoad.value = "none" /\ NoLoad.source = "none" /\ ~NoLoad.broken
  BY DEF NoLoad, Loads, LoadSteps, Values
<1>2. "declare" \in LoadSteps
  BY DEF LoadSteps
<1> QED
  BY <1>1, <1>2 DEF Loads

LEMMA WorkspaceInitInv == WorkspaceInit => WorkspaceInv
<1> SUFFICES ASSUME WorkspaceInit PROVE WorkspaceInv
  OBVIOUS
<1>1. loader.at = "idle" /\ loader.next = 1
  BY DEF WorkspaceInit, NoLoad
<1>2. loader \in Loads
  BY NoLoadType DEF WorkspaceInit
<1>a. edits \in 0..MaxEdits
  BY WorkspaceAssumption DEF WorkspaceInit
<1>b. failed \in BOOLEAN /\ changed \in BOOLEAN /\ stale \in BOOLEAN /\ refersTo \in BOOLEAN
  BY DEF WorkspaceInit
<1>3. LoadTypes
  BY <1>1, <1>2, <1>a, <1>b DEF WorkspaceInit, LoadTypes
<1> QED
  BY <1>1, <1>3 DEF WorkspaceInit, WorkspaceInv, LoadInv, Loading, LoadedIfValid, First

LEMMA LoadErrorTypes ==
  ASSUME LoadTypes, LoadError
  PROVE  /\ loader' \in Loads /\ loader'.at \in {"idle", "exit"} /\ loader'.next = 1
         /\ failed' \in BOOLEAN /\ stale' \in BOOLEAN
         /\ workspace' \in {"unloaded", "none", "default"} \cup Range(Sources)
<1>1. "exit" \in LoadSteps
  BY DEF LoadSteps
<1>2. loader' \in Loads /\ loader'.at \in {"idle", "exit"} /\ loader'.next = 1
  BY <1>1, NoLoadType DEF LoadError
<1>3. failed' \in BOOLEAN
  BY DEF LoadError
<1> QED
  BY <1>2, <1>3 DEF LoadTypes, LoadError

LEMMA CollectStep ==
  ASSUME LoadTypes, Collect
  PROVE  LET v == given[Sources[loader.next]] IN
         /\ loader.at = "collect" /\ loader.next \in 1..6
         /\ loader' \in Loads
         /\ loader'.next = loader.next + 1 /\ loader'.block = loader.block
         /\ loader'.at = IF loader.next = 6 THEN "missing" ELSE "collect"
         /\ v = "none" => UNCHANGED <<loader.value, loader.source, loader.broken>>
         /\ v = "broken" => UNCHANGED <<loader.value, loader.source>> /\ loader'.broken
         /\ v \notin {"none", "broken"} => /\ loader'.value = v /\ loader'.source = Sources[loader.next]
                                         /\ loader'.broken = loader.broken
<1>1. loader.at = "collect" /\ loader.next \in 1..6 /\ loader.next + 1 \in 1..7
  BY DEF Collect, LoaderAt, LoadTypes
<1> DEFINE name == Sources[loader.next]
           v == given[name]
           collected == [loader EXCEPT !.next = @ + 1, !.at = IF name = "prompt" THEN "missing" ELSE "collect"]
<1>2. name \in Range(Sources) /\ (name = "prompt" <=> loader.next = 6)
  BY <1>1, SourcesFacts
<1>3. v \in Values \cup {"broken"}
  BY <1>2 DEF LoadTypes
<1>4. /\ collected \in Loads /\ collected.next = loader.next + 1
      /\ collected.at = IF loader.next = 6 THEN "missing" ELSE "collect"
      /\ collected.value = loader.value /\ collected.source = loader.source
      /\ collected.broken = loader.broken /\ collected.block = loader.block
  BY <1>1, <1>2 DEF Loads, LoadSteps, LoadTypes
<1>5. loader' = CASE v = "none" -> collected
                  [] v = "broken" -> [collected EXCEPT !.broken = TRUE]
                  [] OTHER -> [collected EXCEPT !.value = v, !.source = name]
  BY DEF Collect
<1> HIDE DEF collected, v, name
<1>6. CASE v = "none"
  BY <1>1, <1>4, <1>5, <1>6 DEF v, name
<1>7. CASE v = "broken"
  <2>1. loader' = [collected EXCEPT !.broken = TRUE]
    BY <1>5, <1>7
  <2> QED
    BY <1>1, <1>4, <1>7, <2>1 DEF Loads, v, name
<1>8. CASE v \notin {"none", "broken"}
  <2>1. loader' = [collected EXCEPT !.value = v, !.source = name]
    BY <1>5, <1>8
  <2>2. v \in Values
    BY <1>3, <1>8
  <2> QED
    BY <1>1, <1>2, <1>4, <1>8, <2>1, <2>2 DEF Loads, v, name
<1> QED
  BY <1>6, <1>7, <1>8

LEMMA LoadTypesStep ==
  ASSUME LoadTypes, [WorkspaceNext]_workspaceVars
  PROVE  LoadTypes'
<1>1. CASE UNCHANGED workspaceVars
  BY <1>1 DEF workspaceVars, inputVars, LoadTypes
<1>2. CASE LoadBegin
  <2>1. loader' \in Loads /\ loader'.at = "declare" /\ loader'.next = 1
    BY <1>2, NoLoadType DEF LoadBegin, LoadSteps
  <2>2. changed' \in BOOLEAN
    BY <1>2 DEF LoadBegin
  <2> QED
    BY <1>2, <2>1, <2>2 DEF LoadBegin, LoadTypes, inputVars
<1>3. CASE LoadVariables
  <2>1. loader' \in Loads /\ loader'.at = "collect" /\ loader'.next = loader.next /\ loader.at = "declare"
    BY <1>3 DEF LoadVariables, LoaderAt, LoadTypes, Loads, LoadSteps
  <2> QED
    BY <1>3, <2>1 DEF LoadVariables, LoadTypes, inputVars
<1>4. CASE Collect
  <2>1. /\ loader' \in Loads /\ loader.next \in 1..6
        /\ loader'.next = loader.next + 1
        /\ loader'.at = IF loader.next = 6 THEN "missing" ELSE "collect"
    BY <1>4, CollectStep
  <2> QED
    BY <1>4, <2>1 DEF Collect, LoadTypes, inputVars
<1>5. CASE IdentifyMissing
  <2>1. CASE LoadError
    BY <1>5, <2>1, LoadErrorTypes DEF IdentifyMissing, LoadTypes, inputVars
  <2>2. CASE ~LoadError
    <3>1. /\ loader' \in Loads /\ loader'.at \in {"ask", "parse"} /\ loader'.next = loader.next
          /\ loader.at = "missing" /\ UNCHANGED <<workspace, failed, stale>>
      BY <1>5, <2>2 DEF IdentifyMissing, LoaderAt, LoadTypes, Loads, LoadSteps
    <3> QED
      BY <1>5, <3>1 DEF IdentifyMissing, LoadTypes, inputVars
  <2> QED
    BY <2>1, <2>2
<1>6. CASE PromptForMissing
  <2>1. changed' \in BOOLEAN
    BY <1>6 DEF PromptForMissing, LoadTypes
  <2>2. given' \in [Range(Sources) -> Values \cup {"broken"}]
    <3>1. CASE given' = given
      BY <3>1 DEF LoadTypes
    <3>2. CASE \E v \in {"good", "bad"} : given' = [given EXCEPT !["prompt"] = v]
      BY <3>2 DEF LoadTypes, Values
    <3> QED
      BY <1>6, <3>1, <3>2 DEF PromptForMissing
  <2>3. CASE LoadError
    BY <1>6, <2>1, <2>2, <2>3, LoadErrorTypes DEF PromptForMissing, LoadTypes
  <2>4. CASE ~LoadError
    <3>1. /\ loader' = [NoLoad EXCEPT !.at = "declare", !.asked = TRUE]
          /\ UNCHANGED <<workspace, failed, stale>>
      BY <1>6, <2>4 DEF PromptForMissing
    <3>2. loader' \in Loads /\ loader'.at = "declare" /\ loader'.next = 1
      BY <3>1, NoLoadType
    <3> QED
      BY <1>6, <2>1, <2>2, <3>1, <3>2 DEF PromptForMissing, LoadTypes
  <2> QED
    BY <2>3, <2>4
<1>7. CASE ParseValues
  <2>1. CASE LoadError
    BY <1>7, <2>1, LoadErrorTypes DEF ParseValues, LoadTypes, inputVars
  <2>2. CASE ~LoadError
    <3>1. /\ loader' \in Loads /\ loader'.at = "load" /\ loader'.next = loader.next
          /\ loader.at = "parse" /\ UNCHANGED <<workspace, failed, stale>>
      BY <1>7, <2>2 DEF ParseValues, LoaderAt, LoadTypes, Loads, LoadSteps
    <3> QED
      BY <1>7, <3>1 DEF ParseValues, LoadTypes, inputVars
  <2> QED
    BY <2>1, <2>2
<1>8. CASE LoadWorkspaceMod
  <2>1. CASE LoadError
    BY <1>8, <2>1, LoadErrorTypes DEF LoadWorkspaceMod, LoadTypes, inputVars
  <2>2. CASE ~LoadError
    <3>1. loader' = NoLoad /\ failed' = FALSE /\ stale' = changed
      BY <1>8, <2>2 DEF LoadWorkspaceMod
    <3>2. loader' \in Loads /\ loader'.at = "idle" /\ loader'.next = 1
      BY <3>1, NoLoadType DEF NoLoad
    <3>3. workspace' \in {"none", "default"} \cup Range(Sources)
      BY <1>8, <2>2 DEF LoadWorkspaceMod, LoadTypes, Loads
    <3>4. failed' \in BOOLEAN /\ stale' \in BOOLEAN
      BY <3>1 DEF LoadTypes
    <3> QED
      BY <1>8, <3>2, <3>3, <3>4 DEF LoadWorkspaceMod, LoadTypes, inputVars
  <2> QED
    BY <2>1, <2>2
<1>9. CASE Edit
  <2>1. edits' \in 0..MaxEdits
    BY <1>9, WorkspaceAssumption DEF Edit, LoadTypes
  <2>2. given' \in [Range(Sources) -> Values \cup {"broken"}]
    BY <1>9, SourcesFacts DEF Edit, LoadTypes, Files
  <2>3. declared' \in {"no", "required", "default"} /\ refersTo' \in BOOLEAN
    BY <1>9 DEF Edit, LoadTypes
  <2> QED
    BY <1>9, <2>1, <2>2, <2>3 DEF Edit, LoadTypes
<1> QED
  BY <1>1, <1>2, <1>3, <1>4, <1>5, <1>6, <1>7, <1>8, <1>9 DEF WorkspaceNext

(* The source collected next is taken into account. *)
LEMMA CollectedStep ==
  ASSUME LoadTypes, Collect, CollectedInv
  PROVE  CollectedInv'
<1> DEFINE n == loader.next
           v == given[Sources[n]]
           before == 1..(n - 1)
           after == 1..(loader'.next - 1)
<1>1. UNCHANGED given
  BY DEF Collect, inputVars
<1>2. Setting' = Setting /\ Setting \subseteq 1..6
  BY <1>1, SettingFacts DEF Setting
<1>3. n \in 1..6 /\ loader'.next = n + 1
  BY CollectStep
<1>4. after = before \cup {n} /\ n \notin before /\ \A j \in before : j <= n
  BY <1>3
<1>5. /\ v = "none" => /\ loader'.value = loader.value /\ loader'.source = loader.source
                      /\ loader'.broken = loader.broken
      /\ v = "broken" => /\ loader'.value = loader.value /\ loader'.source = loader.source
                        /\ loader'.broken
      /\ v \notin {"none", "broken"} => /\ loader'.value = v /\ loader'.source = Sources[n]
                                      /\ loader'.broken = loader.broken
  BY CollectStep
<1>6. Sources[n] \in Range(Sources) /\ v \in {"none", "good", "bad", "broken"}
  BY <1>3, SourcesFacts DEF LoadTypes, Values
<1>7. n \in Setting <=> v \notin {"none", "broken"}
  BY <1>3, <1>6, SourcesFacts DEF Setting
<1>8. Sources[n] # "none"
  BY <1>6, SourcesFacts
<1>9. /\ loader.broken = (\E i \in before : given[Sources[i]] = "broken")
      /\ loader.source = "none" => loader.value = "none" /\ Setting \cap before = {}
      /\ loader.source # "none" =>
           \E m \in Setting \cap before :
             /\ loader.source = Sources[m] /\ loader.value = given[Sources[m]]
             /\ \A j \in Setting \cap before : j <= m
  BY DEF CollectedInv
<1> HIDE DEF before, after
<1>10. loader'.broken = (\E i \in after : given[Sources[i]] = "broken")
  <2>1. (\E i \in after : given[Sources[i]] = "broken")
          <=> (\E i \in before : given[Sources[i]] = "broken") \/ v = "broken"
    BY <1>4
  <2>2. loader'.broken <=> loader.broken \/ v = "broken"
    BY <1>5
  <2>3. loader'.broken \in BOOLEAN
    BY CollectStep DEF Loads
  <2> QED
    BY <1>9, <2>1, <2>2, <2>3
<1>11. CASE n \in Setting
  <2>1. /\ loader'.source = Sources[n] /\ loader'.value = given[Sources[n]]
        /\ n \in Setting \cap after /\ \A j \in Setting \cap after : j <= n
    BY <1>3, <1>4, <1>5, <1>7, <1>11
  <2> QED
    BY <1>1, <1>2, <1>8, <1>10, <2>1 DEF CollectedInv, after
<1>12. CASE n \notin Setting
  <2>1. loader'.source = loader.source /\ loader'.value = loader.value
    BY <1>5, <1>6, <1>7, <1>12
  <2>2. Setting \cap after = Setting \cap before
    BY <1>4, <1>12
  <2> QED
    BY <1>1, <1>2, <1>9, <1>10, <2>1, <2>2 DEF CollectedInv, after
<1> QED
  BY <1>11, <1>12

LEMMA LoadStep ==
  ASSUME LoadTypes, LoadInv, [WorkspaceNext]_workspaceVars
  PROVE  LoadInv'
<1> USE DEF Loading
<1>0. ASSUME UNCHANGED <<inputVars, loader>>
      PROVE  /\ LoadedSoFar' = LoadedSoFar /\ CollectedInv' = CollectedInv
             /\ NothingCollected' = NothingCollected
  BY <1>0 DEF inputVars, LoadedSoFar, CollectedInv, NothingCollected, Setting, MissingValue, Refused
<1>1. CASE UNCHANGED workspaceVars
  BY <1>0, <1>1 DEF workspaceVars, LoadInv
<1>2. CASE LoadBegin
  <2>1. loader'.at = "declare" /\ NothingCollected'
    BY <1>2, NoLoadType DEF LoadBegin, LoadSteps, NothingCollected
  <2> QED
    BY <2>1 DEF LoadInv
<1>3. CASE LoadVariables
  <2>1. /\ loader.at = "declare" /\ loader'.at = "collect" /\ loader'.block = declared
        /\ loader'.next = loader.next /\ loader'.value = loader.value
        /\ loader'.source = loader.source /\ loader'.broken = loader.broken
        /\ declared' = declared
    BY <1>3 DEF LoadVariables, LoaderAt, LoadTypes, Loads, inputVars
  <2>2. NothingCollected'
    BY <2>1 DEF LoadInv, NothingCollected
  <2>3. 1..(loader'.next - 1) = {}
    BY <2>2 DEF NothingCollected
  <2>4. CollectedInv'
    <3>1. loader'.broken = FALSE
      BY <2>1, <2>2 DEF NothingCollected, LoadTypes, Loads
    <3>2. (\E i \in 1..(loader'.next - 1) : given'[Sources[i]] = "broken") = FALSE
      BY <2>3
    <3> QED
      BY <2>2, <2>3, <3>1, <3>2 DEF CollectedInv, NothingCollected
  <2> QED
    BY <2>1, <2>4 DEF LoadInv, LoadedSoFar
<1>4. CASE Collect
  <2>1. /\ loader.at = "collect" /\ loader'.at \in {"collect", "missing"}
        /\ loader'.block = loader.block /\ declared' = declared /\ changed' = changed
    BY <1>4, CollectStep DEF Collect, inputVars
  <2> QED
    BY <1>4, <2>1, CollectedStep DEF LoadInv, LoadedSoFar
<1>5. CASE IdentifyMissing
  <2>1. CASE LoadError
    BY <2>1, LoadErrorTypes DEF LoadInv
  <2>2. CASE ~LoadError
    <3>1. /\ loader.at = "missing" /\ ~loader.broken
          /\ loader' = [loader EXCEPT !.at = IF MissingValue THEN "ask" ELSE "parse"]
          /\ UNCHANGED <<inputVars, changed>>
      BY <1>5, <2>2 DEF IdentifyMissing, LoaderAt, MissingValue
    <3>2. /\ loader'.at = IF MissingValue THEN "ask" ELSE "parse"
          /\ loader'.block = loader.block /\ loader'.next = loader.next /\ loader'.value = loader.value
          /\ loader'.source = loader.source /\ loader'.broken = loader.broken
      BY <3>1 DEF LoadTypes, Loads
    <3>3. CollectedInv' = CollectedInv /\ MissingValue' = MissingValue
      BY <3>1, <3>2 DEF CollectedInv, inputVars, Setting, MissingValue
    <3> QED
      BY <3>1, <3>2, <3>3 DEF LoadInv, LoadedSoFar, inputVars
  <2> QED
    BY <2>1, <2>2
<1>6. CASE PromptForMissing
  <2>1. CASE LoadError
    BY <2>1, LoadErrorTypes DEF LoadInv
  <2>2. CASE ~LoadError
    <3>1. loader' = [NoLoad EXCEPT !.at = "declare", !.asked = TRUE]
      BY <1>6, <2>2 DEF PromptForMissing
    <3>2. loader'.at = "declare" /\ NothingCollected'
      BY <3>1, NoLoadType DEF NothingCollected
    <3> QED
      BY <3>2 DEF LoadInv
  <2> QED
    BY <2>1, <2>2
<1>7. CASE ParseValues
  <2>1. CASE LoadError
    BY <2>1, LoadErrorTypes DEF LoadInv
  <2>2. CASE ~LoadError
    <3>1. /\ loader.at = "parse" /\ ~Refused /\ loader' = [loader EXCEPT !.at = "load"]
          /\ UNCHANGED <<inputVars, changed>>
      BY <1>7, <2>2 DEF ParseValues, LoaderAt, Refused
    <3>2. /\ loader'.at = "load"
          /\ loader'.block = loader.block /\ loader'.next = loader.next /\ loader'.value = loader.value
          /\ loader'.source = loader.source /\ loader'.broken = loader.broken
      BY <3>1 DEF LoadTypes, Loads
    <3>3. CollectedInv' = CollectedInv /\ MissingValue' = MissingValue /\ Refused' = Refused
      BY <3>1, <3>2 DEF CollectedInv, inputVars, Setting, MissingValue, Refused
    <3> QED
      BY <3>1, <3>2, <3>3 DEF LoadInv, LoadedSoFar, inputVars
  <2> QED
    BY <2>1, <2>2
<1>8. CASE LoadWorkspaceMod
  <2>1. loader'.at \in {"idle", "exit"}
    BY <1>8, LoadErrorTypes, NoLoadType DEF LoadWorkspaceMod
  <2> QED
    BY <2>1 DEF LoadInv
<1>9. CASE Edit
  <2>1. changed' /\ loader' = loader
    BY <1>9 DEF Edit
  <2> QED
    BY <2>1 DEF LoadInv, NothingCollected
<1> QED
  BY <1>1, <1>2, <1>3, <1>4, <1>5, <1>6, <1>7, <1>8, <1>9 DEF WorkspaceNext

-----------------------------------------------------------------------------
(* A load fails for a reason. *)
LEMMA FailsForAReason ==
  ASSUME LoadTypes, LoadInv, ~changed, loader.at \in {"missing", "ask", "parse", "load"},
         \/ loader.at = "missing" /\ (loader.broken \/ MissingValue)
         \/ loader.at = "ask"
         \/ loader.at = "parse" /\ Refused
         \/ loader.at = "load" /\ refersTo /\ loader.block = "no"
  PROVE  Invalid \/ (declared = "no" /\ Effective = "prompt")
<1>1. LoadedSoFar
  BY DEF LoadInv, Loading
<1>2. /\ loader.broken = (\E s \in DOMAIN given : given[s] = "broken")
      /\ loader.source = "none" => loader.value = "none" /\ Setting = {} /\ Effective = "default"
      /\ loader.source # "none" => /\ Setting # {} /\ Effective = loader.source
                                   /\ given[Effective] = loader.value
                                   /\ loader.value \in {"good", "bad"}
  BY <1>1, CollectedAll DEF LoadedSoFar, LoadTypes
<1>3. CASE loader.broken
  BY <1>2, <1>3 DEF Invalid
<1>4. CASE MissingValue
  BY <1>1, <1>2, <1>4 DEF Invalid, MissingValue, LoadedSoFar
<1>5. CASE Refused
  BY <1>1, <1>2, <1>5 DEF Invalid, Refused, LoadedSoFar
<1>6. CASE refersTo /\ loader.block = "no"
  BY <1>1, <1>6 DEF Invalid, LoadedSoFar
<1> QED
  BY <1>1, <1>3, <1>4, <1>5, <1>6 DEF LoadedSoFar

(* A load that gets to its end has found nothing wrong, and the value that *)
(* takes precedence.                                                       *)
LEMMA LoadsTheEffective ==
  ASSUME LoadTypes, LoadInv, ~changed, loader.at = "load", ~(refersTo /\ loader.block = "no")
  PROVE  /\ ~Invalid
         /\ (CASE loader.block = "no" -> "none"
               [] loader.block # "no" /\ loader.source # "none" -> loader.source
               [] OTHER -> "default") = IF declared = "no" THEN "none" ELSE Effective
<1>1. LoadedSoFar
  BY DEF LoadInv, Loading
<1>2. /\ loader.broken = (\E s \in DOMAIN given : given[s] = "broken")
      /\ loader.source = "none" => loader.value = "none" /\ Setting = {} /\ Effective = "default"
      /\ loader.source # "none" => /\ Setting # {} /\ Effective = loader.source
                                   /\ given[Effective] = loader.value
                                   /\ loader.value \in {"good", "bad"}
  BY <1>1, CollectedAll DEF LoadedSoFar, LoadTypes
<1>3. ~loader.broken /\ ~MissingValue /\ ~Refused /\ loader.block = declared
  BY <1>1 DEF LoadedSoFar
<1>4. ~Invalid
  BY <1>2, <1>3 DEF Invalid, MissingValue, Refused
<1>5. CASE loader.block = "no"
  BY <1>3, <1>4, <1>5
<1>6. CASE loader.block # "no" /\ loader.source # "none"
  BY <1>2, <1>3, <1>4, <1>6
<1>7. CASE loader.block # "no" /\ loader.source = "none"
  BY <1>2, <1>3, <1>4, <1>7
<1> QED
  BY <1>5, <1>6, <1>7

LEMMA LoadErrorReported ==
  ASSUME LoadError, ~changed, Invalid \/ (declared = "no" /\ Effective = "prompt"),
         UNCHANGED <<declared, refersTo, given>>
  PROVE  LoadedIfValid'
<1>1. failed'
  BY DEF LoadError
<1>2. Invalid' = Invalid /\ Effective' = Effective
  BY DEF Invalid, Effective, Setting
<1> QED
  BY <1>1, <1>2 DEF LoadedIfValid

LEMMA ValidStep ==
  ASSUME LoadTypes, LoadInv, LoadedIfValid, [WorkspaceNext]_workspaceVars
  PROVE  LoadedIfValid'
<1>1. CASE UNCHANGED workspaceVars
  BY <1>1 DEF workspaceVars, inputVars, LoadedIfValid, First, Invalid, Effective, Setting
<1>2. ASSUME LoadError, stale'
      PROVE  LoadedIfValid'
  BY <1>2 DEF LoadedIfValid
<1>3. ASSUME LoadError, ~stale'
      PROVE  ~changed
  BY <1>3 DEF LoadError
<1>4. CASE LoadBegin \/ LoadVariables \/ Collect
  <2>1. loader'.at \notin {"idle", "exit"}
    <3>1. CASE LoadBegin
      BY <3>1, NoLoadType DEF LoadBegin, LoadSteps
    <3>2. CASE LoadVariables
      BY <3>2 DEF LoadVariables, LoadTypes, Loads
    <3>3. CASE Collect
      BY <3>3, CollectStep
    <3> QED
      BY <1>4, <3>1, <3>2, <3>3
  <2> QED
    BY <2>1 DEF LoadedIfValid
<1>5. CASE IdentifyMissing
  <2>1. CASE LoadError
    <3>1. /\ loader.at = "missing" /\ (loader.broken \/ MissingValue)
          /\ UNCHANGED <<declared, refersTo, given>>
      <4>1. loader'.at \in {"idle", "exit"}
        BY <2>1, LoadErrorTypes
      <4>2. \A step \in {"ask", "parse"} : loader' # [loader EXCEPT !.at = step]
        BY <4>1 DEF LoadTypes, Loads
      <4> QED
        BY <1>5, <4>2 DEF IdentifyMissing, LoaderAt, MissingValue, inputVars
    <3> QED
      BY <1>2, <1>3, <2>1, <3>1, FailsForAReason, LoadErrorReported
  <2>2. CASE ~LoadError
    <3>1. loader'.at \in {"ask", "parse"}
      BY <1>5, <2>2 DEF IdentifyMissing, LoadTypes, Loads
    <3> QED
      BY <3>1 DEF LoadedIfValid
  <2> QED
    BY <2>1, <2>2
<1>6. CASE PromptForMissing
  <2>1. CASE LoadError
    <3>1. loader.at = "ask" /\ UNCHANGED <<declared, refersTo, given>>
      <4>1. loader'.at \in {"idle", "exit"}
        BY <2>1, LoadErrorTypes
      <4>2. loader' # [NoLoad EXCEPT !.at = "declare", !.asked = TRUE]
        BY <4>1, NoLoadType
      <4> QED
        BY <1>6, <4>2 DEF PromptForMissing, LoaderAt
    <3> QED
      BY <1>2, <1>3, <2>1, <3>1, FailsForAReason, LoadErrorReported
  <2>2. CASE ~LoadError
    <3>1. loader'.at = "declare"
      BY <1>6, <2>2, NoLoadType DEF PromptForMissing
    <3> QED
      BY <3>1 DEF LoadedIfValid
  <2> QED
    BY <2>1, <2>2
<1>7. CASE ParseValues
  <2>1. CASE LoadError
    <3>1. loader.at = "parse" /\ Refused /\ UNCHANGED <<declared, refersTo, given>>
      <4>1. loader'.at \in {"idle", "exit"}
        BY <2>1, LoadErrorTypes
      <4>2. loader' # [loader EXCEPT !.at = "load"]
        BY <4>1 DEF LoadTypes, Loads
      <4> QED
        BY <1>7, <4>2 DEF ParseValues, LoaderAt, Refused, inputVars
    <3> QED
      BY <1>2, <1>3, <2>1, <3>1, FailsForAReason, LoadErrorReported
  <2>2. CASE ~LoadError
    <3>1. loader'.at = "load"
      BY <1>7, <2>2 DEF ParseValues, LoadTypes, Loads
    <3> QED
      BY <3>1 DEF LoadedIfValid
  <2> QED
    BY <2>1, <2>2
<1>8. CASE LoadWorkspaceMod
  <2>1. loader.at = "load" /\ UNCHANGED <<declared, refersTo, given>>
    BY <1>8 DEF LoadWorkspaceMod, LoaderAt, inputVars
  <2>2. CASE refersTo /\ loader.block = "no"
    <3>1. LoadError
      BY <1>8, <2>2 DEF LoadWorkspaceMod
    <3> QED
      BY <1>2, <1>3, <2>1, <2>2, <3>1, FailsForAReason, LoadErrorReported
  <2>3. CASE ~(refersTo /\ loader.block = "no")
    <3>1. /\ ~failed' /\ stale' = changed
          /\ workspace' = CASE loader.block = "no" -> "none"
                            [] loader.block # "no" /\ loader.source # "none" -> loader.source
                            [] OTHER -> "default"
      BY <1>8, <2>3 DEF LoadWorkspaceMod
    <3>2. Invalid' = Invalid /\ Effective' = Effective /\ declared' = declared
      BY <2>1 DEF Invalid, Effective, Setting
    <3>3. CASE changed
      BY <3>1, <3>3 DEF LoadedIfValid
    <3>4. CASE ~changed
      BY <2>1, <2>3, <3>1, <3>2, <3>4, LoadsTheEffective DEF LoadedIfValid
    <3> QED
      BY <3>3, <3>4
  <2> QED
    BY <2>2, <2>3
<1>9. CASE Edit
  BY <1>9 DEF Edit, LoadedIfValid
<1> QED
  BY <1>1, <1>4, <1>5, <1>6, <1>7, <1>8, <1>9 DEF WorkspaceNext

LEMMA WorkspaceStepInv == WorkspaceInv /\ [WorkspaceNext]_workspaceVars => WorkspaceInv'
BY LoadTypesStep, LoadStep, ValidStep DEF WorkspaceInv

LEMMA WorkspaceTyped == WorkspaceInv => WorkspaceTypeOK
BY SourcesFacts DEF WorkspaceInv, LoadTypes, WorkspaceTypeOK, Loads

(* LoadedIfValidCorrect: a load of the workspace that no edit overtook     *)
(* fails only when something is wrong with the files or the values given,  *)
(* and otherwise gives the variable the value of the source that takes     *)
(* precedence, after any number of edits and reloads.                      *)
THEOREM LoadedIfValidCorrect == WorkspaceSpec => []LoadedIfValid
<1>1. WorkspaceInv => LoadedIfValid
  BY DEF WorkspaceInv
<1> QED
  BY <1>1, WorkspaceInitInv, WorkspaceStepInv, PTL DEF WorkspaceSpec

(* WorkspaceTypeCorrect: the declaration, the values of the sources and    *)
(* the load that is under way keep their types.                            *)
THEOREM WorkspaceTypeCorrect == WorkspaceSpec => []WorkspaceTypeOK
BY WorkspaceInitInv, WorkspaceStepInv, WorkspaceTyped, PTL DEF WorkspaceSpec

-----------------------------------------------------------------------------
(***************************************************************************)
(* PreparedStatements: from the name of a resource to the SQL that runs.   *)
(***************************************************************************)

Sqls == DOMAIN Placeholders
ClientConnections == [at : {"closed", "idle", "busy"}, old : BOOLEAN, prepared : [Resources -> Sqls \cup {"none"}]]
Statements == [at : {"none", "plain", "execute", "error", "panic"}, of : Resources,
               sql : Sqls \cup {"none"}, values : Nat]
BackendIds == Backends \cup {0}
RunStates == [at : {"idle", "resolved", "prepare", "ready", "done"}, res : Resources,
              statement : Statements, backend : BackendIds,
              disturbed : BOOLEAN, stale : BOOLEAN,
              ran : Sqls \cup {"", "panic", "failed"}, want : Sqls \cup {"", "failed"}]
AllTexts == UNION {Texts[r] : r \in Resources}

(* The types, those of the sessions and the runs as well. *)
StatementTypes ==
  /\ mode \in {"batch", "prompt", "dashboard"}
  /\ source \subseteq Resources /\ sessions \subseteq Backends
  /\ {onDisk, loaded} \subseteq [Resources -> AllTexts]
  /\ \A r \in Resources : {onDisk[r], loaded[r]} \subseteq Texts[r]
  /\ watcher \in {"idle", "refresh", "open", "acquire"} /\ trouble \in {"none", "early", "late"}
  /\ queries \in Nat
  /\ {watcherError, unseen, lateFailure, reused} \subseteq BOOLEAN
  /\ backend \in [Backends -> ClientConnections]
  /\ run \in [Runners -> RunStates]

(* A batch changes what is prepared with its first and only query. *)
SourceInv ==
  /\ mode # "batch" \/ queries = 0 => source = Resources
  /\ queries = 0 => \A i \in Runners : run[i].at = "idle"

Running(i) == run[i].at \in {"resolved", "prepare", "ready"}
Connected(i) == run[i].at \in {"prepare", "ready"}

(* Each connection that is in use is that of one runner; while the client  *)
(* is replaced the pool is empty, and no session is being initialised.     *)
BackendInv ==
  /\ \A i \in Runners : Connected(i) =>
       run[i].backend \in Backends /\ backend[run[i].backend].at = "busy"
  /\ \A i, j \in Runners :
       Connected(i) /\ Connected(j) /\ run[i].backend = run[j].backend => i = j
  /\ watcher = "open" => /\ \A p \in Backends : ~InPool(p)
                         /\ \A i \in Runners : run[i].at # "prepare"

(* What is prepared for a resource that is loaded now, and the sessions    *)
(* of the pool that have it.                                               *)
PreparedFor(r) == IF loaded[r].params > 0 THEN loaded[r].sql ELSE "none"
Fits(p, r) == backend[p].prepared[r] = PreparedFor(r)
PoolFits(r) == \A p \in sessions : InPool(p) => Fits(p, r)

(* Outside a refresh, the sessions of the pool have what is loaded.        *)
SessionInv ==
  watcher # "refresh" /\ ~lateFailure /\ ~reused =>
    \A r \in source \ {"image"} : (r = "table" /\ unseen) \/ PoolFits(r)

(* What a run has resolved to is what is wanted of it, and as long as no   *)
(* reload disturbs it, its session has it.                                 *)
NeverPrepared(i) ==
  LET s == run[i].statement IN
  s.of = "image" \/ (mode = "batch" /\ run[i].res = "control" /\ s.of = "query")
Outcome(s) ==
  LET sql == IF s.at = "plain" THEN s.sql ELSE PreparedFor(s.of) IN
  IF sql # "none" /\ Placeholders[sql] = s.values THEN sql ELSE "failed"
Resolved(i) ==
  LET s == run[i].statement IN
  /\ s.at \in {"plain", "execute"} /\ run[i].want = Outcome(s)
  /\ s.at = "execute" /\ ~NeverPrepared(i) /\ ~run[i].stale /\ ~reused =>
       /\ s.of \in source \ {"image"} /\ PoolFits(s.of)
       /\ run[i].at = "ready" => Fits(run[i].backend, s.of)
RunInv == \A i \in Runners : Running(i) /\ ~run[i].disturbed => Resolved(i)

StatementInv ==
  StatementTypes /\ SourceInv /\ BackendInv /\ SessionInv /\ RunInv /\ RunsItsText

-----------------------------------------------------------------------------
(* Resolving.                                                              *)

ArgsGiven(a) ==
  /\ a \in [nil : BOOLEAN, list : Nat, names : SUBSET (Nat \ {0})]
  /\ a.list = 0 \/ a.names = {}
  /\ a.nil => Empty(a)

LEMMA TextFacts ==
  ASSUME StatementTypes, NEW r \in Resources
  PROVE  LET t == loaded[r] IN
         /\ t \in Texts[r]
         /\ t.via \in {"own", "query", "name"} /\ t.sql \in Sqls \cup {"none"}
         /\ t.via # "own" <=> t.sql = "none"
         /\ t.via = "query" => t.params = 0
         /\ r \in {"query", "control"} => t.args.nil = (r = "query")
         /\ r = "query" => t.via = "own"
         /\ t.params \in Nat /\ t.defaults \in BOOLEAN
         /\ ArgsGiven(t.args)
<1>1. loaded[r] \in Texts[r]
  BY DEF StatementTypes
<1>2. Empty(NoArgs)
  BY DEF Empty, NoArgs
<1> QED
  BY <1>1, <1>2, StatementsAssumption DEF ArgsGiven, Sqls

(* The arguments do for the parameters of a text. *)
Suffice(t, args) ==
  /\ args.names \subseteq 1..t.params
  /\ t.defaults \/ args.list >= t.params \/ args.names = 1..t.params

LEMMA StringResolved ==
  ASSUME StatementTypes, NEW r \in Resources, loaded[r].via = "own", loaded[r].params # 0,
         NEW args, ArgsGiven(args)
  PROVE  LET s == ResolveAsString(r, args)
             t == loaded[r] IN
         /\ s \in Statements /\ s.at \in {"panic", "error", "execute"}
         /\ s.at = "panic" <=> args.nil
         /\ ~args.nil => (s.at = "execute" <=> Suffice(t, args))
         /\ s.at = "execute" => /\ s.of = r /\ t.sql \in Sqls /\ t.sql # "none"
                               /\ Outcome(s) = IF Placeholders[t.sql] = t.params THEN t.sql ELSE "failed"
<1> DEFINE t == loaded[r]
           complete == IF args.names # {} THEN /\ args.names \subseteq 1..t.params
                                               /\ t.defaults \/ args.names = 1..t.params
                       ELSE t.defaults \/ args.list >= t.params
           s == ResolveAsString(r, args)
<1>1. /\ t.params \in Nat \ {0} /\ t.defaults \in BOOLEAN /\ t.sql \in Sqls /\ t.sql # "none"
  BY TextFacts
<1>2. /\ args.list \in Nat /\ args.names \subseteq Nat \ {0} /\ args.nil \in BOOLEAN
      /\ args.list = 0 \/ args.names = {}
  BY DEF ArgsGiven
<1>3. complete <=> Suffice(t, args)
  <2>1. CASE args.names # {}
    BY <1>1, <1>2, <2>1 DEF Suffice
  <2>2. CASE args.names = {}
    <3>1. args.names # 1..t.params
      BY <1>1, <2>2
    <3> QED
      BY <2>2, <3>1 DEF Suffice
  <2> QED
    BY <2>1, <2>2
<1>4. s = IF args.nil THEN Failure("panic")
          ELSE IF ~complete THEN Failure("error")
          ELSE [at |-> "execute", of |-> r, sql |-> "none", values |-> t.params]
  BY DEF ResolveAsString
<1> HIDE DEF complete, s
<1>5. /\ Failure("panic") \in Statements /\ Failure("panic").at = "panic"
      /\ Failure("error") \in Statements /\ Failure("error").at = "error"
  BY DEF Failure, NoStatement, Statements, Resources
<1>6. CASE args.nil \/ ~complete
  BY <1>2, <1>3, <1>4, <1>5, <1>6 DEF s
<1>7. CASE ~args.nil /\ complete
  <2>1. s = [at |-> "execute", of |-> r, sql |-> "none", values |-> t.params]
    BY <1>4, <1>7
  <2>2. s \in Statements /\ s.at = "execute" /\ s.of = r /\ s.values = t.params
    BY <1>1, <2>1 DEF Statements
  <2>3. PreparedFor(r) = t.sql
    BY <1>1 DEF PreparedFor
  <2>4. Outcome(s) = IF Placeholders[t.sql] = t.params THEN t.sql ELSE "failed"
    BY <1>1, <2>2, <2>3 DEF Outcome
  <2> QED
    BY <1>1, <1>3, <1>7, <2>2, <2>4 DEF s
<1> QED
  BY <1>6, <1>7

LEMMA PlainResolved ==
  ASSUME StatementTypes, NEW r \in Resources, loaded[r].via = "own", loaded[r].params = 0
  PROVE  LET s == Plain(r)
             t == loaded[r] IN
         /\ s \in Statements /\ s.at = "plain" /\ s.of = r /\ t.sql \in Sqls
         /\ Outcome(s) = IF Placeholders[t.sql] = 0 THEN t.sql ELSE "failed"
<1>1. loaded[r].sql \in Sqls /\ loaded[r].sql # "none"
  BY TextFacts
<1>2. /\ Plain(r) \in Statements /\ Plain(r).at = "plain" /\ Plain(r).of = r
      /\ Plain(r).sql = loaded[r].sql /\ Plain(r).values = 0
  BY <1>1 DEF Plain, NoStatement, Statements, Resources
<1> QED
  BY <1>1, <1>2 DEF Outcome

(* What a reader expects of an invocation is what comes of it, unless it   *)
(* panics; and that it can do only for want of arguments.                  *)
LEMMA ResolvedAsExpected ==
  ASSUME StatementTypes, NEW r \in Resources, NEW a, ArgsGiven(a), r = "query" => ~a.nil
  PROVE  LET s == ResolveName(r, a) IN
         /\ s \in Statements /\ s.at # "none" /\ Expected(r, a) \in Sqls \cup {"failed"}
         /\ s.at = "error" => Expected(r, a) = "failed"
         /\ s.at = "panic" => r \in {"table", "image"}
         /\ s.at \in {"plain", "execute"} => Expected(r, a) = Outcome(s) /\ s.of \in {r, "query"}
<1> DEFINE own == IF loaded[r].via = "own" THEN r ELSE "query"
           t == loaded[own]
           args == IF Empty(a) THEN loaded[r].args ELSE a
           allowed == /\ loaded[r].via = "query" => Empty(a)
                      /\ loaded[r].via = "name" => loaded[r].params = 0
<1>1. /\ own \in Resources /\ t.via = "own" /\ t.params \in Nat /\ t.sql \in Sqls /\ t.sql # "none"
      /\ ArgsGiven(args) /\ args.list \in Nat
      /\ r = "control" => ~args.nil
  <2>1. own \in Resources /\ t.via = "own"
    BY TextFacts DEF Resources
  <2>2. t.params \in Nat /\ t.sql \in Sqls /\ t.sql # "none"
    BY <2>1, TextFacts
  <2>3. ArgsGiven(args) /\ args.list \in Nat
    BY TextFacts DEF ArgsGiven
  <2>4. r = "control" => ~args.nil
    BY TextFacts DEF ArgsGiven
  <2> QED
    BY <2>1, <2>2, <2>3, <2>4
<1>2. Expected(r, a) = IF allowed /\ Placeholders[t.sql] = t.params /\ (t.params = 0 \/ Suffice(t, args))
                       THEN t.sql ELSE "failed"
  <2>1. t.params = 0 => (t.defaults \/ args.list >= t.params \/ args.names = 1..t.params)
    BY <1>1
  <2> QED
    BY <2>1 DEF Expected, Suffice
<1>3. ASSUME r = "query"
      PROVE  /\ allowed /\ own = "query"
             /\ ResolveName(r, a) = IF t.params = 0 THEN Plain(own) ELSE ResolveAsString(own, a)
  BY <1>3, TextFacts DEF ResolveName, ResolveNamedQuery
<1>4. ASSUME r # "query"
      PROVE  ResolveName(r, a) = IF ~allowed THEN Failure("error")
                                 ELSE IF t.params = 0 THEN Plain(own) ELSE ResolveAsString(own, args)
  BY <1>4, TextFacts DEF ResolveName, ResolveProvider, ResolveNamedQuery
<1>5. Failure("error") \in Statements /\ Failure("error").at = "error"
  BY DEF Failure, NoStatement, Statements, Resources
<1> HIDE DEF own, t, allowed
<1>6. CASE ~allowed
  BY <1>2, <1>3, <1>4, <1>5, <1>6
<1>7. CASE allowed /\ t.params = 0
  <2>1. ResolveName(r, a) = Plain(own)
    BY <1>3, <1>4, <1>7
  <2>2. /\ Plain(own) \in Statements /\ Plain(own).at = "plain" /\ Plain(own).of = own
        /\ Outcome(Plain(own)) = IF Placeholders[t.sql] = 0 THEN t.sql ELSE "failed"
    BY <1>1, <1>7, PlainResolved DEF t
  <2> QED
    BY <1>1, <1>2, <1>7, <2>1, <2>2 DEF own
<1>8. CASE allowed /\ t.params # 0
  <2> DEFINE with == IF r = "query" THEN a ELSE args
  <2>1. ResolveName(r, a) = ResolveAsString(own, with)
    BY <1>3, <1>4, <1>8
  <2>2. ArgsGiven(with) /\ (r \in {"query", "control"} => ~with.nil) /\ with.nil \in BOOLEAN
    BY <1>1 DEF ArgsGiven
  <2>3. Suffice(t, with) <=> Suffice(t, args)
    <3>1. CASE r = "query" /\ Empty(a)
      <4>1. Empty(loaded[r].args)
        BY <3>1, TextFacts DEF ArgsGiven
      <4> QED
        BY <3>1, <4>1 DEF Suffice, Empty
    <3>2. CASE ~(r = "query" /\ Empty(a))
      BY <3>2
    <3> QED
      BY <3>1, <3>2
  <2>4. PICK s : s = ResolveAsString(own, with)
    OBVIOUS
  <2>5. /\ s \in Statements /\ s.at \in {"panic", "error", "execute"}
        /\ s.at = "panic" <=> with.nil
        /\ ~with.nil => (s.at = "execute" <=> Suffice(t, with))
        /\ s.at = "execute" =>
             /\ s.of = own
             /\ Outcome(s) = IF Placeholders[t.sql] = t.params THEN t.sql ELSE "failed"
    BY <1>1, <1>8, <2>2, <2>4, StringResolved DEF t
  <2>6. Expected(r, a) = IF Placeholders[t.sql] = t.params /\ Suffice(t, with) THEN t.sql ELSE "failed"
    BY <1>2, <1>8, <2>3
  <2>7. own \in {r, "query"} /\ r \in {"query", "control", "table", "image"}
    BY DEF own, Resources
  <2> QED
    BY <1>1, <2>1, <2>2, <2>4, <2>5, <2>6, <2>7
<1> QED
  BY <1>6, <1>7, <1>8

-----------------------------------------------------------------------------
(* The steps.                                                              *)

LEMMA StatementCases ==
  ASSUME [StatementsNext]_statementVars
  PROVE  \/ UNCHANGED statementVars
         \/ \E i \in Runners : ResolveLine(i)
         \/ \E i \in Runners : ResolveNode(i)
         \/ \E i \in Runners, p \in Backends : AcquireConnection(i, p)
         \/ \E i \in Runners : EnsureSessionData(i)
         \/ \E i \in Runners : ExecuteStatement(i)
         \/ EditText \/ Reload \/ CloseClients \/ OpenClient
         \/ \E p \in Backends : AcquireRefreshed(p)
BY DEF StatementsNext

LEMMA NoRunType ==
  /\ NoRun \in RunStates /\ NoRun.at = "idle"
  /\ Closed \in ClientConnections /\ Closed.at = "closed" /\ ~Closed.old
<1>1. NoStatement \in Statements
  BY DEF NoStatement, Statements, Resources
<1>2. NoRun \in RunStates /\ NoRun.at = "idle"
  BY <1>1 DEF NoRun, RunStates, BackendIds, Resources
<1>3. Nothing \in [Resources -> Sqls \cup {"none"}]
  BY DEF Nothing
<1> QED
  BY <1>2, <1>3 DEF Closed, ClientConnections

LEMMA StatementInitInv == StatementsInit => StatementInv
<1> SUFFICES ASSUME StatementsInit PROVE StatementInv
  OBVIOUS
<1>1. /\ \A i \in Runners : run[i] = NoRun /\ run[i].at = "idle"
      /\ \A p \in Backends : backend[p] = Closed
  BY NoRunType DEF StatementsInit
<1>2. StatementTypes
  <2>1. \A r \in Resources : {onDisk[r], loaded[r]} \subseteq Texts[r]
    BY DEF StatementsInit
  <2>2. {watcherError, unseen, lateFailure, reused} \subseteq BOOLEAN /\ queries \in Nat
    BY DEF StatementsInit
  <2>3. backend \in [Backends -> ClientConnections] /\ run \in [Runners -> RunStates]
    BY NoRunType DEF StatementsInit
  <2> QED
    BY <2>1, <2>2, <2>3 DEF StatementsInit, StatementTypes, AllTexts
<1>3. SourceInv /\ BackendInv
  BY <1>1 DEF StatementsInit, SourceInv, BackendInv, Connected
<1>4. SessionInv
  BY DEF StatementsInit, SessionInv, PoolFits
<1>5. RunInv /\ RunsItsText
  BY <1>1 DEF RunInv, Running, RunsItsText
<1> QED
  BY <1>2, <1>3, <1>4, <1>5 DEF StatementInv

(* A run that starts has resolved its name from what is loaded.            *)
LEMMA StartEffect ==
  ASSUME StatementTypes, NEW i \in Runners, NEW r \in Resources, NEW a, ArgsGiven(a),
         r = "query" => ~a.nil, Start(i, r, ResolveName(r, a), Expected(r, a))
  PROVE  LET s == ResolveName(r, a) IN
         /\ run' \in [Runners -> RunStates] /\ queries' = queries + 1
         /\ run[i].at \in {"idle", "done"} /\ \A j \in Runners : j # i => run'[j] = run[j]
         /\ run'[i].at = IF s.at \in {"panic", "error"} THEN "done" ELSE "resolved"
         /\ run'[i].res = r /\ run'[i].statement = s /\ run'[i].want = Expected(r, a)
         /\ run'[i].disturbed = (watcher # "idle")
         /\ run'[i].stale = (lateFailure \/ (s.of = "table" /\ unseen))
         /\ run'[i].ran = IF s.at = "panic" THEN "panic" ELSE "failed"
<1> DEFINE s == ResolveName(r, a)
           want == Expected(r, a)
<1>1. s \in Statements /\ want \in Sqls \cup {"failed"}
  BY ResolvedAsExpected
<1>2. PICK busy \in BOOLEAN : busy = (watcher # "idle")
  OBVIOUS
<1>3. PICK old \in BOOLEAN : old = (lateFailure \/ (s.of = "table" /\ unseen))
  OBVIOUS
<1>4. PICK at : at = IF s.at \in {"panic", "error"} THEN "done" ELSE "resolved"
  OBVIOUS
<1>5. PICK ran : ran = IF s.at = "panic" THEN "panic" ELSE "failed"
  OBVIOUS
<1>6. at \in {"done", "resolved"} /\ ran \in {"panic", "failed"}
  BY <1>4, <1>5
<1> DEFINE new == [NoRun EXCEPT !.at = at, !.res = r, !.statement = s, !.want = want,
                                !.disturbed = busy, !.stale = old, !.ran = ran]
<1>7. run' = [run EXCEPT ![i] = new]
  BY <1>2, <1>3, <1>4, <1>5 DEF Start
<1> HIDE DEF s, want
<1>8. /\ new \in RunStates /\ new.at = at /\ new.res = r /\ new.statement = s /\ new.want = want
      /\ new.disturbed = busy /\ new.stale = old /\ new.ran = ran
  BY <1>1, <1>6, NoRunType DEF RunStates
<1> HIDE DEF new
<1>9. run \in [Runners -> RunStates]
  BY DEF StatementTypes
<1>10. /\ run' \in [Runners -> RunStates] /\ run'[i] = new
       /\ \A j \in Runners : j # i => run'[j] = run[j]
  BY <1>7, <1>8, <1>9
<1>11. queries' = queries + 1 /\ run[i].at \in {"idle", "done"}
  BY DEF Start
<1> QED
  BY <1>2, <1>3, <1>4, <1>5, <1>8, <1>10, <1>11 DEF s, want

(* An update of two fields is one of the record.                           *)
LEMMA TwoFields ==
  ASSUME NEW i \in Runners, NEW at, NEW p, NEW States, run \in [Runners -> States],
         run' = [run EXCEPT ![i].at = at, ![i].backend = p]
  PROVE  run' = [run EXCEPT ![i] = [run[i] EXCEPT !.at = at, !.backend = p]]
OBVIOUS

(* A run that goes on keeps what it has resolved to.                       *)
LEMMA AcquireEffect ==
  ASSUME StatementTypes, NEW i \in Runners, NEW p \in Backends, AcquireConnection(i, p)
  PROVE  /\ run' \in [Runners -> RunStates]
         /\ \A j \in Runners : j # i => run'[j] = run[j]
         /\ run'[i].at = IF p \in sessions THEN "ready" ELSE "prepare"
         /\ run'[i].backend = p /\ run'[i].res = run[i].res
         /\ run'[i].statement = run[i].statement /\ run'[i].want = run[i].want
         /\ run'[i].disturbed = run[i].disturbed /\ run'[i].stale = run[i].stale
<1>1. PICK at : at = IF p \in sessions THEN "ready" ELSE "prepare"
  OBVIOUS
<1>2. at \in {"prepare", "ready"} /\ p \in BackendIds
  BY <1>1 DEF BackendIds
<1>3. run \in [Runners -> RunStates] /\ run[i] \in RunStates
  BY DEF StatementTypes
<1>4. run' = [run EXCEPT ![i].at = at, ![i].backend = p]
  BY <1>1 DEF AcquireConnection
<1> DEFINE new == [run[i] EXCEPT !.at = at, !.backend = p]
<1>5. run' = [run EXCEPT ![i] = new]
  BY <1>3, <1>4, TwoFields
<1>6. /\ new \in RunStates /\ new.at = at /\ new.backend = p /\ new.res = run[i].res
      /\ new.statement = run[i].statement /\ new.want = run[i].want
      /\ new.disturbed = run[i].disturbed /\ new.stale = run[i].stale
  BY <1>2, <1>3 DEF RunStates
<1> HIDE DEF new
<1>7. /\ run' \in [Runners -> RunStates] /\ run'[i] = new
      /\ \A j \in Runners : j # i => run'[j] = run[j]
  BY <1>3, <1>5, <1>6
<1> QED
  BY <1>1, <1>6, <1>7

LEMMA EnsureEffect ==
  ASSUME StatementTypes, NEW i \in Runners, EnsureSessionData(i)
  PROVE  /\ run' \in [Runners -> RunStates]
         /\ \A j \in Runners : j # i => run'[j] = run[j]
         /\ run'[i].at = "ready" /\ run'[i].backend = run[i].backend /\ run'[i].res = run[i].res
         /\ run'[i].statement = run[i].statement /\ run'[i].want = run[i].want
         /\ run'[i].disturbed = run[i].disturbed /\ run'[i].stale = run[i].stale
<1>1. run' = [run EXCEPT ![i] = [run[i] EXCEPT !.at = "ready"]]
  BY DEF EnsureSessionData, StatementTypes
<1>2. run[i] \in RunStates
  BY DEF StatementTypes
<1>3. [run[i] EXCEPT !.at = "ready"] \in RunStates
  BY <1>2 DEF RunStates
<1> QED
  BY <1>1, <1>2, <1>3 DEF StatementTypes, RunStates

(* What a statement comes to in a session that has it.                     *)
LEMMA ExecuteEffect ==
  ASSUME StatementTypes, NEW i \in Runners, ExecuteStatement(i), run[i].backend \in Backends
  PROVE  LET s == run[i].statement
             sql == IF s.at = "plain" THEN s.sql ELSE backend[run[i].backend].prepared[s.of] IN
         /\ run' \in [Runners -> RunStates]
         /\ \A j \in Runners : j # i => run'[j] = run[j]
         /\ run[i].at = "ready" /\ run'[i].at = "done"
         /\ run'[i].res = run[i].res /\ run'[i].statement = s /\ run'[i].want = run[i].want
         /\ run'[i].disturbed = run[i].disturbed /\ run'[i].stale = run[i].stale
         /\ run'[i].ran = IF sql # "none" /\ Placeholders[sql] = s.values THEN sql ELSE "failed"
<1> DEFINE s == run[i].statement
           sql == IF s.at = "plain" THEN s.sql ELSE backend[run[i].backend].prepared[s.of]
<1>1. PICK ran : ran = IF sql # "none" /\ Placeholders[sql] = s.values THEN sql ELSE "failed"
  OBVIOUS
<1>2. run' = [run EXCEPT ![i].at = "done", ![i].ran = ran]
  BY <1>1 DEF ExecuteStatement
<1>3. run[i] \in RunStates /\ s \in Statements
  BY DEF StatementTypes, RunStates
<1>4. backend[run[i].backend] \in ClientConnections
  BY DEF StatementTypes
<1>5. sql \in Sqls \cup {"none"}
  BY <1>3, <1>4 DEF Statements, ClientConnections
<1>6. ran \in Sqls \cup {"failed"}
  BY <1>1, <1>5
<1> HIDE DEF s, sql
<1>7. /\ run' \in [Runners -> RunStates]
      /\ \A j \in Runners : j # i => run'[j] = run[j]
      /\ run'[i].at = "done" /\ run'[i].ran = ran
      /\ run'[i].res = run[i].res /\ run'[i].statement = run[i].statement /\ run'[i].want = run[i].want
      /\ run'[i].disturbed = run[i].disturbed /\ run'[i].stale = run[i].stale
  BY <1>2, <1>3, <1>6 DEF StatementTypes, RunStates
<1>8. run[i].at = "ready"
  BY DEF ExecuteStatement
<1> QED
  BY <1>1, <1>7, <1>8 DEF s, sql

(* A reload disturbs the runs that are not over, when it changes anything. *)
LEMMA ReloadEffect ==
  ASSUME StatementTypes, Reload
  PROVE  /\ run' \in [Runners -> RunStates]
         /\ \A i \in Runners :
              /\ run'[i].at = run[i].at /\ run'[i].backend = run[i].backend /\ run'[i].res = run[i].res
              /\ run'[i].statement = run[i].statement /\ run'[i].want = run[i].want
              /\ run'[i].stale = run[i].stale /\ run'[i].ran = run[i].ran
              /\ ~run'[i].disturbed => ~run[i].disturbed /\ (run[i].at = "done" \/ loaded' = loaded)
              /\ run'[i].disturbed /\ run[i].at = "done" => run[i].disturbed
<1>1. ASSUME NEW i \in Runners
      PROVE  /\ run'[i] \in RunStates
             /\ run'[i].at = run[i].at /\ run'[i].backend = run[i].backend /\ run'[i].res = run[i].res
             /\ run'[i].statement = run[i].statement /\ run'[i].want = run[i].want
             /\ run'[i].stale = run[i].stale /\ run'[i].ran = run[i].ran
             /\ run'[i].disturbed <=> run[i].disturbed \/ (run[i].at # "done" /\ loaded' # loaded)
  <2>1. run[i] \in RunStates
    BY DEF StatementTypes
  <2>2. PICK now \in BOOLEAN :
          now = (run[i].disturbed \/ (run[i].at # "done" /\ loaded' # loaded))
    OBVIOUS
  <2>3. run'[i] = [run[i] EXCEPT !.disturbed = now]
    BY <2>2 DEF Reload
  <2> QED
    BY <2>1, <2>2, <2>3 DEF RunStates
<1>2. run' \in [Runners -> RunStates]
  <2>1. DOMAIN run' = Runners /\ run' = [i \in Runners |-> run'[i]]
    BY DEF Reload
  <2> QED
    BY <1>1, <2>1
<1> QED
  BY <1>1, <1>2

(* The connections: which are of the pool, and what is prepared in them.   *)
LEMMA PreparedFits ==
  ASSUME StatementTypes
  PROVE  /\ Prepared \in [Resources -> Sqls \cup {"none"}]
         /\ \A r \in source \ {"image"} : Prepared[r] = PreparedFor(r)
<1>1. \A r \in Resources : loaded[r].sql \in Sqls \cup {"none"}
  BY TextFacts
<1>2. source \subseteq Resources
  BY DEF StatementTypes
<1> QED
  BY <1>1, <1>2 DEF Prepared, PreparedFor

LEMMA CanConnectFree ==
  ASSUME NEW p \in Backends, CanConnect(p)
  PROVE  backend[p].at \in {"idle", "closed"} /\ (backend[p].at = "idle" => ~backend[p].old)
BY DEF CanConnect, InPool

LEMMA AcquireBackend ==
  ASSUME StatementTypes, NEW i \in Runners, NEW p \in Backends, AcquireConnection(i, p)
  PROVE  /\ backend' \in [Backends -> ClientConnections]
         /\ \A q \in Backends : q # p => backend'[q] = backend[q]
         /\ backend'[p].at = "busy" /\ backend'[p].prepared = backend[p].prepared
         /\ backend'[p].old = backend[p].old /\ backend[p].at \in {"idle", "closed"}
         /\ ~reused' => ~reused /\ (p \in sessions => InPool(p))
<1>1. backend[p] \in ClientConnections /\ reused \in BOOLEAN
  BY DEF StatementTypes
<1>2. backend' = [backend EXCEPT ![p] = [backend[p] EXCEPT !.at = "busy"]]
  BY DEF AcquireConnection, StatementTypes
<1>3. [backend[p] EXCEPT !.at = "busy"] \in ClientConnections
  BY <1>1 DEF ClientConnections
<1>4. backend[p].at \in {"idle", "closed"} /\ (backend[p].at = "idle" => ~backend[p].old)
  BY CanConnectFree DEF AcquireConnection
<1>5. ~reused' => ~reused /\ (p \in sessions => InPool(p))
  BY <1>1, <1>4 DEF AcquireConnection, InPool
<1> QED
  BY <1>1, <1>2, <1>3, <1>4, <1>5 DEF StatementTypes, ClientConnections

LEMMA EnsureBackend ==
  ASSUME StatementTypes, NEW i \in Runners, EnsureSessionData(i), run[i].backend \in Backends
  PROVE  LET p == run[i].backend IN
         /\ backend' \in [Backends -> ClientConnections]
         /\ \A q \in Backends : q # p => backend'[q] = backend[q]
         /\ backend'[p].at = backend[p].at /\ backend'[p].old = backend[p].old
         /\ \A r \in source \ {"image"} : backend'[p].prepared[r] = PreparedFor(r)
<1>1. PICK p \in Backends : p = run[i].backend
  OBVIOUS
<1>2. backend[p] \in ClientConnections
  BY DEF StatementTypes
<1>3. PICK prepared : prepared = Prepared
  OBVIOUS
<1>4. backend' = [backend EXCEPT ![p] = [backend[p] EXCEPT !.prepared = prepared]]
  BY <1>1, <1>3 DEF EnsureSessionData, StatementTypes
<1>5. [backend[p] EXCEPT !.prepared = prepared] \in ClientConnections
  BY <1>2, <1>3, PreparedFits DEF ClientConnections
<1> QED
  BY <1>1, <1>2, <1>3, <1>4, <1>5, PreparedFits DEF StatementTypes, ClientConnections

LEMMA ExecuteBackend ==
  ASSUME StatementTypes, NEW i \in Runners, ExecuteStatement(i), run[i].backend \in Backends
  PROVE  LET p == run[i].backend IN
         /\ backend' \in [Backends -> ClientConnections]
         /\ \A q \in Backends : q # p => backend'[q] = backend[q]
         /\ backend[p].old => backend'[p] = Closed
         /\ ~backend[p].old => /\ backend'[p].at = "idle" /\ ~backend'[p].old
                               /\ backend'[p].prepared = backend[p].prepared
<1>1. PICK p \in Backends : p = run[i].backend
  OBVIOUS
<1>2. backend[p] \in ClientConnections
  BY DEF StatementTypes
<1>3. backend' = [backend EXCEPT ![p] = IF backend[p].old THEN Closed ELSE [backend[p] EXCEPT !.at = "idle"]]
  BY <1>1 DEF ExecuteStatement, StatementTypes
<1>4. [backend[p] EXCEPT !.at = "idle"] \in ClientConnections
  BY <1>2 DEF ClientConnections
<1> QED
  BY <1>1, <1>2, <1>3, <1>4, NoRunType DEF StatementTypes, ClientConnections

LEMMA CloseBackend ==
  ASSUME StatementTypes, CloseClients
  PROVE  /\ backend' \in [Backends -> ClientConnections]
         /\ \A p \in Backends :
              /\ backend[p].at = "busy" => /\ backend'[p].at = "busy" /\ backend'[p].old
                                           /\ backend'[p].prepared = backend[p].prepared
              /\ backend[p].at # "busy" => backend'[p] = Closed
<1>1. ASSUME NEW p \in Backends
      PROVE  /\ backend'[p] \in ClientConnections
             /\ backend[p].at = "busy" => /\ backend'[p].at = "busy" /\ backend'[p].old
                                          /\ backend'[p].prepared = backend[p].prepared
             /\ backend[p].at # "busy" => backend'[p] = Closed
  <2>1. backend[p] \in ClientConnections
    BY DEF StatementTypes
  <2>2. backend'[p] = IF backend[p].at = "busy" THEN [backend[p] EXCEPT !.old = TRUE] ELSE Closed
    BY DEF CloseClients
  <2>3. CASE backend[p].at = "busy"
    BY <2>1, <2>2, <2>3 DEF ClientConnections
  <2>4. CASE backend[p].at # "busy"
    BY <2>2, <2>4, NoRunType
  <2> QED
    BY <2>3, <2>4
<1>2. backend' \in [Backends -> ClientConnections]
  <2>1. backend' = [p \in Backends |-> backend'[p]]
    BY DEF CloseClients
  <2> QED
    BY <1>1, <2>1
<1> QED
  BY <1>1, <1>2

LEMMA RefreshedBackend ==
  ASSUME StatementTypes, NEW p \in Backends, AcquireRefreshed(p)
  PROVE  /\ backend' \in [Backends -> ClientConnections]
         /\ \A q \in Backends : q # p => backend'[q] = backend[q]
         /\ backend'[p].at = "idle" /\ backend[p].at \in {"idle", "closed"}
         /\ p \in sessions => backend'[p].prepared = backend[p].prepared
         /\ p \notin sessions => \A r \in source \ {"image"} : backend'[p].prepared[r] = PreparedFor(r)
         /\ ~reused' => ~reused /\ (p \in sessions => InPool(p))
<1>1. backend[p] \in ClientConnections /\ reused \in BOOLEAN
  BY DEF StatementTypes
<1>2. PICK prepared : prepared = IF p \in sessions THEN backend[p].prepared ELSE Prepared
  OBVIOUS
<1>3. backend' = [backend EXCEPT ![p] = [backend[p] EXCEPT !.at = "idle", !.prepared = prepared]]
  BY <1>2 DEF AcquireRefreshed, StatementTypes
<1>4. prepared \in [Resources -> Sqls \cup {"none"}]
  BY <1>1, <1>2, PreparedFits DEF ClientConnections
<1>5. [backend[p] EXCEPT !.at = "idle", !.prepared = prepared] \in ClientConnections
  BY <1>1, <1>4 DEF ClientConnections
<1>6. backend[p].at \in {"idle", "closed"} /\ (backend[p].at = "idle" => ~backend[p].old)
  BY CanConnectFree DEF AcquireRefreshed
<1>7. ~reused' => ~reused /\ (p \in sessions => InPool(p))
  BY <1>1, <1>6 DEF AcquireRefreshed, InPool
<1> QED
  BY <1>1, <1>2, <1>3, <1>5, <1>6, <1>7, PreparedFits DEF StatementTypes, ClientConnections

-----------------------------------------------------------------------------
(* The invariant.                                                          *)

(* The arguments of a line and those of a node are proper arguments.       *)
LEMMA GivenArgs ==
  /\ \A a \in Given : ArgsGiven(a) /\ ~a.nil
  /\ ArgsGiven(NoArgs)
<1>1. ASSUME NEW n \in 0..1
      PROVE  LET a == [nil |-> FALSE, list |-> n, names |-> {}] IN ArgsGiven(a) /\ ~a.nil
  BY DEF ArgsGiven
<1>2. ASSUME NEW n \in 1..2
      PROVE  LET a == [nil |-> FALSE, list |-> 0, names |-> {n}] IN ArgsGiven(a) /\ ~a.nil
  BY DEF ArgsGiven
<1>3. ArgsGiven(NoArgs)
  BY DEF ArgsGiven, NoArgs, Empty
<1> QED
  BY <1>1, <1>2, <1>3 DEF Given

LEMMA LineStarts ==
  ASSUME NEW i \in Runners, ResolveLine(i)
  PROVE  \E r \in {"query", "control"}, a \in Given :
           /\ Start(i, r, ResolveName(r, a), Expected(r, a))
           /\ r \in Resources /\ ArgsGiven(a) /\ ~a.nil
           /\ source' = IF mode = "batch" THEN {r} ELSE source
BY GivenArgs DEF ResolveLine, Resources

LEMMA NodeStarts ==
  ASSUME NEW i \in Runners, ResolveNode(i)
  PROVE  \E r \in Resources \ {"query"} :
           /\ Start(i, r, ResolveName(r, NoArgs), Expected(r, NoArgs))
           /\ ArgsGiven(NoArgs)
           /\ source' = source /\ mode = "dashboard"
BY GivenArgs DEF ResolveNode, ResolveName

LEMMA StatementTypesStep ==
  ASSUME StatementTypes, BackendInv, [StatementsNext]_statementVars
  PROVE  StatementTypes'
<1>1. CASE UNCHANGED statementVars
  BY <1>1 DEF statementVars, StatementTypes
<1>2. ASSUME NEW i \in Runners, ResolveLine(i) PROVE StatementTypes'
  <2>1. PICK r \in {"query", "control"}, a \in Given :
          /\ Start(i, r, ResolveName(r, a), Expected(r, a))
          /\ r \in Resources /\ ArgsGiven(a) /\ ~a.nil
          /\ source' = IF mode = "batch" THEN {r} ELSE source
    BY <1>2, LineStarts
  <2>2. run' \in [Runners -> RunStates] /\ queries' = queries + 1
    BY <2>1, StartEffect
  <2>3. source' \subseteq Resources
    <3>1. {r} \subseteq Resources
      BY <2>1
    <3> QED
      BY <2>1, <3>1 DEF StatementTypes
  <2>4. queries' \in Nat
    BY <2>2 DEF StatementTypes
  <2>5. UNCHANGED <<mode, onDisk, trouble, loaded, watcherError, watcher, backend, sessions,
                    unseen, lateFailure, reused>>
    BY <2>1 DEF Start, textVars
  <2> QED
    BY <2>2, <2>3, <2>4, <2>5 DEF StatementTypes
<1>3. ASSUME NEW i \in Runners, ResolveNode(i) PROVE StatementTypes'
  <2>1. PICK r \in Resources \ {"query"} :
          /\ Start(i, r, ResolveName(r, NoArgs), Expected(r, NoArgs))
          /\ ArgsGiven(NoArgs) /\ source' = source
    BY <1>3, NodeStarts
  <2>2. run' \in [Runners -> RunStates] /\ queries' = queries + 1
    BY <2>1, StartEffect
  <2>3. queries' \in Nat
    BY <2>2 DEF StatementTypes
  <2> QED
    BY <2>1, <2>2, <2>3 DEF Start, StatementTypes, textVars
<1>4. ASSUME NEW i \in Runners, NEW p \in Backends, AcquireConnection(i, p) PROVE StatementTypes'
  <2>1. reused' \in BOOLEAN
    BY <1>4 DEF AcquireConnection, StatementTypes
  <2>2. run' \in [Runners -> RunStates] /\ backend' \in [Backends -> ClientConnections]
    BY <1>4, AcquireEffect, AcquireBackend
  <2> QED
    BY <1>4, <2>1, <2>2 DEF AcquireConnection, StatementTypes, textVars
<1>5. ASSUME NEW i \in Runners, EnsureSessionData(i) PROVE StatementTypes'
  <2>1. run[i].backend \in Backends
    BY <1>5 DEF EnsureSessionData, BackendInv, Connected
  <2>2. run' \in [Runners -> RunStates] /\ backend' \in [Backends -> ClientConnections]
    BY <1>5, <2>1, EnsureEffect, EnsureBackend
  <2>3. sessions' \subseteq Backends
    BY <1>5, <2>1 DEF EnsureSessionData, StatementTypes
  <2> QED
    BY <1>5, <2>2, <2>3 DEF EnsureSessionData, StatementTypes, textVars
<1>6. ASSUME NEW i \in Runners, ExecuteStatement(i) PROVE StatementTypes'
  <2>1. run[i].backend \in Backends
    BY <1>6 DEF ExecuteStatement, BackendInv, Connected
  <2>2. run' \in [Runners -> RunStates] /\ backend' \in [Backends -> ClientConnections]
    BY <1>6, <2>1, ExecuteEffect, ExecuteBackend
  <2> QED
    BY <1>6, <2>2 DEF ExecuteStatement, StatementTypes, textVars
<1>7. CASE EditText
  <2>1. onDisk' \in [Resources -> AllTexts] /\ \A r \in Resources : onDisk'[r] \in Texts[r]
    <3>1. CASE \E r \in Resources : \E t \in Texts[r] \ {onDisk[r]} : onDisk' = [onDisk EXCEPT ![r] = t]
      <4>0. PICK r \in Resources : \E t \in Texts[r] : onDisk' = [onDisk EXCEPT ![r] = t]
        BY <3>1
      <4>1. PICK t \in Texts[r] : onDisk' = [onDisk EXCEPT ![r] = t]
        BY <4>0
      <4>2. t \in AllTexts
        BY DEF AllTexts
      <4> QED
        BY <4>1, <4>2 DEF StatementTypes
    <3>2. CASE onDisk' = onDisk
      BY <3>2 DEF StatementTypes
    <3> QED
      BY <1>7, <3>1, <3>2 DEF EditText
  <2>2. trouble' \in {"none", "early", "late"}
    BY <1>7 DEF EditText, StatementTypes
  <2> QED
    BY <1>7, <2>1, <2>2 DEF EditText, StatementTypes
<1>8. CASE Reload
  <2>1. run' \in [Runners -> RunStates]
    BY <1>8, ReloadEffect
  <2>2. loaded' \in {loaded, onDisk} /\ onDisk' = onDisk
    BY <1>8 DEF Reload, Populated, textVars
  <2>3. watcherError' \in BOOLEAN /\ watcher' \in {"idle", "refresh"}
    BY <1>8 DEF Reload
  <2>4. lateFailure' \in BOOLEAN
    BY <1>8 DEF Reload, StatementTypes
  <2>5. unseen' \in BOOLEAN
    <3>1. PICK hidden \in BOOLEAN : hidden = (/\ loaded'["table"].sql = loaded["table"].sql
                                            /\ loaded'["table"].params # loaded["table"].params)
      OBVIOUS
    <3> QED
      BY <1>8, <3>1 DEF Reload, StatementTypes
  <2>6. /\ loaded' \in [Resources -> AllTexts] /\ onDisk' \in [Resources -> AllTexts]
        /\ \A r \in Resources : {onDisk'[r], loaded'[r]} \subseteq Texts[r]
    BY <2>2 DEF StatementTypes
  <2> QED
    BY <1>8, <2>1, <2>3, <2>4, <2>5, <2>6 DEF Reload, StatementTypes, textVars
<1>9. CASE CloseClients
  <2>1. backend' \in [Backends -> ClientConnections]
    BY <1>9, CloseBackend
  <2> QED
    BY <1>9, <2>1 DEF CloseClients, StatementTypes, textVars
<1>10. CASE OpenClient
  BY <1>10 DEF OpenClient, StatementTypes, textVars
<1>11. ASSUME NEW p \in Backends, AcquireRefreshed(p) PROVE StatementTypes'
  <2>1. backend' \in [Backends -> ClientConnections]
    BY <1>11, RefreshedBackend
  <2>2. sessions' \subseteq Backends /\ reused' \in BOOLEAN
    BY <1>11 DEF AcquireRefreshed, StatementTypes
  <2> QED
    BY <1>11, <2>1, <2>2 DEF AcquireRefreshed, StatementTypes, textVars
<1> QED
  BY <1>1, <1>2, <1>3, <1>4, <1>5, <1>6, <1>7, <1>8, <1>9, <1>10, <1>11, StatementCases

LEMMA SourceStep ==
  ASSUME StatementTypes, SourceInv, BackendInv, [StatementsNext]_statementVars
  PROVE  SourceInv'
<1>1. ASSUME NEW i \in Runners, ResolveLine(i) PROVE SourceInv'
  <2>1. PICK r \in {"query", "control"}, a \in Given :
          /\ Start(i, r, ResolveName(r, a), Expected(r, a))
          /\ source' = IF mode = "batch" THEN {r} ELSE source
    BY <1>1, LineStarts
  <2>2. queries' = queries + 1 /\ queries' # 0 /\ mode' = mode
    BY <2>1 DEF Start, StatementTypes
  <2> QED
    BY <2>1, <2>2 DEF SourceInv
<1>2. ASSUME NEW i \in Runners, ResolveNode(i) PROVE SourceInv'
  <2>1. PICK r \in Resources \ {"query"} :
          /\ Start(i, r, ResolveName(r, NoArgs), Expected(r, NoArgs))
          /\ source' = source /\ mode = "dashboard"
    BY <1>2, NodeStarts
  <2>2. queries' # 0 /\ mode' = mode
    BY <2>1 DEF Start, StatementTypes
  <2> QED
    BY <2>1, <2>2 DEF SourceInv
<1>3. ASSUME mode' = mode, queries' = queries, source' = source,
             \A i \in Runners : run[i].at = "idle" => run'[i].at = "idle"
      PROVE  SourceInv'
  BY <1>3 DEF SourceInv
<1>4. CASE UNCHANGED statementVars
  BY <1>3, <1>4 DEF statementVars
<1>5. ASSUME NEW i \in Runners, NEW p \in Backends, AcquireConnection(i, p) PROVE SourceInv'
  <2>1. run[i].at = "resolved" /\ \A j \in Runners : j # i => run'[j] = run[j]
    BY <1>5, AcquireEffect DEF AcquireConnection
  <2> QED
    BY <1>3, <1>5, <2>1 DEF AcquireConnection
<1>6. ASSUME NEW i \in Runners, EnsureSessionData(i) PROVE SourceInv'
  <2>1. run[i].at = "prepare" /\ \A j \in Runners : j # i => run'[j] = run[j]
    BY <1>6, EnsureEffect DEF EnsureSessionData
  <2> QED
    BY <1>3, <1>6, <2>1 DEF EnsureSessionData
<1>7. ASSUME NEW i \in Runners, ExecuteStatement(i) PROVE SourceInv'
  <2>1. run[i].at = "ready" /\ run[i].backend \in Backends
    BY <1>7 DEF ExecuteStatement, BackendInv, Connected
  <2>2. \A j \in Runners : j # i => run'[j] = run[j]
    BY <1>7, <2>1, ExecuteEffect
  <2> QED
    BY <1>3, <1>7, <2>1, <2>2 DEF ExecuteStatement
<1>8. CASE Reload
  BY <1>3, <1>8, ReloadEffect DEF Reload
<1>9. CASE EditText \/ CloseClients \/ OpenClient \/ \E p \in Backends : AcquireRefreshed(p)
  BY <1>3, <1>9 DEF EditText, CloseClients, OpenClient, AcquireRefreshed
<1> QED
  BY <1>1, <1>2, <1>4, <1>5, <1>6, <1>7, <1>8, <1>9, StatementCases

(* A run starts in the mode that all resources are prepared in, or it is   *)
(* the only one.                                                           *)
LEMMA Starts ==
  ASSUME SourceInv, NEW i \in Runners, ResolveLine(i) \/ ResolveNode(i)
  PROVE  \E r \in Resources : \E a :
           /\ Start(i, r, ResolveName(r, a), Expected(r, a))
           /\ ArgsGiven(a) /\ (r = "query" => ~a.nil)
           /\ source = Resources
           /\ \/ mode # "batch" /\ source' = source
              \/ /\ mode = "batch" /\ r \in {"query", "control"} /\ source' = {r}
                 /\ \A j \in Runners : run[j].at = "idle"
<1>1. CASE ResolveLine(i)
  <2>1. PICK r \in {"query", "control"}, a \in Given :
          /\ Start(i, r, ResolveName(r, a), Expected(r, a))
          /\ r \in Resources /\ ArgsGiven(a) /\ ~a.nil
          /\ source' = IF mode = "batch" THEN {r} ELSE source
    BY <1>1, LineStarts
  <2>2. mode = "batch" => queries = 0
    BY <1>1 DEF ResolveLine
  <2> QED
    BY <2>1, <2>2 DEF SourceInv
<1>2. CASE ResolveNode(i)
  <2>1. PICK r \in Resources \ {"query"} :
          /\ Start(i, r, ResolveName(r, NoArgs), Expected(r, NoArgs))
          /\ ArgsGiven(NoArgs)
          /\ source' = source /\ mode = "dashboard"
    BY <1>2, NodeStarts
  <2> QED
    BY <2>1 DEF SourceInv
<1> QED
  BY <1>1, <1>2

LEMMA BackendStep ==
  ASSUME StatementTypes, SourceInv, BackendInv, [StatementsNext]_statementVars
  PROVE  BackendInv'
<1>1. ASSUME backend' = backend, watcher' = "open" => watcher = "open",
             \A i \in Runners : \/ run'[i].at \in {"idle", "resolved", "done"}
                                \/ run'[i].at = run[i].at /\ run'[i].backend = run[i].backend
      PROVE  BackendInv'
  BY <1>1 DEF BackendInv, Connected, InPool
<1>2. CASE UNCHANGED statementVars
  BY <1>1, <1>2 DEF statementVars
<1>3. ASSUME NEW i \in Runners, ResolveLine(i) \/ ResolveNode(i) PROVE BackendInv'
  <2>1. PICK r \in Resources : \E a : /\ Start(i, r, ResolveName(r, a), Expected(r, a))
                                      /\ ArgsGiven(a) /\ (r = "query" => ~a.nil)
    BY <1>3, Starts
  <2>2. PICK a : /\ Start(i, r, ResolveName(r, a), Expected(r, a))
                 /\ ArgsGiven(a) /\ (r = "query" => ~a.nil)
    BY <2>1
  <2>3. /\ \A j \in Runners : j # i => run'[j] = run[j]
        /\ run'[i].at \in {"done", "resolved"}
    BY <2>2, StartEffect
  <2>4. backend' = backend /\ watcher' = watcher
    BY <2>2 DEF Start
  <2> QED
    BY <1>1, <2>3, <2>4
<1>4. ASSUME NEW i \in Runners, NEW p \in Backends, AcquireConnection(i, p) PROVE BackendInv'
  <2>1. /\ \A q \in Backends : q # p => backend'[q] = backend[q]
        /\ backend'[p].at = "busy" /\ backend[p].at # "busy"
    BY <1>4, AcquireBackend
  <2>2. /\ \A j \in Runners : j # i => run'[j] = run[j]
        /\ run'[i].backend = p
    BY <1>4, AcquireEffect
  <2>3. watcher' = watcher /\ watcher # "open"
    BY <1>4 DEF AcquireConnection
  <2>4. \A j \in Runners : Connected(j) => run[j].backend # p
    BY <2>1 DEF BackendInv
  <2> QED
    BY <2>1, <2>2, <2>3, <2>4 DEF BackendInv, Connected
<1>5. ASSUME NEW i \in Runners, EnsureSessionData(i) PROVE BackendInv'
  <2>1. run[i].at = "prepare" /\ watcher' = watcher
    BY <1>5 DEF EnsureSessionData
  <2>2. run[i].backend \in Backends /\ watcher # "open"
    BY <2>1 DEF BackendInv, Connected
  <2>3. \A q \in Backends : backend'[q].at = backend[q].at
    BY <1>5, <2>2, EnsureBackend
  <2>4. /\ \A j \in Runners : j # i => run'[j] = run[j]
        /\ run'[i].at = "ready" /\ run'[i].backend = run[i].backend
    BY <1>5, EnsureEffect
  <2> QED
    BY <2>1, <2>2, <2>3, <2>4 DEF BackendInv, Connected
<1>6. ASSUME NEW i \in Runners, ExecuteStatement(i) PROVE BackendInv'
  <2>1. run[i].at = "ready" /\ watcher' = watcher
    BY <1>6 DEF ExecuteStatement
  <2>2. run[i].backend \in Backends /\ backend[run[i].backend].at = "busy"
    BY <2>1 DEF BackendInv, Connected
  <2>3. /\ \A q \in Backends : q # run[i].backend => backend'[q] = backend[q]
        /\ backend[run[i].backend].old => backend'[run[i].backend] = Closed
    BY <1>6, <2>2, ExecuteBackend
  <2>4. \A j \in Runners : j # i => run'[j] = run[j]
    BY <1>6, <2>2, ExecuteEffect
  <2>5. run'[i].at = "done"
    BY <1>6, <2>2, ExecuteEffect
  <2>6. \A j \in Runners : j # i /\ Connected(j) => run[j].backend # run[i].backend
    BY <2>1 DEF BackendInv, Connected
  <2>7. watcher = "open" => /\ backend[run[i].backend].old
                            /\ \A q \in Backends : ~InPool(q)'
    <3> SUFFICES ASSUME watcher = "open"
                 PROVE  /\ backend[run[i].backend].old
                        /\ \A q \in Backends : ~InPool(q)'
      OBVIOUS
    <3>1. backend[run[i].backend].old
      BY <2>2 DEF BackendInv, InPool
    <3>2. backend'[run[i].backend].at = "closed"
      BY <2>3, <3>1, NoRunType
    <3> QED
      BY <2>3, <3>1, <3>2 DEF BackendInv, InPool
  <2> QED
    BY <2>1, <2>2, <2>3, <2>4, <2>5, <2>6, <2>7 DEF BackendInv, Connected
<1>7. CASE EditText \/ OpenClient
  BY <1>1, <1>7 DEF EditText, OpenClient
<1>8. CASE Reload
  BY <1>1, <1>8, ReloadEffect DEF Reload
<1>9. CASE CloseClients
  <2>1. run' = run /\ \A i \in Runners : run[i].at # "prepare"
    BY <1>9 DEF CloseClients
  <2>2. \A p \in Backends : /\ backend[p].at = "busy" => backend'[p].at = "busy"
                            /\ ~InPool(p)'
    BY <1>9, CloseBackend, NoRunType DEF InPool
  <2> QED
    BY <2>1, <2>2 DEF BackendInv, Connected
<1>10. ASSUME NEW p \in Backends, AcquireRefreshed(p) PROVE BackendInv'
  <2>1. /\ \A q \in Backends : q # p => backend'[q] = backend[q]
        /\ backend[p].at # "busy"
    BY <1>10, RefreshedBackend
  <2>2. run' = run /\ watcher' = "idle"
    BY <1>10 DEF AcquireRefreshed
  <2>3. \A j \in Runners : Connected(j) => run[j].backend # p
    BY <2>1 DEF BackendInv
  <2> QED
    BY <2>1, <2>2, <2>3 DEF BackendInv, Connected
<1> QED
  BY <1>2, <1>3, <1>4, <1>5, <1>6, <1>7, <1>8, <1>9, <1>10, StatementCases

(* While the resources stay loaded, sessions that have what is prepared    *)
(* for one keep it and those that are added have it: those of the pool,    *)
(* and those that runs are ready in.                                       *)
Carried(r) ==
  ~reused' =>
    /\ ~reused
    /\ PoolFits(r) => PoolFits(r)'
    /\ \A j \in Runners :
         /\ PoolFits(r) /\ run'[j].at = "ready"
         /\ run[j].at = "ready" => Fits(run[j].backend, r)
         => Fits(run[j].backend, r)'

SessionMoves ==
  \/ \E i \in Runners, p \in Backends : AcquireConnection(i, p)
  \/ \E i \in Runners : EnsureSessionData(i) \/ ExecuteStatement(i)
  \/ CloseClients
  \/ \E p \in Backends : AcquireRefreshed(p)

LEMMA Carries ==
  ASSUME StatementTypes, BackendInv, SessionMoves, NEW r \in source \ {"image"}
  PROVE  Carried(r)
<1>1. PreparedFor(r)' = PreparedFor(r)
  BY DEF PreparedFor, SessionMoves, AcquireConnection, EnsureSessionData, ExecuteStatement,
         CloseClients, AcquireRefreshed
<1>2. ASSUME NEW i \in Runners, NEW p \in Backends, AcquireConnection(i, p) PROVE Carried(r)
  <2>1. /\ \A q \in Backends : q # p => backend'[q] = backend[q]
        /\ backend'[p].prepared = backend[p].prepared
        /\ backend[p].at # "busy"
        /\ ~reused' => ~reused /\ (p \in sessions => InPool(p))
    BY <1>2, AcquireBackend
  <2>2. /\ \A j \in Runners : j # i => run'[j] = run[j]
        /\ run'[i].at = IF p \in sessions THEN "ready" ELSE "prepare"
        /\ run'[i].backend = p
    BY <1>2, AcquireEffect
  <2>3. sessions' = sessions /\ sessions \subseteq Backends /\ run[i].at # "ready"
    BY <1>2 DEF AcquireConnection, StatementTypes
  <2>4. \A q \in Backends : Fits(q, r)' <=> Fits(q, r)
    BY <1>1, <2>1 DEF Fits
  <2>5. ~reused' /\ PoolFits(r) => PoolFits(r)'
    BY <2>1, <2>3, <2>4 DEF PoolFits, InPool
  <2>6. ASSUME NEW j \in Runners, ~reused', PoolFits(r), run'[j].at = "ready",
               run[j].at = "ready" => Fits(run[j].backend, r)
        PROVE  Fits(run[j].backend, r)'
    <3>1. CASE j = i
      BY <2>1, <2>2, <2>3, <2>4, <2>6, <3>1 DEF PoolFits, Fits
    <3>2. CASE j # i
      <4>1. run'[j] = run[j] /\ run[j].backend \in Backends
        BY <2>2, <2>6, <3>2 DEF BackendInv, Connected
      <4> QED
        BY <2>1, <1>1, <2>6, <4>1 DEF Fits
    <3> QED
      BY <3>1, <3>2
  <2> QED
    BY <2>1, <2>5, <2>6 DEF Carried
<1>3. ASSUME NEW i \in Runners, EnsureSessionData(i) PROVE Carried(r)
  <2>0. run[i].at = "prepare" /\ run[i].backend \in Backends
    BY <1>3 DEF EnsureSessionData, BackendInv, Connected
  <2>1. /\ \A q \in Backends : q # run[i].backend => backend'[q] = backend[q]
        /\ backend'[run[i].backend].prepared[r] = PreparedFor(r)
    BY <1>3, <2>0, EnsureBackend
  <2>2. /\ \A j \in Runners : j # i => run'[j] = run[j]
        /\ run'[i].backend = run[i].backend
    BY <1>3, EnsureEffect
  <2>3. sessions' = sessions \cup {run[i].backend} /\ sessions \subseteq Backends /\ reused' = reused
    BY <1>3 DEF EnsureSessionData, StatementTypes
  <2>4. /\ \A q \in Backends : Fits(q, r) => Fits(q, r)'
        /\ Fits(run[i].backend, r)'
    BY <1>1, <2>1, <2>2 DEF Fits
  <2>5. PoolFits(r) => PoolFits(r)'
    <3> SUFFICES ASSUME PoolFits(r), NEW q \in sessions', InPool(q)' PROVE Fits(q, r)'
      BY DEF PoolFits
    <3>1. CASE q = run[i].backend
      BY <1>1, <2>1, <3>1 DEF Fits
    <3>2. CASE q # run[i].backend
      <4>1. q \in sessions /\ q \in Backends /\ backend'[q] = backend[q]
        BY <2>1, <2>3, <3>2
      <4> QED
        BY <2>4, <4>1 DEF PoolFits, InPool
    <3> QED
      BY <3>1, <3>2
  <2>6. ASSUME NEW j \in Runners, run'[j].at = "ready",
               run[j].at = "ready" => Fits(run[j].backend, r)
        PROVE  Fits(run[j].backend, r)'
    <3>1. CASE j = i
      BY <2>4, <3>1
    <3>2. CASE j # i
      <4>1. run'[j] = run[j] /\ run[j].backend \in Backends
        BY <2>2, <2>6, <3>2 DEF BackendInv, Connected
      <4>2. run[j].backend # run[i].backend
        BY <2>0, <2>6, <3>2, <4>1 DEF BackendInv, Connected
      <4> QED
        BY <1>1, <2>1, <2>6, <4>1, <4>2 DEF Fits
    <3> QED
      BY <3>1, <3>2
  <2> QED
    BY <2>3, <2>5, <2>6 DEF Carried
<1>4. ASSUME NEW i \in Runners, ExecuteStatement(i) PROVE Carried(r)
  <2>0. run[i].at = "ready" /\ run[i].backend \in Backends /\ backend[run[i].backend].at = "busy"
    BY <1>4 DEF ExecuteStatement, BackendInv, Connected
  <2>1. /\ \A q \in Backends : q # run[i].backend => backend'[q] = backend[q]
        /\ backend[run[i].backend].old => backend'[run[i].backend] = Closed
        /\ ~backend[run[i].backend].old =>
             backend'[run[i].backend].prepared = backend[run[i].backend].prepared
    BY <1>4, <2>0, ExecuteBackend
  <2>2. /\ \A j \in Runners : j # i => run'[j] = run[j]
        /\ run'[i].at = "done"
    BY <1>4, <2>0, ExecuteEffect
  <2>3. sessions' = sessions /\ sessions \subseteq Backends /\ reused' = reused
    BY <1>4 DEF ExecuteStatement, StatementTypes
  <2>4. ASSUME PoolFits(r), NEW q \in sessions, InPool(q)' PROVE Fits(q, r)'
    <3>1. CASE q = run[i].backend
      <4>1. ~backend[q].old
        BY <2>1, <2>4, <3>1, NoRunType DEF InPool
      <4> QED
        BY <1>1, <2>0, <2>1, <2>4, <3>1, <4>1 DEF PoolFits, InPool, Fits
    <3>2. CASE q # run[i].backend
      <4>1. backend'[q] = backend[q]
        BY <2>1, <2>3, <3>2
      <4> QED
        BY <1>1, <2>4, <4>1 DEF PoolFits, InPool, Fits
    <3> QED
      BY <3>1, <3>2
  <2>5. ASSUME NEW j \in Runners, run'[j].at = "ready",
               run[j].at = "ready" => Fits(run[j].backend, r)
        PROVE  Fits(run[j].backend, r)'
    <3>1. j # i
      BY <2>2, <2>5
    <3>2. run'[j] = run[j] /\ run[j].backend \in Backends
      BY <2>2, <2>5, <3>1 DEF BackendInv, Connected
    <3>3. run[j].backend # run[i].backend
      BY <2>0, <2>5, <3>1, <3>2 DEF BackendInv, Connected
    <3> QED
      BY <1>1, <2>1, <2>5, <3>2, <3>3 DEF Fits
  <2>6. PoolFits(r) => PoolFits(r)'
    BY <2>3, <2>4 DEF PoolFits
  <2> QED
    BY <2>3, <2>5, <2>6 DEF Carried
<1>5. CASE CloseClients
  <2>1. sessions' = sessions /\ run' = run /\ reused' = reused /\ sessions \subseteq Backends
    BY <1>5 DEF CloseClients, StatementTypes
  <2>2. \A q \in Backends : /\ ~InPool(q)'
                            /\ backend[q].at = "busy" => backend'[q].prepared = backend[q].prepared
    BY <1>5, CloseBackend, NoRunType DEF InPool
  <2>3. PoolFits(r)'
    BY <2>1, <2>2 DEF PoolFits
  <2>4. ASSUME NEW j \in Runners, run'[j].at = "ready",
               run[j].at = "ready" => Fits(run[j].backend, r)
        PROVE  Fits(run[j].backend, r)'
    <3>1. run'[j] = run[j] /\ run[j].backend \in Backends /\ backend[run[j].backend].at = "busy"
      BY <2>1, <2>4 DEF BackendInv, Connected
    <3> QED
      BY <1>1, <2>2, <2>4, <3>1 DEF Fits
  <2> QED
    BY <2>1, <2>3, <2>4 DEF Carried
<1>6. ASSUME NEW p \in Backends, AcquireRefreshed(p) PROVE Carried(r)
  <2>1. /\ \A q \in Backends : q # p => backend'[q] = backend[q]
        /\ backend[p].at # "busy"
        /\ p \in sessions => backend'[p].prepared = backend[p].prepared
        /\ p \notin sessions => backend'[p].prepared[r] = PreparedFor(r)
        /\ ~reused' => ~reused /\ (p \in sessions => InPool(p))
    BY <1>6, RefreshedBackend
  <2>2. sessions' = sessions \cup {p} /\ run' = run /\ sessions \subseteq Backends
    BY <1>6 DEF AcquireRefreshed, StatementTypes
  <2>3. ASSUME ~reused', PoolFits(r), NEW q \in sessions', InPool(q)' PROVE Fits(q, r)'
    <3>1. CASE q = p
      BY <1>1, <2>1, <2>3, <3>1 DEF PoolFits, Fits
    <3>2. CASE q # p
      <4>1. q \in sessions /\ backend'[q] = backend[q]
        BY <2>1, <2>2, <3>2
      <4> QED
        BY <1>1, <2>3, <4>1 DEF PoolFits, InPool, Fits
    <3> QED
      BY <3>1, <3>2
  <2>4. ASSUME NEW j \in Runners, run'[j].at = "ready",
               run[j].at = "ready" => Fits(run[j].backend, r)
        PROVE  Fits(run[j].backend, r)'
    <3>1. run'[j] = run[j] /\ run[j].backend \in Backends /\ run[j].backend # p
      BY <2>1, <2>2, <2>4 DEF BackendInv, Connected
    <3> QED
      BY <1>1, <2>1, <2>4, <3>1 DEF Fits
  <2>5. ~reused' /\ PoolFits(r) => PoolFits(r)'
    BY <2>3 DEF PoolFits
  <2> QED
    BY <2>1, <2>4, <2>5 DEF Carried
<1> QED
  BY <1>2, <1>3, <1>4, <1>5, <1>6 DEF SessionMoves

(* What a step does that neither starts a run nor touches the sessions,    *)
(* and the watcher's reload, to the sessions and the runs.                 *)
LEMMA SessionKept ==
  ASSUME StatementTypes, loaded' = loaded, backend' = backend, sessions' = sessions, NEW r \in Resources
  PROVE  /\ PoolFits(r)' <=> PoolFits(r)
         /\ \A p : Fits(p, r)' <=> Fits(p, r)
         /\ PreparedFor(r)' = PreparedFor(r)
BY DEF PoolFits, Fits, PreparedFor, InPool

LEMMA ReloadPrepared ==
  ASSUME StatementTypes, Reload, watcher' # "refresh", ~lateFailure', NEW r \in source \ {"image"}
  PROVE  \/ r = "table" /\ unseen'
         \/ PreparedFor(r)' = PreparedFor(r) /\ (unseen => unseen')
<1>1. r \in {"query", "control", "table"}
  BY DEF StatementTypes, Resources
<1>2. unseen' = (unseen \/ (/\ loaded'["table"].sql = loaded["table"].sql
                           /\ loaded'["table"].params # loaded["table"].params))
  BY DEF Reload
<1>3. CASE loaded' = loaded
  BY <1>2, <1>3 DEF PreparedFor
<1>4. CASE loaded' # loaded
  <2>1. trouble = "none"
    BY <1>4 DEF Reload, Populated, StatementTypes
  <2>2. loaded' = onDisk /\ SameMaps(loaded, onDisk)
    BY <1>4, <2>1 DEF Reload, Populated
  <2>3. /\ loaded'["query"] = loaded["query"] /\ loaded'["control"] = loaded["control"]
        /\ loaded'["table"].sql = loaded["table"].sql
    BY <2>2 DEF SameMaps, SameQuery, SameControl, SameNode
  <2> QED
    BY <1>1, <1>2, <2>3 DEF PreparedFor
<1> QED
  BY <1>3, <1>4

LEMMA SessionStep ==
  ASSUME StatementTypes, SourceInv, BackendInv, SessionInv, [StatementsNext]_statementVars
  PROVE  SessionInv'
<1>1. ASSUME source' \subseteq source, loaded' = loaded, backend' = backend, sessions' = sessions,
             watcher' # "refresh" => watcher # "refresh",
             lateFailure' = lateFailure, unseen' = unseen, reused' = reused
      PROVE  SessionInv'
  BY <1>1, SessionKept DEF SessionInv, StatementTypes
<1>2. CASE UNCHANGED statementVars
  BY <1>1, <1>2 DEF statementVars
<1>3. ASSUME NEW i \in Runners, ResolveLine(i) \/ ResolveNode(i) PROVE SessionInv'
  <2>1. PICK r \in Resources : \E a : /\ Start(i, r, ResolveName(r, a), Expected(r, a))
                                      /\ source = Resources /\ source' \in {source, {r}}
    BY <1>3, Starts
  <2>2. source' \subseteq source
    BY <2>1
  <2> QED
    BY <1>1, <2>1, <2>2 DEF Start
<1>4. CASE SessionMoves
  <2>1. /\ loaded' = loaded /\ source' = source /\ unseen' = unseen /\ lateFailure' = lateFailure
    BY <1>4 DEF SessionMoves, AcquireConnection, EnsureSessionData, ExecuteStatement,
                CloseClients, AcquireRefreshed
  <2>2. \A r \in source \ {"image"} : Carried(r)
    BY <1>4, Carries
  <2>3. CASE CloseClients
    <3>1. \A p \in Backends : ~InPool(p)'
      BY <2>3, CloseBackend, NoRunType DEF InPool
    <3>2. sessions' \subseteq Backends
      BY <2>3 DEF CloseClients, StatementTypes
    <3> QED
      BY <3>1, <3>2 DEF SessionInv, PoolFits
  <2>4. CASE ~CloseClients
    <3>1. watcher # "refresh" \/ watcher' = "refresh"
      BY <1>4, <2>4 DEF SessionMoves, AcquireConnection, EnsureSessionData, ExecuteStatement, AcquireRefreshed
    <3> QED
      BY <2>1, <2>2, <3>1 DEF SessionInv, Carried
  <2> QED
    BY <2>3, <2>4
<1>6. CASE EditText
  BY <1>1, <1>6 DEF EditText, StatementTypes
<1>7. CASE Reload
  <2> SUFFICES ASSUME watcher' # "refresh", ~lateFailure', ~reused', NEW r \in source' \ {"image"},
                      ~(r = "table" /\ unseen')
               PROVE  PoolFits(r)'
    BY DEF SessionInv
  <2>1. /\ source' = source /\ backend' = backend /\ sessions' = sessions /\ reused' = reused
        /\ watcher = "idle" /\ ~lateFailure
    BY <1>7 DEF Reload
  <2>2. PreparedFor(r)' = PreparedFor(r) /\ (unseen => unseen')
    BY <1>7, <2>1, ReloadPrepared
  <2>3. PoolFits(r)
    BY <2>1, <2>2 DEF SessionInv
  <2> QED
    BY <2>1, <2>2, <2>3 DEF PoolFits, Fits, InPool
<1>9. CASE OpenClient
  <2>1. \A p \in Backends : ~InPool(p)
    BY <1>9 DEF OpenClient, BackendInv
  <2>2. backend' = backend /\ sessions' \subseteq Backends
    BY <1>9 DEF OpenClient, StatementTypes
  <2> QED
    BY <2>1, <2>2 DEF SessionInv, PoolFits, InPool
<1> QED
  BY <1>2, <1>3, <1>4, <1>6, <1>7, <1>9, StatementCases DEF SessionMoves

(* What a run that goes on or is over depends on.                          *)
SameRun(j) ==
  /\ run'[j].res = run[j].res /\ run'[j].statement = run[j].statement
  /\ run'[j].want = run[j].want /\ run'[j].stale = run[j].stale
  /\ ~run'[j].disturbed => ~run[j].disturbed

LEMMA ResolvedKept ==
  ASSUME StatementTypes, NEW j \in Runners, Resolved(j), SameRun(j),
         mode' = mode, source' = source, loaded' = loaded,
         reused \in BOOLEAN, ~reused' => ~reused,
         \A r \in source \ {"image"} :
           ~reused' =>
             /\ PoolFits(r) => PoolFits(r)'
             /\ PoolFits(r) /\ run'[j].at = "ready" /\ (run[j].at = "ready" => Fits(run[j].backend, r))
                => Fits(run[j].backend, r)'
  PROVE  Resolved(j)'
<1>0. PICK s : s = run[j].statement
  OBVIOUS
<1>1. /\ run'[j].statement = s /\ run'[j].want = run[j].want /\ s.at \in {"plain", "execute"}
      /\ run[j].want = Outcome(s)
  BY <1>0 DEF SameRun, Resolved
<1>2. run'[j].want = Outcome(s)'
  <2>1. Outcome(s)' = Outcome(s)
    BY DEF Outcome, PreparedFor
  <2> QED
    BY <1>1, <2>1
<1>3. NeverPrepared(j)' <=> NeverPrepared(j)
  BY DEF SameRun, NeverPrepared
<1>4. ASSUME s.at = "execute", ~NeverPrepared(j), ~run[j].stale, ~reused'
      PROVE  /\ s.of \in source' \ {"image"} /\ PoolFits(s.of)'
             /\ run'[j].at = "ready" => Fits(run[j].backend, s.of)'
  <2>1. PICK r \in source \ {"image"} : r = s.of
    BY <1>0, <1>4 DEF Resolved
  <2>2. PoolFits(r) /\ (run[j].at = "ready" => Fits(run[j].backend, r))
    BY <1>0, <1>4, <2>1 DEF Resolved
  <2>3. PoolFits(r)' /\ (run'[j].at = "ready" => Fits(run[j].backend, r)')
    BY <1>4, <2>2
  <2> QED
    BY <2>1, <2>3
<1> QED
  BY <1>1, <1>2, <1>3, <1>4 DEF Resolved, SameRun

LEMMA MovedRuns ==
  ASSUME StatementTypes, BackendInv, SessionMoves
  PROVE  /\ mode' = mode /\ source' = source /\ loaded' = loaded
         /\ reused \in BOOLEAN /\ (~reused' => ~reused)
         /\ \A j \in Runners : /\ SameRun(j)
                               /\ Running(j)' => Running(j)
                               /\ run'[j].at = "done" => ExecuteStatement(j) \/ run'[j] = run[j]
<1>1. /\ mode' = mode /\ source' = source /\ loaded' = loaded
      /\ reused \in BOOLEAN /\ (~reused' => ~reused)
  <2>1. reused \in BOOLEAN
    BY DEF StatementTypes
  <2>2. /\ mode' = mode /\ source' = source /\ loaded' = loaded
        /\ reused' = reused \/ \E more \in BOOLEAN : reused' = (reused \/ more)
    BY DEF SessionMoves, AcquireConnection, EnsureSessionData, ExecuteStatement,
           CloseClients, AcquireRefreshed
  <2> QED
    BY <2>1, <2>2
<1>2. ASSUME NEW i \in Runners, NEW p \in Backends, AcquireConnection(i, p), NEW j \in Runners
      PROVE  /\ SameRun(j) /\ (Running(j)' => Running(j))
             /\ run'[j].at = "done" => run'[j] = run[j]
  <2>1. run[i].at = "resolved"
    BY <1>2 DEF AcquireConnection
  <2>2. /\ \A k \in Runners : k # i => run'[k] = run[k]
        /\ run'[i].at \in {"ready", "prepare"} /\ SameRun(i)
    BY <1>2, AcquireEffect DEF SameRun
  <2> QED
    BY <2>1, <2>2 DEF SameRun, Running
<1>3. ASSUME NEW i \in Runners, EnsureSessionData(i), NEW j \in Runners
      PROVE  /\ SameRun(j) /\ (Running(j)' => Running(j))
             /\ run'[j].at = "done" => run'[j] = run[j]
  BY <1>3, EnsureEffect DEF SameRun, Running, EnsureSessionData
<1>4. ASSUME NEW i \in Runners, ExecuteStatement(i), NEW j \in Runners
      PROVE  /\ SameRun(j) /\ (Running(j)' => Running(j))
             /\ run'[j].at = "done" => ExecuteStatement(j) \/ run'[j] = run[j]
  <2>1. run[i].backend \in Backends
    BY <1>4 DEF ExecuteStatement, BackendInv, Connected
  <2> QED
    BY <1>4, <2>1, ExecuteEffect DEF SameRun, Running
<1>5. ASSUME run' = run, NEW j \in Runners
      PROVE  SameRun(j) /\ (Running(j)' => Running(j)) /\ run'[j] = run[j]
  BY <1>5 DEF SameRun, Running
<1>6. ASSUME CloseClients \/ \E p \in Backends : AcquireRefreshed(p)
      PROVE  run' = run
  BY <1>6 DEF CloseClients, AcquireRefreshed
<1> QED
  BY <1>1, <1>2, <1>3, <1>4, <1>5, <1>6 DEF SessionMoves

LEMMA RunStep ==
  ASSUME StatementTypes, SourceInv, BackendInv, SessionInv, RunInv, [StatementsNext]_statementVars
  PROVE  RunInv'
<1>1. ASSUME mode' = mode, reused' = reused, backend' = backend, sessions' = sessions,
             NEW j \in Runners, SameRun(j), Running(j), ~run[j].disturbed,
             run'[j].at = run[j].at, run'[j].backend = run[j].backend,
             loaded' = loaded, source' = source
      PROVE  Resolved(j)'
  <2>1. Resolved(j) /\ reused \in BOOLEAN
    BY <1>1 DEF RunInv, StatementTypes
  <2>2. \A r \in source \ {"image"} :
          /\ PoolFits(r) => PoolFits(r)'
          /\ Fits(run[j].backend, r) => Fits(run[j].backend, r)'
    BY <1>1 DEF PoolFits, Fits, PreparedFor, InPool
  <2> QED
    BY <1>1, <2>1, <2>2, ResolvedKept
<1>2. CASE UNCHANGED statementVars
  <2> SUFFICES ASSUME NEW j \in Runners, Running(j)', ~run'[j].disturbed PROVE Resolved(j)'
    BY DEF RunInv
  <2> QED
    BY <1>1, <1>2 DEF statementVars, SameRun, Running
<1>3. ASSUME NEW i \in Runners, ResolveLine(i) \/ ResolveNode(i),
             NEW j \in Runners, Running(j)', ~run'[j].disturbed
      PROVE  Resolved(j)'
  <2>1. PICK r \in Resources : \E a :
           /\ Start(i, r, ResolveName(r, a), Expected(r, a))
           /\ ArgsGiven(a) /\ (r = "query" => ~a.nil)
           /\ source = Resources
           /\ \/ mode # "batch" /\ source' = source
              \/ /\ mode = "batch" /\ r \in {"query", "control"} /\ source' = {r}
                 /\ \A k \in Runners : run[k].at = "idle"
    BY <1>3, Starts
  <2>2. PICK a :
           /\ Start(i, r, ResolveName(r, a), Expected(r, a))
           /\ ArgsGiven(a) /\ (r = "query" => ~a.nil)
    BY <2>1
  <2>3. /\ source = Resources
        /\ \/ mode # "batch" /\ source' = source
           \/ /\ mode = "batch" /\ r \in {"query", "control"} /\ source' = {r}
              /\ \A k \in Runners : run[k].at = "idle"
    BY <2>1
  <2>4. /\ mode' = mode /\ loaded' = loaded /\ backend' = backend /\ sessions' = sessions
        /\ reused' = reused /\ reused \in BOOLEAN /\ lateFailure \in BOOLEAN /\ unseen \in BOOLEAN
    BY <2>2 DEF Start, StatementTypes
  <2>5. PICK s : s = ResolveName(r, a)
    OBVIOUS
  <2>6. /\ run[i].at \in {"idle", "done"} /\ \A k \in Runners : k # i => run'[k] = run[k]
        /\ run'[i].at = IF s.at \in {"panic", "error"} THEN "done" ELSE "resolved"
        /\ run'[i].res = r /\ run'[i].statement = s /\ run'[i].want = Expected(r, a)
        /\ run'[i].disturbed = (watcher # "idle")
        /\ run'[i].stale = (lateFailure \/ (s.of = "table" /\ unseen))
    BY <2>2, <2>5, StartEffect
  <2>7. CASE j # i
    <3>1. run'[j] = run[j] /\ Running(j) /\ SameRun(j)
      BY <1>3, <2>6, <2>7 DEF Running, SameRun
    <3>2. source' = source
      BY <2>3, <3>1 DEF Running
    <3> QED
      BY <1>1, <1>3, <2>4, <3>1, <3>2
  <2>8. CASE j = i
    <3>1. /\ s \in Statements /\ s.at \in {"plain", "execute"}
          /\ Expected(r, a) = Outcome(s) /\ s.of \in {r, "query"}
      <4>1. s.at \notin {"panic", "error"}
        BY <1>3, <2>6, <2>8 DEF Running
      <4> QED
        BY <2>2, <2>5, <4>1, ResolvedAsExpected DEF Statements
    <3>2. Outcome(s)' = Outcome(s)
      BY <2>4 DEF Outcome, PreparedFor
    <3>3. ASSUME s.at = "execute", ~NeverPrepared(i)', ~run'[i].stale, ~reused'
          PROVE  s.of \in source' \ {"image"} /\ PoolFits(s.of)'
      <4>1. s.of # "image" /\ ~(mode = "batch" /\ r = "control" /\ s.of = "query")
        BY <2>4, <2>6, <3>3 DEF NeverPrepared
      <4>2. s.of \in source' \ {"image"} /\ s.of \in source \ {"image"}
        BY <2>3, <3>1, <4>1 DEF Resources, Statements
      <4>3. watcher = "idle" /\ ~lateFailure /\ ~(s.of = "table" /\ unseen)
        BY <1>3, <2>6, <2>8, <3>3
      <4>4. PoolFits(s.of)
        BY <2>4, <3>3, <4>2, <4>3 DEF SessionInv
      <4>5. PoolFits(s.of)'
        BY <2>4, <4>4 DEF PoolFits, Fits, PreparedFor, InPool
      <4> QED
        BY <4>2, <4>5
    <3>4. run'[i].at = "resolved"
      BY <2>6, <3>1
    <3> QED
      BY <2>6, <2>8, <3>1, <3>2, <3>3, <3>4 DEF Resolved
  <2> QED
    BY <2>7, <2>8
<1>4. CASE SessionMoves
  <2> SUFFICES ASSUME NEW j \in Runners, Running(j)', ~run'[j].disturbed PROVE Resolved(j)'
    BY DEF RunInv
  <2>1. /\ mode' = mode /\ source' = source /\ loaded' = loaded
        /\ reused \in BOOLEAN /\ (~reused' => ~reused)
        /\ SameRun(j) /\ Running(j)
    BY <1>4, MovedRuns
  <2>2. Resolved(j)
    BY <2>1 DEF RunInv, SameRun
  <2>3. \A r \in source \ {"image"} : Carried(r)
    BY <1>4, Carries
  <2> QED
    BY <2>1, <2>2, <2>3, ResolvedKept DEF Carried
<1>5. CASE EditText \/ OpenClient
  <2> SUFFICES ASSUME NEW j \in Runners, Running(j)', ~run'[j].disturbed PROVE Resolved(j)'
    BY DEF RunInv
  <2>1. /\ mode' = mode /\ source' = source /\ loaded' = loaded /\ backend' = backend
        /\ sessions' = sessions /\ run' = run /\ reused' = reused
    BY <1>5 DEF EditText, OpenClient
  <2> QED
    BY <1>1, <2>1 DEF SameRun, Running
<1>6. CASE Reload
  <2> SUFFICES ASSUME NEW j \in Runners, Running(j)', ~run'[j].disturbed PROVE Resolved(j)'
    BY DEF RunInv
  <2>1. /\ mode' = mode /\ source' = source /\ backend' = backend
        /\ sessions' = sessions /\ reused' = reused
    BY <1>6 DEF Reload
  <2>2. /\ run'[j].at = run[j].at /\ run'[j].backend = run[j].backend /\ SameRun(j)
        /\ Running(j) /\ loaded' = loaded /\ ~run[j].disturbed
    BY <1>6, ReloadEffect DEF SameRun, Running
  <2> QED
    BY <1>1, <2>1, <2>2
<1>7. (\E i \in Runners : ResolveLine(i) \/ ResolveNode(i)) => RunInv'
  BY <1>3 DEF RunInv
<1> QED
  BY <1>2, <1>4, <1>5, <1>6, <1>7, StatementCases DEF SessionMoves

LEMMA RunsItsTextStep ==
  ASSUME StatementTypes, SourceInv, BackendInv, RunInv, RunsItsText, [StatementsNext]_statementVars
  PROVE  RunsItsText'
<1>1. ASSUME NEW j \in Runners, mode' = mode, ~reused' => ~reused, run'[j].at = run[j].at,
             SameRun(j), run'[j].ran = run[j].ran,
             run'[j].at = "done", ~run'[j].disturbed, ~Excused(j)'
      PROVE  run'[j].ran = run'[j].want
  BY <1>1 DEF RunsItsText, Excused, SameRun
<1>2. CASE UNCHANGED statementVars
  <2> SUFFICES ASSUME NEW j \in Runners, run'[j].at = "done", ~run'[j].disturbed, ~Excused(j)'
               PROVE  run'[j].ran = run'[j].want
    BY DEF RunsItsText
  <2> QED
    BY <1>1, <1>2 DEF statementVars, SameRun
<1>3. ASSUME NEW i \in Runners, ResolveLine(i) \/ ResolveNode(i),
             NEW j \in Runners, run'[j].at = "done", ~run'[j].disturbed, ~Excused(j)'
      PROVE  run'[j].ran = run'[j].want
  <2>1. PICK r \in Resources : \E a : /\ Start(i, r, ResolveName(r, a), Expected(r, a))
                                      /\ ArgsGiven(a) /\ (r = "query" => ~a.nil)
    BY <1>3, Starts
  <2>2. PICK a : /\ Start(i, r, ResolveName(r, a), Expected(r, a))
                 /\ ArgsGiven(a) /\ (r = "query" => ~a.nil)
    BY <2>1
  <2>3. PICK s : s = ResolveName(r, a)
    OBVIOUS
  <2>4. /\ \A k \in Runners : k # i => run'[k] = run[k]
        /\ run'[i].at = IF s.at \in {"panic", "error"} THEN "done" ELSE "resolved"
        /\ run'[i].res = r /\ run'[i].want = Expected(r, a)
        /\ run'[i].ran = IF s.at = "panic" THEN "panic" ELSE "failed"
    BY <2>2, <2>3, StartEffect
  <2>5. CASE j # i
    <3>1. run'[j] = run[j] /\ mode' = mode /\ reused' = reused
      BY <2>2, <2>4, <2>5 DEF Start
    <3> QED
      BY <1>1, <1>3, <3>1 DEF SameRun
  <2>6. CASE j = i
    <3>1. /\ s.at \in {"panic", "error"}
          /\ s.at = "error" => Expected(r, a) = "failed"
          /\ s.at = "panic" => r \in {"table", "image"}
      BY <1>3, <2>2, <2>3, <2>4, <2>6, ResolvedAsExpected
    <3>2. s.at # "panic"
      BY <1>3, <2>4, <2>6, <3>1 DEF Excused
    <3> QED
      BY <2>4, <2>6, <3>1, <3>2
  <2> QED
    BY <2>5, <2>6
<1>4. CASE SessionMoves
  <2> SUFFICES ASSUME NEW j \in Runners, run'[j].at = "done", ~run'[j].disturbed, ~Excused(j)'
               PROVE  run'[j].ran = run'[j].want
    BY DEF RunsItsText
  <2>1. /\ mode' = mode /\ (~reused' => ~reused) /\ SameRun(j)
        /\ ExecuteStatement(j) \/ run'[j] = run[j]
    BY <1>4, MovedRuns
  <2>2. CASE run'[j] = run[j]
    BY <1>1, <2>1, <2>2
  <2>3. CASE ExecuteStatement(j)
    <3>1. run[j].at = "ready"
      BY <2>3 DEF ExecuteStatement
    <3>2. run[j].backend \in Backends
      BY <3>1 DEF BackendInv, Connected
    <3>3. Resolved(j)
      BY <2>1, <3>1 DEF RunInv, Running, SameRun
    <3>4. PICK s : s = run[j].statement
      OBVIOUS
    <3>5. /\ s.at \in {"plain", "execute"} /\ run[j].want = Outcome(s)
          /\ s.at = "execute" /\ ~NeverPrepared(j) /\ ~run[j].stale /\ ~reused =>
               backend[run[j].backend].prepared[s.of] = PreparedFor(s.of)
      BY <3>1, <3>3, <3>4 DEF Resolved, Fits
    <3>6. s.at = "execute" => ~NeverPrepared(j) /\ ~run[j].stale /\ ~reused
      BY <2>1, <3>4 DEF Excused, NeverPrepared, SameRun
    <3>7. PICK sql : sql = IF s.at = "plain" THEN s.sql ELSE backend[run[j].backend].prepared[s.of]
      OBVIOUS
    <3>8. run'[j].ran = IF sql # "none" /\ Placeholders[sql] = s.values THEN sql ELSE "failed"
      BY <2>3, <3>2, <3>4, <3>7, ExecuteEffect
    <3>9. sql = IF s.at = "plain" THEN s.sql ELSE PreparedFor(s.of)
      BY <3>5, <3>6, <3>7
    <3> QED
      BY <2>1, <3>5, <3>8, <3>9 DEF Outcome, SameRun
  <2> QED
    BY <2>1, <2>2, <2>3
<1>5. CASE EditText \/ OpenClient
  <2> SUFFICES ASSUME NEW j \in Runners, run'[j].at = "done", ~run'[j].disturbed, ~Excused(j)'
               PROVE  run'[j].ran = run'[j].want
    BY DEF RunsItsText
  <2>1. mode' = mode /\ reused' = reused /\ run' = run
    BY <1>5 DEF EditText, OpenClient
  <2> QED
    BY <1>1, <2>1 DEF SameRun
<1>6. CASE Reload
  <2> SUFFICES ASSUME NEW j \in Runners, run'[j].at = "done", ~run'[j].disturbed, ~Excused(j)'
               PROVE  run'[j].ran = run'[j].want
    BY DEF RunsItsText
  <2>1. mode' = mode /\ reused' = reused
    BY <1>6 DEF Reload
  <2>2. run'[j].at = run[j].at /\ run'[j].ran = run[j].ran /\ SameRun(j)
    BY <1>6, ReloadEffect DEF SameRun
  <2> QED
    BY <1>1, <2>1, <2>2
<1>7. (\E i \in Runners : ResolveLine(i) \/ ResolveNode(i)) => RunsItsText'
  BY <1>3 DEF RunsItsText
<1> QED
  BY <1>2, <1>4, <1>5, <1>6, <1>7, StatementCases DEF SessionMoves

LEMMA StatementStepInv ==
  StatementInv /\ [StatementsNext]_statementVars => StatementInv'
BY StatementTypesStep, SourceStep, BackendStep, SessionStep, RunStep, RunsItsTextStep DEF StatementInv

(* A query that no reload disturbs runs the SQL that the loaded workspace  *)
(* has for it, with as many values as the SQL has placeholders: by what    *)
(* resolving yields (ResolvedAsExpected), and because outside a refresh    *)
(* the sessions of the pool have what is loaded (SessionInv).              *)
THEOREM RunsItsTextCorrect == StatementsSpec => []RunsItsText
<1>1. StatementInv => RunsItsText
  BY DEF StatementInv
<1> QED
  BY <1>1, StatementInitInv, StatementStepInv, PTL DEF StatementsSpec
-----------------------------------------------------------------------------
(* The size of the pool.                                                   *)

Pool == {p \in Backends : InPool(p)}
PoolInv == Cardinality(Pool) <= Cardinality(Used)

LEMMA PoolIsFinite ==
  /\ IsFiniteSet(Pool) /\ Cardinality(Pool) \in Nat
  /\ IsFiniteSet(Used) /\ Cardinality(Used) \in Nat
<1>1. Pool \subseteq Backends
  BY DEF Pool
<1>2. IsFiniteSet(Pool)
  BY <1>1, StatementsAssumption, FS_Subset
<1>3. IsFiniteSet(Used)
  BY StatementsAssumption, FS_Singleton DEF Used
<1> QED
  BY <1>2, <1>3, FS_CardinalityType

\* A connection is made when there is room for it.
LEMMA PoolGrows ==
  ASSUME PoolInv, NEW p \in Backends, CanConnect(p), NEW more \in SUBSET Backends,
         more \subseteq Pool \cup {p}
  PROVE  Cardinality(more) <= Cardinality(Used)
<1>1. /\ IsFiniteSet(Pool) /\ Cardinality(Pool) \in Nat /\ Cardinality(Used) \in Nat
  BY PoolIsFinite
<1>2. CASE p \in Pool
  <2>1. more \subseteq Pool
    BY <1>2
  <2>2. Cardinality(more) \in Nat /\ Cardinality(more) <= Cardinality(Pool)
    BY <1>1, <2>1, FS_Subset, FS_CardinalityType
  <2> QED
    BY <1>1, <2>2 DEF PoolInv
<1>3. CASE p \notin Pool
  <2>1. Cardinality(Pool) < Cardinality(Used)
    BY <1>3 DEF CanConnect, Pool
  <2>2. IsFiniteSet(Pool \cup {p}) /\ Cardinality(Pool \cup {p}) = Cardinality(Pool) + 1
    BY <1>1, <1>3, FS_AddElement
  <2>3. Cardinality(more) \in Nat /\ Cardinality(more) <= Cardinality(Pool \cup {p})
    BY <2>2, FS_Subset, FS_CardinalityType
  <2> QED
    BY <1>1, <2>1, <2>2, <2>3
<1> QED
  BY <1>2, <1>3

LEMMA PoolShrinks ==
  ASSUME PoolInv, mode' = mode, \A p \in Backends : InPool(p)' => InPool(p)
  PROVE  PoolInv'
<1>1. Pool' \subseteq Pool
  BY DEF Pool
<1>2. Used' = Used
  BY DEF Used
<1>3. PICK less : less = Pool'
  OBVIOUS
<1>4. /\ IsFiniteSet(Pool) /\ Cardinality(Pool) \in Nat /\ Cardinality(Used) \in Nat
  BY PoolIsFinite
<1>5. Cardinality(less) \in Nat /\ Cardinality(less) <= Cardinality(Pool)
  BY <1>1, <1>3, <1>4, FS_Subset, FS_CardinalityType
<1>6. Cardinality(less) <= Cardinality(Used)
  BY <1>4, <1>5 DEF PoolInv
<1> QED
  BY <1>2, <1>3, <1>6 DEF PoolInv

LEMMA PoolConnects ==
  ASSUME PoolInv, mode' = mode, NEW p \in Backends, CanConnect(p),
         \A q \in Backends : q # p => backend'[q] = backend[q]
  PROVE  PoolInv'
<1>1. PICK more : more = Pool'
  OBVIOUS
<1>2. more \in SUBSET Backends /\ more \subseteq Pool \cup {p}
  BY <1>1 DEF Pool, InPool
<1>3. Cardinality(more) <= Cardinality(Used)
  BY <1>2, PoolGrows
<1>4. Used' = Used
  BY DEF Used
<1> QED
  BY <1>1, <1>3, <1>4 DEF PoolInv

LEMMA PoolStep ==
  ASSUME StatementTypes, BackendInv, PoolInv, [StatementsNext]_statementVars
  PROVE  PoolInv'
<1>1. ASSUME backend' = backend, mode' = mode PROVE PoolInv'
  BY <1>1, PoolShrinks DEF InPool
<1>2. CASE UNCHANGED statementVars
  BY <1>1, <1>2 DEF statementVars
<1>3. ASSUME NEW i \in Runners, ResolveLine(i) \/ ResolveNode(i) PROVE PoolInv'
  <2>1. backend' = backend /\ mode' = mode
    BY <1>3 DEF ResolveLine, ResolveNode, Start
  <2> QED
    BY <1>1, <2>1
<1>4. ASSUME NEW i \in Runners, NEW p \in Backends, AcquireConnection(i, p) PROVE PoolInv'
  BY <1>4, AcquireBackend, PoolConnects DEF AcquireConnection
<1>5. ASSUME NEW i \in Runners, EnsureSessionData(i) PROVE PoolInv'
  <2>1. run[i].backend \in Backends /\ mode' = mode
    BY <1>5 DEF EnsureSessionData, BackendInv, Connected
  <2>2. \A q \in Backends : backend'[q].at = backend[q].at /\ backend'[q].old = backend[q].old
    BY <1>5, <2>1, EnsureBackend
  <2> QED
    BY <2>1, <2>2, PoolShrinks DEF InPool
<1>6. ASSUME NEW i \in Runners, ExecuteStatement(i) PROVE PoolInv'
  <2>1. run[i].backend \in Backends /\ backend[run[i].backend].at = "busy" /\ mode' = mode
    BY <1>6 DEF ExecuteStatement, BackendInv, Connected
  <2>2. PICK p \in Backends : p = run[i].backend
    BY <2>1
  <2>3. /\ \A q \in Backends : q # p => backend'[q] = backend[q]
        /\ backend[p].old => backend'[p] = Closed
    BY <1>6, <2>1, <2>2, ExecuteBackend
  <2>4. InPool(p)' => InPool(p)
    BY <2>1, <2>2, <2>3, NoRunType DEF InPool
  <2> QED
    BY <2>1, <2>3, <2>4, PoolShrinks DEF InPool
<1>7. CASE EditText \/ Reload \/ OpenClient
  BY <1>1, <1>7 DEF EditText, Reload, OpenClient
<1>8. CASE CloseClients
  <2>1. \A p \in Backends : ~InPool(p)'
    BY <1>8, CloseBackend, NoRunType DEF InPool
  <2>2. mode' = mode
    BY <1>8 DEF CloseClients
  <2> QED
    BY <2>1, <2>2, PoolShrinks
<1>9. ASSUME NEW p \in Backends, AcquireRefreshed(p) PROVE PoolInv'
  BY <1>9, RefreshedBackend, PoolConnects DEF AcquireRefreshed
<1> QED
  BY <1>2, <1>3, <1>4, <1>5, <1>6, <1>7, <1>8, <1>9, StatementCases

LEMMA PoolStarts == StatementsInit => PoolInv
<1> SUFFICES ASSUME StatementsInit PROVE PoolInv
  OBVIOUS
<1>1. Pool = {}
  BY NoRunType DEF StatementsInit, Pool, InPool
<1>2. Cardinality(Pool) = 0
  BY <1>1, FS_EmptySet
<1> QED
  BY <1>2, PoolIsFinite DEF PoolInv

LEMMA StatementsTyped == StatementInv /\ PoolInv => StatementsTypeOK
<1> SUFFICES ASSUME StatementInv, PoolInv PROVE StatementsTypeOK
  OBVIOUS
<1>1. StatementTypes /\ BackendInv
  BY DEF StatementInv
<1>2. \A p \in Backends : backend[p].prepared \in [Resources -> DOMAIN Placeholders \cup {"none"}]
  BY <1>1 DEF StatementTypes, ClientConnections, Sqls
<1>3. \A i \in Runners : run[i].at \in {"prepare", "ready"} => backend[run[i].backend].at = "busy"
  BY <1>1 DEF BackendInv, Connected
<1>4. Cardinality({p \in Backends : InPool(p)}) <= Cardinality(Used)
  BY DEF PoolInv, Pool
<1>5. /\ source \subseteq Resources /\ sessions \subseteq Backends
      /\ \A r \in Resources : {onDisk[r], loaded[r]} \subseteq Texts[r]
  BY <1>1 DEF StatementTypes
<1> QED
  BY <1>2, <1>3, <1>4, <1>5 DEF StatementsTypeOK

(* StatementsTypeCorrect: the texts, the sessions and the statements       *)
(* prepared in them keep their types, a run that goes on has a connection, *)
(* and the pool never has more of them than may be in use at once.         *)
THEOREM StatementsTypeCorrect == StatementsSpec => []StatementsTypeOK
<1>1. StatementInv /\ PoolInv /\ [StatementsNext]_statementVars => (StatementInv /\ PoolInv)'
  BY StatementStepInv, PoolStep DEF StatementInv
<1> QED
  BY <1>1, StatementInitInv, PoolStarts, StatementsTyped, PTL DEF StatementsSpec

-----------------------------------------------------------------------------
(***************************************************************************)
(* ModInstall: the mods that a workspace requires.                         *)
(***************************************************************************)

ModVersions == Mods \X Versions
Parents == {Workspace, Fresh} \cup ModVersions
Requirements == [mod : Mods, allowed : SUBSET Versions, parent : Parents, force : BOOLEAN]
InstallerSteps == {"idle", "resolve", "saveLock", "saveModfile", "prune"}
InstallerStates ==
  [op : {"none", "install", "update", "uninstall"}, at : InstallerSteps,
   dry : BOOLEAN, args : BOOLEAN, required : [Mods -> SUBSET Versions],
   lock : SUBSET Entries, newLock : SUBSET Entries, installedMods : SUBSET ModVersions,
   todo : Seq(SUBSET Requirements), known : [Mods -> Versions \cup {0}],
   failed : BOOLEAN, clash : BOOLEAN]

(* The types, those of the installer as well. *)
ModTypes == ModTypeOK /\ installer \in InstallerStates

(* The requirements that have not been looked at. *)
Waits(pile, x) == \E k \in DOMAIN pile : x \in pile[k]
Pending(x) == Waits(installer.todo, x)

(* Each requirement of the workspace, and each of a mod in the new lock,   *)
(* is met by a version in the new lock or is still to be looked at.        *)
WorkspaceMet ==
  \A m \in Mods : installer.required[m] # {} =>
    \/ \E e \in installer.newLock :
         e.parent = Workspace /\ e.mod = m /\ e.version \in installer.required[m]
    \/ \E x \in Requirements :
         Pending(x) /\ x.parent = Workspace /\ x.mod = m /\ x.allowed = installer.required[m]
DependenciesMet ==
  \A e \in installer.newLock, n \in Mods : Requires[Installed(e)][n] # {} =>
    \/ \E f \in installer.newLock : f.mod = n /\ f.version \in Requires[Installed(e)][n]
    \/ \E x \in Requirements : Pending(x) /\ x.mod = n /\ x.allowed = Requires[Installed(e)][n]

(* What is looked at and locked for the workspace is what it requires.     *)
OfWorkspace ==
  /\ \A x \in Requirements : Pending(x) /\ x.parent = Workspace => x.allowed = installer.required[x.mod]
  /\ \A e \in installer.newLock : e.parent = Workspace => e.version \in installer.required[e.mod]
OneEach(lock) == \A e, f \in lock : e.parent = f.parent /\ e.mod = f.mod => e = f

(* Every mod that is locked is installed, and what is installed was there  *)
(* at the start or is locked.                                              *)
FoldersInv ==
  ~installer.dry =>
    /\ \A e \in installer.lock \cup installer.newLock : Installed(e) \in folders
    /\ \A mv \in folders : mv \in installer.installedMods \/ Locked(installer.newLock, mv[1], mv[2])

SolvedInv ==
  ~InstallerAt("idle") /\ ~installer.failed /\ ~installer.clash =>
    WorkspaceMet /\ DependenciesMet /\ OfWorkspace /\ OneEach(installer.newLock) /\ FoldersInv

(* The order in which the end of a command saves what it has found.        *)
StepInv ==
  /\ ~InstallerAt("idle") /\ ~InstallerAt("resolve") => installer.todo = <<>>
  /\ InstallerAt("saveLock") \/ InstallerAt("saveModfile") => ~installer.failed /\ ~installer.dry
  /\ ~InstallerAt("idle") /\ installer.required = NoRequirements =>
       installer.newLock = {} /\ \A x : ~Pending(x)
  /\ installer.at \in {"resolve", "saveLock", "saveModfile"} /\ ~installer.args /\ installer.op # "uninstall"
       => installer.required = modfile
  /\ ~installer.failed /\ ~installer.dry =>
       /\ installer.at \in {"saveModfile", "prune"} => lockFile = installer.newLock
       /\ InstallerAt("prune") => modfile = installer.required

(* What a command leaves that ends well, and a dry run does not change.    *)
Good ==
  /\ \A e \in lockFile : Installed(e) \in folders
  /\ \A mv \in folders, n \in Mods : Requires[mv][n] # {} => Found(n, Requires[mv][n]) # {}
  /\ \A m \in Mods : modfile[m] # {} =>
       \E e \in lockFile : e.parent = Workspace /\ e.mod = m /\ e.version \in modfile[m]
  /\ OneEach(lockFile)
WellInv == outcome = "well" /\ (InstallerAt("idle") \/ installer.dry) => Good

ModInv == ModTypes /\ StepInv /\ SolvedInv /\ WellInv

-----------------------------------------------------------------------------
(* The greatest of some versions, and the list of what is to be looked at. *)

LEMMA VersionFacts ==
  /\ Versions \subseteq Nat \ {0} /\ 1 \in Versions /\ IsFiniteSet(Versions)
  /\ \A v \in Versions : v <= Cardinality(Versions)
  /\ Cardinality(Versions) \in Nat
<1>1. Cardinality(Versions) \in Nat
  BY ModAssumption, FS_CardinalityType
<1> QED
  BY <1>1, ModAssumption

LEMMA MaxOfVersions ==
  ASSUME NEW S \in SUBSET Versions, S # {}
  PROVE  Max(S) \in S
<1> DEFINE N == Cardinality(Versions)
           T == {N - v : v \in S}
<1>1. N \in Nat /\ \A v \in S : v \in Nat /\ v <= N
  BY VersionFacts
<1> HIDE DEF N
<1>2. T \subseteq Nat /\ T # {}
  BY <1>1
<1>3. PICK t \in T : \A n \in T : t <= n
  BY <1>2, LeastNumber
<1>4. PICK v \in S : t = N - v
  BY <1>3
<1>5. \A w \in S : v >= w
  <2> SUFFICES ASSUME NEW w \in S PROVE v >= w
    OBVIOUS
  <2>1. N - w \in T
    OBVIOUS
  <2>2. N - v <= N - w
    BY <1>3, <1>4, <2>1
  <2> QED
    BY <1>1, <2>2
<1> QED
  BY <1>5 DEF Max

Follows(pile, x, A) == <<A>> \o (<<Head(pile) \ {x}>> \o Tail(pile))

LEMMA FollowingWaits ==
  ASSUME NEW pile \in Seq(SUBSET Requirements), pile # <<>>, NEW x,
         NEW A \in SUBSET Requirements
  PROVE  /\ Follows(pile, x, A) \in Seq(SUBSET Requirements)
         /\ \A y : Waits(Follows(pile, x, A), y) => y \in A \/ Waits(pile, y)
         /\ \A y : Waits(pile, y) /\ y # x => Waits(Follows(pile, x, A), y)
         /\ \A y \in A : Waits(Follows(pile, x, A), y)
<1> DEFINE rest == <<Head(pile) \ {x}>> \o Tail(pile)
<1>0. PICK next : next = Follows(pile, x, A)
  OBVIOUS
<1>1. /\ Len(pile) \in Nat \ {0} /\ pile[1] \in SUBSET Requirements /\ Head(pile) = pile[1]
      /\ Tail(pile) \in Seq(SUBSET Requirements) /\ Len(Tail(pile)) = Len(pile) - 1
      /\ \A k \in 1..(Len(pile) - 1) : Tail(pile)[k] = pile[k + 1]
  OBVIOUS
<1>2. Head(pile) \ {x} \in SUBSET Requirements
  BY <1>1
<1>3. /\ rest \in Seq(SUBSET Requirements) /\ Len(rest) = Len(pile) /\ rest[1] = Head(pile) \ {x}
      /\ \A k \in 2..Len(pile) : rest[k] = pile[k]
  BY <1>1, <1>2
<1>5. next = <<A>> \o rest
  BY <1>0 DEF Follows
<1> HIDE DEF rest
<1>4. /\ next \in Seq(SUBSET Requirements) /\ Len(next) = Len(pile) + 1 /\ next[1] = A
      /\ \A k \in 2..(Len(pile) + 1) : next[k] = rest[k - 1]
  BY <1>1, <1>3, <1>5
<1>6. DOMAIN pile = 1..Len(pile) /\ DOMAIN next = 1..(Len(pile) + 1)
  BY <1>4
<1>7. ASSUME NEW y, Waits(next, y) PROVE y \in A \/ Waits(pile, y)
  <2>1. PICK k \in 1..(Len(pile) + 1) : y \in next[k]
    BY <1>6, <1>7 DEF Waits
  <2>2. CASE k = 1
    BY <1>4, <2>1, <2>2
  <2>3. CASE k = 2
    <3>1. y \in pile[1]
      BY <1>1, <1>3, <1>4, <2>1, <2>3
    <3> QED
      BY <1>1, <1>6, <3>1 DEF Waits
  <2>4. CASE k \notin {1, 2}
    <3>1. k - 1 \in 2..Len(pile) /\ y \in pile[k - 1]
      <4>1. k \in 3..(Len(pile) + 1) /\ k - 1 \in 2..Len(pile)
        BY <1>1, <2>1, <2>4
      <4>2. next[k] = rest[k - 1] /\ rest[k - 1] = pile[k - 1]
        BY <1>1, <1>3, <1>4, <4>1
      <4> QED
        BY <2>1, <4>1, <4>2
    <3> QED
      BY <1>6, <3>1 DEF Waits
  <2> QED
    BY <2>2, <2>3, <2>4
<1>8. ASSUME NEW y, Waits(pile, y), y # x PROVE Waits(next, y)
  <2>1. PICK k \in 1..Len(pile) : y \in pile[k]
    BY <1>6, <1>8 DEF Waits
  <2>2. y \in rest[k]
    BY <1>1, <1>3, <1>8, <2>1
  <2>3. k + 1 \in 2..(Len(pile) + 1) /\ y \in next[k + 1]
    BY <1>1, <1>4, <2>1, <2>2
  <2> QED
    BY <1>1, <1>6, <2>3 DEF Waits
<1>9. ASSUME NEW y \in A PROVE Waits(next, y)
  BY <1>1, <1>4, <1>6, <1>9 DEF Waits
<1> QED
  BY <1>0, <1>4, <1>7, <1>8, <1>9

(* The mods that are required, as items to be looked at.                   *)
LEMMA ItemsRequired ==
  ASSUME NEW required \in [Mods -> SUBSET Versions], NEW parent \in Parents, NEW force \in BOOLEAN
  PROVE  /\ Items(required, parent, force) \in SUBSET Requirements
         /\ \A m \in Mods : required[m] # {} =>
              \E x \in Items(required, parent, force) :
                x.mod = m /\ x.allowed = required[m] /\ x.parent = parent
         /\ \A x \in Items(required, parent, force) :
              /\ x.parent = parent /\ x.mod \in Mods
              /\ x.allowed = required[x.mod] /\ required[x.mod] # {}
<1> DEFINE Item(m) == [mod |-> m, allowed |-> required[m], parent |-> parent, force |-> force]
<1>1. ASSUME NEW m \in Mods
      PROVE  /\ Item(m) \in Requirements /\ Item(m).mod = m /\ Item(m).allowed = required[m]
             /\ Item(m).parent = parent
  BY DEF Requirements
<1>2. Items(required, parent, force) = {Item(m) : m \in {n \in Mods : required[n] # {}}}
  BY DEF Items
<1> HIDE DEF Item
<1>3. ASSUME NEW m \in Mods, required[m] # {} PROVE Item(m) \in Items(required, parent, force)
  BY <1>2, <1>3
<1> QED
  BY <1>1, <1>2, <1>3

(* The lock with an entry for a requirement that is met.                   *)
EntryFor(x, v) == [parent |-> x.parent, mod |-> x.mod, version |-> v, allowed |-> x.allowed]
SameVersion(lock, x, v) == \A e \in lock : e.parent = x.parent /\ e.mod = x.mod => e.version = v

LEMMA EntryFields ==
  ASSUME NEW x \in Requirements, NEW v \in Versions
  PROVE  /\ EntryFor(x, v) \in Entries /\ EntryFor(x, v).parent = x.parent
         /\ EntryFor(x, v).mod = x.mod /\ EntryFor(x, v).version = v
BY DEF EntryFor, Entries, Requirements, Parents, ModVersions

LEMMA PutEntry ==
  ASSUME NEW lock \in SUBSET Entries, NEW e \in Entries
  PROVE  /\ Put(lock, e) \in SUBSET Entries /\ e \in Put(lock, e)
         /\ \A f \in Put(lock, e) :
              f = e \/ (f \in lock /\ ~(f.parent = e.parent /\ f.mod = e.mod))
         /\ SameVersion(lock, e, e.version) =>
              \A f \in lock : \E g \in Put(lock, e) :
                g.parent = f.parent /\ g.mod = f.mod /\ g.version = f.version
<1>1. PICK put : put = Put(lock, e)
  OBVIOUS
<1>2. \A f : f \in put <=> (f = e \/ (f \in lock /\ ~(f.parent = e.parent /\ f.mod = e.mod)))
  BY <1>1 DEF Put
<1>3. put \in SUBSET Entries
  BY <1>2
<1>4. ASSUME SameVersion(lock, e, e.version), NEW f \in lock
      PROVE  \E g \in put : g.parent = f.parent /\ g.mod = f.mod /\ g.version = f.version
  <2>1. CASE f.parent = e.parent /\ f.mod = e.mod
    BY <1>2, <1>4, <2>1 DEF SameVersion
  <2>2. CASE ~(f.parent = e.parent /\ f.mod = e.mod)
    BY <1>2, <2>2
  <2> QED
    BY <2>1, <2>2
<1> QED
  BY <1>1, <1>2, <1>3, <1>4

(* What the walk is at: the first of the requirements that wait.           *)
LEMMA WalkAt ==
  ASSUME ModTypes, installer.todo # <<>>, NEW x \in Head(installer.todo)
  PROVE  /\ installer.todo \in Seq(SUBSET Requirements) /\ x \in Requirements /\ Pending(x)
         /\ x.mod \in Mods /\ x.allowed \in SUBSET Versions /\ x.parent \in Parents /\ x.force \in BOOLEAN
<1>1. installer.todo \in Seq(SUBSET Requirements)
  BY DEF ModTypes, InstallerStates
<1>2. PICK pile \in Seq(SUBSET Requirements) : pile = installer.todo
  BY <1>1
<1>3. Head(pile) = pile[1] /\ 1 \in DOMAIN pile /\ pile[1] \in SUBSET Requirements
  BY <1>2
<1>4. x \in Requirements /\ Waits(pile, x)
  BY <1>2, <1>3 DEF Waits
<1> QED
  BY <1>2, <1>4 DEF Pending, Requirements

LEMMA RecordEffect ==
  ASSUME ModTypes, installer.todo # <<>>, NEW x \in Head(installer.todo), NEW v \in x.allowed,
         NEW path \in Parents, NEW force \in BOOLEAN, installer' = Record(x, v, path, force)
  PROVE  /\ installer' \in InstallerStates /\ installer'.at = "resolve"
         /\ installer'.op = installer.op /\ installer'.dry = installer.dry
         /\ installer'.args = installer.args /\ installer'.required = installer.required
         /\ installer'.lock = installer.lock /\ installer'.installedMods = installer.installedMods
         /\ installer'.failed = installer.failed
         /\ installer'.newLock = Put(installer.newLock, EntryFor(x, v))
         /\ installer'.todo = Follows(installer.todo, x, Items(Requires[<<x.mod, v>>], path, force))
         /\ ~installer'.clash => ~installer.clash /\ SameVersion(installer.newLock, x, v)
<1>1. /\ x \in Requirements /\ v \in Versions /\ x.mod \in Mods
      /\ installer.todo \in Seq(SUBSET Requirements)
      /\ installer \in InstallerStates
  BY WalkAt DEF ModTypes
<1>2. PICK put : put = Put(installer.newLock, EntryFor(x, v))
  OBVIOUS
<1>3. PICK items : items = Items(Requires[<<x.mod, v>>], path, force)
  OBVIOUS
<1>4. PICK pile : pile = Follows(installer.todo, x, items)
  OBVIOUS
<1>5. PICK clash \in BOOLEAN :
        clash <=> installer.clash \/ \E e \in installer.newLock : /\ e.parent = x.parent
                                                                /\ e.mod = x.mod
                                                                /\ e.version # v
  OBVIOUS
<1>6. PICK newest : newest = IF installer.known[x.mod] = 0 THEN tags[x.mod] ELSE installer.known[x.mod]
  OBVIOUS
<1>7. put \in SUBSET Entries
  <2>1. installer.newLock \in SUBSET Entries
    BY <1>1 DEF InstallerStates
  <2>2. EntryFor(x, v) \in Entries
    BY <1>1, EntryFields
  <2> QED
    BY <1>2, <2>1, <2>2, PutEntry
<1>8. pile \in Seq(SUBSET Requirements)
  <2>1. Requires[<<x.mod, v>>] \in [Mods -> SUBSET Versions]
    BY <1>1, ModAssumption
  <2>2. items \in SUBSET Requirements
    BY <1>3, <2>1, ItemsRequired
  <2> QED
    BY <1>1, <1>4, <2>2, FollowingWaits
<1>9. newest \in Versions \cup {0}
  <2>1. installer.known \in [Mods -> Versions \cup {0}] /\ tags[x.mod] \in Versions
    BY <1>1 DEF InstallerStates, ModTypes, ModTypeOK
  <2> QED
    BY <1>1, <1>6, <2>1
<1>10. installer' = [installer EXCEPT !.at = "resolve", !.newLock = put, !.clash = clash,
                                      !.known[x.mod] = newest, !.todo = pile]
  <2>1. installer.clash \in BOOLEAN
    BY <1>1 DEF InstallerStates
  <2>2. pile = <<Items(Requires[x.mod, v], path, force)>> \o Rest(x)
    BY <1>3, <1>4 DEF Follows, Rest
  <2>3. put = Put(installer.newLock, [parent |-> x.parent, mod |-> x.mod, version |-> v, allowed |-> x.allowed])
    BY <1>2 DEF EntryFor
  <2>4. clash = (installer.clash \/ \E e \in installer.newLock : /\ e.parent = x.parent
                                                                /\ e.mod = x.mod
                                                                /\ e.version # v)
    BY <1>5, <2>1
  <2> QED
    BY <1>6, <2>2, <2>3, <2>4 DEF Record
<1>11. PICK tagged : tagged = [installer.known EXCEPT ![x.mod] = newest]
  OBVIOUS
<1>12. tagged \in [Mods -> Versions \cup {0}]
  BY <1>1, <1>9, <1>11 DEF InstallerStates
<1>13. installer' = [installer EXCEPT !.at = "resolve", !.newLock = put, !.clash = clash,
                                      !.known = tagged, !.todo = pile]
  BY <1>10, <1>11
<1>14. /\ installer' \in InstallerStates /\ installer'.at = "resolve"
       /\ installer'.op = installer.op /\ installer'.dry = installer.dry
       /\ installer'.args = installer.args /\ installer'.required = installer.required
       /\ installer'.lock = installer.lock /\ installer'.installedMods = installer.installedMods
       /\ installer'.failed = installer.failed
       /\ installer'.newLock = put /\ installer'.todo = pile /\ installer'.clash = clash
  BY <1>1, <1>7, <1>8, <1>12, <1>13 DEF InstallerStates, InstallerSteps
<1> QED
  BY <1>2, <1>3, <1>4, <1>5, <1>14 DEF SameVersion

LEMMA PathFacts ==
  /\ Workspace \in Parents /\ Fresh \in Parents \ {Workspace}
  /\ \A e \in Entries : Installed(e) \in ModVersions /\ Installed(e) \in Parents \ {Workspace}
<1>1. Workspace # Fresh
  BY DEF Workspace, Fresh
<1>2. ASSUME NEW e \in Entries PROVE Installed(e) \in ModVersions /\ Installed(e) # Workspace
  <2>1. e.mod \in Mods /\ e.version \in Versions /\ e.version # 0
    BY VersionFacts DEF Entries
  <2> QED
    BY <2>1 DEF Installed, ModVersions, Workspace
<1> QED
  BY <1>1, <1>2 DEF Parents

LEMMA ErrorEffect ==
  ASSUME ModTypes, installer.todo # <<>>, NEW x \in Head(installer.todo), Error(x)
  PROVE  /\ installer' \in InstallerStates /\ installer'.at = installer.at /\ installer'.failed
         /\ installer'.op = installer.op /\ installer'.dry = installer.dry
         /\ installer'.args = installer.args /\ installer'.required = installer.required
<1>1. installer \in InstallerStates /\ installer.todo \in Seq(SUBSET Requirements)
  BY WalkAt DEF ModTypes
<1>2. PICK pile : pile = Rest(x)
  OBVIOUS
<1>3. pile \in Seq(SUBSET Requirements)
  <2>1. PICK old \in Seq(SUBSET Requirements) : old = installer.todo
    BY <1>1
  <2>2. Head(old) \ {x} \in SUBSET Requirements /\ Tail(old) \in Seq(SUBSET Requirements)
    BY <2>1
  <2> QED
    BY <1>2, <2>1, <2>2 DEF Rest
<1>4. installer' = [installer EXCEPT !.failed = TRUE, !.todo = pile]
  BY <1>2 DEF Error
<1> QED
  BY <1>1, <1>3, <1>4 DEF InstallerStates, InstallerSteps

(* A requirement fails, or is met by a version that is or gets installed.  *)
LEMMA ResolveCases ==
  ASSUME ModTypes, installer.todo # <<>>, NEW x \in Head(installer.todo), Resolve(x)
  PROVE  \/ Error(x) /\ folders' \subseteq folders /\ (installer.dry => folders' = folders)
         \/ \E v \in x.allowed, path \in Parents \ {Workspace}, force \in BOOLEAN :
              /\ installer' = Record(x, v, path, force)
              /\ \/ /\ folders' = folders
                    /\ installer.dry \/ \E e \in installer.lock : Installed(e) = <<x.mod, v>>
                 \/ ~installer.dry /\ folders' = folders \cup {<<x.mod, v>>}
<1> DEFINE fetched == installer.known[x.mod]
           newest == IF fetched = 0 THEN tags[x.mod] ELSE fetched
           available == Available(x, newest)
           childForce == IF x.parent = Workspace THEN FALSE ELSE x.force
           Result == \E v \in x.allowed, path \in Parents \ {Workspace}, force \in BOOLEAN :
              /\ installer' = Record(x, v, path, force)
              /\ \/ /\ folders' = folders
                    /\ installer.dry \/ \E e \in installer.lock : Installed(e) = <<x.mod, v>>
                 \/ ~installer.dry /\ folders' = folders \cup {<<x.mod, v>>}
<1>1. x.force \in BOOLEAN /\ x.allowed \in SUBSET Versions /\ installer.lock \subseteq Entries
  BY WalkAt DEF ModTypes, InstallerStates
<1>2. childForce \in BOOLEAN
  BY <1>1
<1>3. ASSUME NEW e \in Current(x), installer' = Record(x, e.version, Installed(e), childForce),
             folders' = folders
      PROVE  Result
  <2>1. e \in installer.lock /\ e.mod = x.mod /\ e.version \in x.allowed
    BY DEF Current
  <2>2. Installed(e) \in Parents \ {Workspace} /\ Installed(e) = <<x.mod, e.version>>
    BY <1>1, <2>1, PathFacts DEF Installed
  <2> QED
    BY <1>2, <1>3, <2>1, <2>2
<1>4. available # {} => Max(available) \in x.allowed
  <2>1. available \in SUBSET Versions /\ available \subseteq x.allowed
    BY <1>1 DEF Available
  <2> HIDE DEF available
  <2> QED
    BY <2>1, MaxOfVersions
<1>5. ASSUME available # {},
             LET v == Max(available)
                 force == x.parent = Workspace \/ x.force IN
             /\ installer' = Record(x, v, Fresh, force)
             /\ folders' = IF installer.dry THEN folders ELSE folders \cup {<<x.mod, v>>}
      PROVE  Result
  <2>1. PICK v \in x.allowed : v = Max(available)
    BY <1>4, <1>5
  <2>2. PICK force \in BOOLEAN : force = (x.parent = Workspace \/ x.force)
    BY <1>1
  <2>3. /\ installer' = Record(x, v, Fresh, force)
        /\ folders' = IF installer.dry THEN folders ELSE folders \cup {<<x.mod, v>>}
    BY <1>5, <2>1, <2>2
  <2> QED
    BY <2>3, PathFacts
<1> HIDE DEF Result, available, childForce
<1>6. \/ Error(x) /\ folders' \subseteq folders /\ (installer.dry => folders' = folders)
      \/ \E e \in Current(x) : installer' = Record(x, e.version, Installed(e), childForce) /\ folders' = folders
      \/ /\ available # {}
         /\ LET v == Max(available)
                force == x.parent = Workspace \/ x.force IN
            /\ installer' = Record(x, v, Fresh, force)
            /\ folders' = IF installer.dry THEN folders ELSE folders \cup {<<x.mod, v>>}
  BY DEF Resolve, available, childForce
<1> QED
  BY <1>3, <1>5, <1>6 DEF Result

-----------------------------------------------------------------------------
(* The walk through the requirements.                                      *)

LEMMA RecordStep ==
  ASSUME ModTypes, SolvedInv, ~InstallerAt("idle"), installer.todo # <<>>,
         NEW x \in Head(installer.todo), NEW v \in x.allowed,
         NEW path \in Parents \ {Workspace}, NEW force \in BOOLEAN,
         installer' = Record(x, v, path, force),
         \/ folders' = folders /\ (installer.dry \/ \E e \in installer.lock : Installed(e) = <<x.mod, v>>)
         \/ ~installer.dry /\ folders' = folders \cup {<<x.mod, v>>}
  PROVE  SolvedInv'
<1> SUFFICES ASSUME ~installer'.failed, ~installer'.clash
             PROVE  (WorkspaceMet /\ DependenciesMet /\ OfWorkspace /\ OneEach(installer.newLock)
                       /\ FoldersInv)'
  BY DEF SolvedInv
<1>1. /\ x \in Requirements /\ v \in Versions /\ x.mod \in Mods /\ Pending(x)
      /\ installer.todo \in Seq(SUBSET Requirements)
      /\ installer.newLock \in SUBSET Entries
  BY WalkAt DEF ModTypes, InstallerStates
<1>2. PICK ne : ne = EntryFor(x, v)
  OBVIOUS
<1>3. PICK items : items = Items(Requires[<<x.mod, v>>], path, force)
  OBVIOUS
<1>4. /\ installer'.dry = installer.dry /\ installer'.required = installer.required
      /\ installer'.lock = installer.lock /\ installer'.installedMods = installer.installedMods
      /\ ~installer.failed /\ ~installer.clash
      /\ installer'.newLock = Put(installer.newLock, ne) /\ SameVersion(installer.newLock, x, v)
      /\ installer'.todo = Follows(installer.todo, x, items)
  BY <1>2, <1>3, RecordEffect
<1>5. WorkspaceMet /\ DependenciesMet /\ OfWorkspace /\ OneEach(installer.newLock) /\ FoldersInv
  BY <1>4 DEF SolvedInv
<1>6. /\ ne \in Entries /\ ne.parent = x.parent /\ ne.mod = x.mod /\ ne.version = v
      /\ ne \in installer'.newLock
      /\ \A f \in installer'.newLock :
           f = ne \/ (f \in installer.newLock /\ ~(f.parent = x.parent /\ f.mod = x.mod))
      /\ \A f \in installer.newLock : \E g \in installer'.newLock :
           g.parent = f.parent /\ g.mod = f.mod /\ g.version = f.version
      /\ Installed(ne) = <<x.mod, v>>
  <2>1. PICK lock \in SUBSET Entries : lock = installer.newLock
    BY <1>1
  <2>2. ne \in Entries /\ ne.parent = x.parent /\ ne.mod = x.mod /\ ne.version = v
    BY <1>1, <1>2, EntryFields
  <2>3. /\ ne \in Put(lock, ne)
        /\ \A f \in Put(lock, ne) :
             f = ne \/ (f \in lock /\ ~(f.parent = ne.parent /\ f.mod = ne.mod))
        /\ SameVersion(lock, ne, ne.version) =>
             \A f \in lock : \E g \in Put(lock, ne) :
               g.parent = f.parent /\ g.mod = f.mod /\ g.version = f.version
    BY <2>1, <2>2, PutEntry
  <2>4. SameVersion(lock, ne, ne.version)
    BY <1>4, <2>1, <2>2 DEF SameVersion
  <2>5. installer'.newLock = Put(lock, ne) /\ Installed(ne) = <<x.mod, v>>
    BY <1>4, <2>1, <2>2 DEF Installed
  <2> QED
    BY <2>1, <2>2, <2>3, <2>4, <2>5
<1>7. PICK needs : needs = Requires[<<x.mod, v>>]
  OBVIOUS
<1>8. /\ items \in SUBSET Requirements
      /\ \A m \in Mods : needs[m] # {} =>
           \E y \in items : y.mod = m /\ y.allowed = needs[m] /\ y.parent = path
      /\ \A y \in items : y.parent = path
  <2>1. needs \in [Mods -> SUBSET Versions]
    BY <1>1, <1>7, ModAssumption
  <2> QED
    BY <1>3, <1>7, <2>1, ItemsRequired
<1>9. /\ \A y : Pending(y)' => y \in items \/ Pending(y)
      /\ \A y : Pending(y) /\ y # x => Pending(y)'
      /\ \A y \in items : Pending(y)'
  <2>1. PICK pile \in Seq(SUBSET Requirements) : pile = installer.todo
    BY <1>1
  <2>2. pile # <<>> /\ items \in SUBSET Requirements
    BY <1>8, <2>1
  <2>3. /\ \A y : Waits(Follows(pile, x, items), y) => y \in items \/ Waits(pile, y)
        /\ \A y : Waits(pile, y) /\ y # x => Waits(Follows(pile, x, items), y)
        /\ \A y \in items : Waits(Follows(pile, x, items), y)
    BY <2>1, <2>2, FollowingWaits
  <2>4. installer'.todo = Follows(pile, x, items)
    BY <1>4, <2>1
  <2> QED
    BY <2>1, <2>3, <2>4 DEF Pending
<1>10. WorkspaceMet'
  <2> SUFFICES ASSUME NEW m \in Mods, installer.required[m] # {}
               PROVE  \/ \E e \in installer'.newLock :
                           e.parent = Workspace /\ e.mod = m /\ e.version \in installer.required[m]
                      \/ \E y \in Requirements : Pending(y)' /\ y.parent = Workspace /\ y.mod = m
                                                 /\ y.allowed = installer.required[m]
    BY <1>4 DEF WorkspaceMet
  <2>1. CASE \E e \in installer.newLock :
               e.parent = Workspace /\ e.mod = m /\ e.version \in installer.required[m]
    BY <1>6, <2>1
  <2>2. ASSUME NEW y \in Requirements, Pending(y), y.parent = Workspace, y.mod = m,
               y.allowed = installer.required[m]
        PROVE  \/ \E e \in installer'.newLock :
                    e.parent = Workspace /\ e.mod = m /\ e.version \in installer.required[m]
               \/ Pending(y)'
    BY <1>6, <1>9, <2>2
  <2> QED
    BY <1>5, <2>1, <2>2 DEF WorkspaceMet
<1>11. DependenciesMet'
  <2> SUFFICES ASSUME NEW e \in installer'.newLock, NEW n \in Mods, Requires[Installed(e)][n] # {}
               PROVE  \/ \E f \in installer'.newLock : f.mod = n /\ f.version \in Requires[Installed(e)][n]
                      \/ \E y \in Requirements : Pending(y)' /\ y.mod = n
                                                 /\ y.allowed = Requires[Installed(e)][n]
    BY DEF DependenciesMet, Installed
  <2>1. CASE e = ne
    BY <1>6, <1>7, <1>8, <1>9, <2>1
  <2>2. CASE e # ne
    <3>1. e \in installer.newLock
      BY <1>6, <2>2
    <3>2. ASSUME NEW f \in installer.newLock, f.mod = n, f.version \in Requires[Installed(e)][n]
          PROVE  \E g \in installer'.newLock : g.mod = n /\ g.version \in Requires[Installed(e)][n]
      BY <1>6, <3>2
    <3>3. ASSUME NEW y \in Requirements, Pending(y), y.mod = n, y.allowed = Requires[Installed(e)][n]
          PROVE  \/ \E g \in installer'.newLock : g.mod = n /\ g.version \in Requires[Installed(e)][n]
                 \/ Pending(y)'
      BY <1>6, <1>9, <3>3
    <3> QED
      BY <1>5, <3>1, <3>2, <3>3 DEF DependenciesMet
  <2> QED
    BY <2>1, <2>2
<1>12. OfWorkspace'
  <2>1. ASSUME NEW y \in Requirements, Pending(y)', y.parent = Workspace
        PROVE  y.allowed = installer.required[y.mod]
    BY <1>5, <1>8, <1>9, <2>1 DEF OfWorkspace
  <2>2. ASSUME NEW e \in installer'.newLock, e.parent = Workspace
        PROVE  e.version \in installer.required[e.mod]
    BY <1>1, <1>5, <1>6, <2>2 DEF OfWorkspace
  <2> QED
    BY <1>4, <2>1, <2>2 DEF OfWorkspace
<1>13. OneEach(installer.newLock)'
  BY <1>5, <1>6 DEF OneEach
<1>14. FoldersInv'
  <2> SUFFICES ASSUME ~installer.dry
               PROVE  /\ \A e \in installer.lock \cup installer'.newLock : Installed(e) \in folders'
                      /\ \A mv \in folders' :
                           mv \in installer.installedMods \/ Locked(installer'.newLock, mv[1], mv[2])
    BY <1>4 DEF FoldersInv, Locked, Installed
  <2>1. /\ \A e \in installer.lock \cup installer.newLock : Installed(e) \in folders
        /\ \A mv \in folders : mv \in installer.installedMods \/ Locked(installer.newLock, mv[1], mv[2])
    BY <1>5 DEF FoldersInv
  <2>2. <<x.mod, v>> \in folders' /\ folders \subseteq folders' /\ folders' \subseteq folders \cup {<<x.mod, v>>}
    BY <2>1
  <2>3. ASSUME NEW e \in installer.lock \cup installer'.newLock PROVE Installed(e) \in folders'
    BY <1>6, <2>1, <2>2, <2>3
  <2>4. ASSUME NEW mv \in folders'
        PROVE  mv \in installer.installedMods \/ Locked(installer'.newLock, mv[1], mv[2])
    <3>1. CASE mv = <<x.mod, v>>
      BY <1>6, <3>1 DEF Locked
    <3>2. CASE mv \in folders /\ Locked(installer.newLock, mv[1], mv[2])
      BY <1>6, <3>2 DEF Locked, Installed
    <3> QED
      BY <2>1, <2>2, <3>1, <3>2
  <2> QED
    BY <2>3, <2>4
<1> QED
  BY <1>10, <1>11, <1>12, <1>13, <1>14

-----------------------------------------------------------------------------
(* What the other steps change.                                            *)

LEMMA TailWaits ==
  ASSUME NEW pile \in Seq(SUBSET Requirements), pile # <<>>
  PROVE  /\ Tail(pile) \in Seq(SUBSET Requirements)
         /\ \A y : Waits(Tail(pile), y) => Waits(pile, y)
         /\ Head(pile) = {} => \A y : Waits(pile, y) => Waits(Tail(pile), y)
<1>1. PICK rest : rest = Tail(pile)
  OBVIOUS
<1>2. /\ rest \in Seq(SUBSET Requirements) /\ Len(pile) \in Nat \ {0} /\ Head(pile) = pile[1]
      /\ Len(rest) = Len(pile) - 1 /\ \A k \in 1..(Len(pile) - 1) : rest[k] = pile[k + 1]
  BY <1>1
<1>3. DOMAIN pile = 1..Len(pile) /\ DOMAIN rest = 1..(Len(pile) - 1)
  BY <1>2
<1>4. ASSUME NEW y, Waits(rest, y) PROVE Waits(pile, y)
  <2>1. PICK k \in 1..(Len(pile) - 1) : y \in rest[k]
    BY <1>3, <1>4 DEF Waits
  <2>2. k + 1 \in 1..Len(pile) /\ y \in pile[k + 1]
    BY <1>2, <2>1
  <2> QED
    BY <1>3, <2>2 DEF Waits
<1>5. ASSUME Head(pile) = {}, NEW y, Waits(pile, y) PROVE Waits(rest, y)
  <2>1. PICK k \in 1..Len(pile) : y \in pile[k]
    BY <1>3, <1>5 DEF Waits
  <2>2. k # 1
    BY <1>2, <1>5, <2>1
  <2>3. PICK j \in 1..(Len(pile) - 1) : k = j + 1
    <3>1. k - 1 \in 1..(Len(pile) - 1) /\ k = (k - 1) + 1
      BY <1>2, <2>1, <2>2
    <3> QED
      BY <3>1
  <2>4. y \in rest[j]
    BY <1>2, <2>1, <2>3
  <2> QED
    BY <1>3, <2>4 DEF Waits
<1> QED
  BY <1>1, <1>2, <1>4, <1>5

LEMMA OneWaits ==
  ASSUME NEW A
  PROVE  \A y : Waits(<<A>>, y) <=> y \in A
BY DEF Waits

LEMMA NothingWaits == installer.todo = <<>> => \A y : ~Pending(y)
BY DEF Pending, Waits

(* A step that leaves what is locked, installed and looked for alone.      *)
LEMMA KeepsSolved ==
  ASSUME SolvedInv, ~InstallerAt("idle"), folders' = folders,
         installer'.required = installer.required, installer'.dry = installer.dry,
         installer'.lock = installer.lock, installer'.newLock = installer.newLock,
         installer'.installedMods = installer.installedMods,
         installer'.failed = installer.failed, installer'.clash = installer.clash,
         \A y : Pending(y)' <=> Pending(y)
  PROVE  SolvedInv'
<1> SUFFICES ASSUME ~installer'.failed, ~installer'.clash
             PROVE  (WorkspaceMet /\ DependenciesMet /\ OfWorkspace /\ OneEach(installer.newLock)
                       /\ FoldersInv)'
  BY DEF SolvedInv
<1>1. WorkspaceMet /\ DependenciesMet /\ OfWorkspace /\ OneEach(installer.newLock) /\ FoldersInv
  BY DEF SolvedInv
<1>2. WorkspaceMet'
  BY <1>1 DEF WorkspaceMet
<1>3. DependenciesMet'
  <2> SUFFICES ASSUME NEW e \in installer.newLock, NEW n \in Mods, Requires[Installed(e)][n] # {}
               PROVE  \/ \E f \in installer.newLock : f.mod = n /\ f.version \in Requires[Installed(e)][n]
                      \/ \E x \in Requirements : Pending(x)' /\ x.mod = n
                                                 /\ x.allowed = Requires[Installed(e)][n]
    BY DEF DependenciesMet, Installed
  <2>1. \/ \E f \in installer.newLock : f.mod = n /\ f.version \in Requires[Installed(e)][n]
        \/ \E x \in Requirements : Pending(x) /\ x.mod = n
                                   /\ x.allowed = Requires[Installed(e)][n]
    BY <1>1 DEF DependenciesMet
  <2> QED
    BY <2>1
<1>4. OfWorkspace'
  BY <1>1 DEF OfWorkspace
<1>5. FoldersInv' /\ OneEach(installer.newLock)'
  BY <1>1 DEF FoldersInv, Locked, Installed, OneEach
<1> QED
  BY <1>2, <1>3, <1>4, <1>5

LEMMA KeepsGood ==
  ASSUME Good, lockFile' = lockFile, modfile' = modfile, folders' = folders
  PROVE  Good'
BY DEF Good, Found, OneEach, Installed

LEMMA IdleState ==
  /\ Idle \in InstallerStates /\ Idle.at = "idle"
  /\ Idle.newLock = {} /\ NoRequirements \in [Mods -> SUBSET Versions]
<1>1. NoRequirements \in [Mods -> SUBSET Versions]
  BY DEF NoRequirements
<1>2. PICK required \in [Mods -> SUBSET Versions] : required = NoRequirements
  BY <1>1
<1>3. PICK zero \in [Mods -> Versions \cup {0}] : zero = [m \in Mods |-> 0]
  OBVIOUS
<1>4. PICK pile \in Seq(SUBSET Requirements) : pile = <<>>
  <2>1. <<>> \in Seq(SUBSET Requirements)
    OBVIOUS
  <2> QED
    BY <2>1, Zenon
<1>5. PICK none \in SUBSET Entries : none = {}
  OBVIOUS
<1>6. PICK bare \in SUBSET ModVersions : bare = {}
  OBVIOUS
<1>7. Idle = [op |-> "none", at |-> "idle", dry |-> FALSE, args |-> FALSE,
              required |-> required, lock |-> none, newLock |-> none, installedMods |-> bare,
              todo |-> pile, known |-> zero, failed |-> FALSE, clash |-> FALSE]
  BY <1>2, <1>3, <1>4, <1>5, <1>6 DEF Idle
<1> QED
  BY <1>1, <1>5, <1>7 DEF InstallerStates, InstallerSteps

\* A command that has ended: what is left of the invariant.
LEMMA EndInv ==
  ASSUME ModTypes, installer' = Idle, ModTypeOK', outcome' = "well" => Good'
  PROVE  ModInv'
<1>1. installer' \in InstallerStates /\ InstallerAt("idle")' /\ installer'.at = "idle"
  BY IdleState DEF InstallerAt
<1>2. StepInv'
  BY <1>1 DEF StepInv, InstallerAt
<1>3. SolvedInv'
  BY <1>1 DEF SolvedInv
<1>4. WellInv'
  BY DEF WellInv
<1> QED
  BY <1>1, <1>2, <1>3, <1>4 DEF ModInv, ModTypes

LEMMA ModInitInv == ModInit => ModInv
<1> SUFFICES ASSUME ModInit PROVE ModInv
  OBVIOUS
<1>1. ModTypeOK
  <2>1. tags \in [Mods -> Versions]
    BY VersionFacts DEF ModInit
  <2>2. installer.newLock = {}
    BY IdleState DEF ModInit
  <2> QED
    BY <2>1, <2>2, IdleState DEF ModInit, ModTypeOK
<1>2. ModTypes
  BY <1>1, IdleState DEF ModTypes, ModInit
<1>3. installer.at = "idle" /\ InstallerAt("idle")
  BY IdleState DEF ModInit, InstallerAt
<1>4. StepInv /\ SolvedInv
  BY <1>3 DEF StepInv, SolvedInv, InstallerAt
<1>5. Good
  <2>1. \A m \in Mods : modfile[m] = {}
    BY DEF ModInit, NoRequirements
  <2> QED
    BY <2>1 DEF Good, ModInit, OneEach
<1> QED
  BY <1>2, <1>4, <1>5 DEF ModInv, WellInv

-----------------------------------------------------------------------------
(* Each step keeps the invariant.                                          *)

LEMMA ModCommandStep ==
  ASSUME ModInv, NEW op \in {"install", "update", "uninstall"}, NEW args \in Args, NEW dry \in BOOLEAN,
         ModCommand(op, args, dry)
  PROVE  ModInv'
<1>1. PICK required : required = NewRequirements(op, args)
  OBVIOUS
<1>2. /\ ModTypeOK /\ modfile \in [Mods -> SUBSET Versions] /\ lockFile \in SUBSET Entries
      /\ folders \in SUBSET ModVersions /\ args \in [Mods -> SUBSET Versions]
      /\ InstallerAt("idle")
  BY ModAssumption DEF ModInv, ModTypes, ModTypeOK, ModVersions, ModCommand
<1>3. required \in [Mods -> SUBSET Versions]
  <2>1. CASE op = "install"
    BY <1>1, <1>2, <2>1 DEF NewRequirements
  <2>2. CASE op = "uninstall"
    BY <1>1, <1>2, <2>2 DEF NewRequirements
  <2>3. CASE op = "update"
    BY <1>1, <1>2, <2>3 DEF NewRequirements
  <2> QED
    BY <2>1, <2>2, <2>3
<1>4. PICK items : items = Items(required, Workspace, op = "update")
  OBVIOUS
<1>5. /\ items \in SUBSET Requirements
      /\ \A m \in Mods : required[m] # {} =>
           \E x \in items : x.mod = m /\ x.allowed = required[m] /\ x.parent = Workspace
      /\ \A x \in items : /\ x.parent = Workspace /\ x.mod \in Mods
                          /\ x.allowed = required[x.mod] /\ required[x.mod] # {}
  <2>1. PICK force \in BOOLEAN : force = (op = "update")
    OBVIOUS
  <2> QED
    <3>1. items = Items(required, Workspace, force) /\ Workspace \in Parents
      BY <1>4, <2>1, PathFacts
    <3> QED
      BY <1>3, <3>1, ItemsRequired
<1>6. PICK named \in BOOLEAN : named = (args # NoRequirements)
  OBVIOUS
<1>7. PICK lock \in SUBSET Entries : lock = LoadedLock
  BY <1>2 DEF LoadedLock
<1>8. PICK pile \in Seq(SUBSET Requirements) : pile = <<items>>
  <2>1. <<items>> \in Seq(SUBSET Requirements)
    BY <1>5
  <2> QED
    BY <2>1, Zenon
<1>9. /\ installer' \in InstallerStates /\ installer'.at = "resolve" /\ installer'.op = op
      /\ installer'.dry = dry /\ installer'.args = named /\ installer'.required = required
      /\ installer'.lock = lock /\ installer'.newLock = {} /\ installer'.installedMods = folders
      /\ installer'.todo = pile
  <2>1. installer' = [Idle EXCEPT !.op = op, !.at = "resolve", !.dry = dry, !.args = named,
                                  !.required = required, !.lock = lock, !.installedMods = folders,
                                  !.todo = pile]
    BY <1>1, <1>4, <1>6, <1>7, <1>8 DEF ModCommand
  <2>2. PICK idle \in InstallerStates : idle = Idle /\ idle.newLock = {}
    BY IdleState
  <2>3. PICK there \in SUBSET ModVersions : there = folders
    BY <1>2
  <2>4. PICK next : next = [idle EXCEPT !.op = op, !.at = "resolve", !.dry = dry, !.args = named,
                                        !.required = required, !.lock = lock, !.installedMods = there,
                                        !.todo = pile]
    OBVIOUS
  <2>5. installer' = next
    BY <2>1, <2>2, <2>3, <2>4
  <2>6. op \in {"none", "install", "update", "uninstall"} /\ "resolve" \in InstallerSteps
    BY DEF InstallerSteps
  <2>7. next \in InstallerStates
    BY <1>3, <2>2, <2>4, <2>6 DEF InstallerStates
  <2>8. /\ next.at = "resolve" /\ next.op = op /\ next.dry = dry /\ next.args = named
        /\ next.required = required /\ next.lock = lock /\ next.newLock = idle.newLock
        /\ next.installedMods = there /\ next.todo = pile
    BY <2>2, <2>4 DEF InstallerStates
  <2> QED
    BY <2>2, <2>3, <2>5, <2>7, <2>8
<1>10. /\ tags' = tags /\ modfile' = modfile /\ lockFile' = lockFile /\ lockReadable' = lockReadable
       /\ folders' = folders /\ outcome' = outcome
  BY DEF ModCommand
<1>11. ModTypes'
  BY <1>2, <1>9, <1>10 DEF ModTypes, ModTypeOK
<1>12. \A y : Pending(y)' <=> y \in items
  BY <1>8, <1>9, OneWaits DEF Pending
<1>13. StepInv'
  <2>1. /\ InstallerAt("resolve")' /\ ~InstallerAt("idle")' /\ ~InstallerAt("prune")'
        /\ ~InstallerAt("saveLock")' /\ ~InstallerAt("saveModfile")'
    BY <1>9 DEF InstallerAt
  <2>2. required = NoRequirements => \A y : ~Pending(y)'
    BY <1>5, <1>12 DEF NoRequirements
  <2>3. ~named /\ op # "uninstall" => required = modfile
    <3>1. CASE op = "update"
      BY <1>1, <3>1 DEF NewRequirements
    <3>2. ASSUME op = "install", ~named PROVE required = modfile
      <4>1. \A m \in Mods : args[m] = {}
        BY <1>6, <3>2 DEF NoRequirements
      <4>2. required = [m \in Mods |-> IF args[m] # {} THEN args[m] ELSE modfile[m]]
        BY <1>1, <3>2 DEF NewRequirements
      <4> QED
        BY <1>2, <4>1, <4>2
    <3> QED
      BY <3>1, <3>2
  <2> QED
    BY <1>9, <1>10, <2>1, <2>2, <2>3 DEF StepInv
<1>14. SolvedInv'
  <2>1. WorkspaceMet'
    BY <1>5, <1>9, <1>12 DEF WorkspaceMet
  <2>2. DependenciesMet' /\ OneEach(installer.newLock)'
    BY <1>9 DEF DependenciesMet, OneEach
  <2>3. OfWorkspace'
    BY <1>5, <1>9, <1>12 DEF OfWorkspace
  <2>4. FoldersInv'
    BY <1>7, <1>9, <1>10 DEF FoldersInv, LoadedLock, Installed
  <2> QED
    BY <2>1, <2>2, <2>3, <2>4 DEF SolvedInv
<1>15. WellInv'
  BY <1>2, <1>10, KeepsGood DEF WellInv, ModInv
<1> QED
  BY <1>11, <1>13, <1>14, <1>15 DEF ModInv

LEMMA ResolveStep ==
  ASSUME ModInv, InstallerAt("resolve"), installer.todo # <<>>,
         NEW x \in Head(installer.todo), Resolve(x)
  PROVE  ModInv'
<1>1. ModTypes /\ StepInv /\ SolvedInv /\ WellInv /\ ~InstallerAt("idle") /\ installer.at = "resolve"
  BY DEF ModInv, InstallerAt
<1>2. x \in Requirements /\ x.mod \in Mods /\ x.allowed \in SUBSET Versions /\ Pending(x)
  BY <1>1, WalkAt
<1>3. /\ tags' = tags /\ modfile' = modfile /\ lockFile' = lockFile /\ lockReadable' = lockReadable
      /\ outcome' = outcome
  BY DEF Resolve
<1>4. installer.required # NoRequirements
  BY <1>1, <1>2 DEF StepInv
<1>5. ASSUME installer' \in InstallerStates, installer'.at = "resolve", folders' \subseteq ModVersions,
             installer'.op = installer.op, installer'.dry = installer.dry,
             installer'.args = installer.args, installer'.required = installer.required,
             installer.dry => folders' = folders
      PROVE  ModTypes' /\ StepInv' /\ WellInv'
  <2>1. ModTypes'
    <3>1. ModTypeOK /\ installer'.newLock \in SUBSET Entries
      BY <1>1, <1>5 DEF ModTypes, InstallerStates
    <3>2. ModTypeOK'
      BY <1>3, <1>5, <3>1 DEF ModTypeOK, ModVersions
    <3> QED
      BY <1>5, <3>2 DEF ModTypes
  <2>2. StepInv'
    <3>1. /\ InstallerAt("resolve")' /\ ~InstallerAt("idle")' /\ ~InstallerAt("prune")'
          /\ ~InstallerAt("saveLock")' /\ ~InstallerAt("saveModfile")'
      BY <1>5 DEF InstallerAt
    <3>2. ~installer.args /\ installer.op # "uninstall" => installer.required = modfile
      BY <1>1 DEF StepInv
    <3> QED
      BY <1>3, <1>4, <1>5, <3>1, <3>2 DEF StepInv
  <2>3. WellInv'
    <3>1. ~InstallerAt("idle")'
      BY <1>5 DEF InstallerAt
    <3> SUFFICES ASSUME outcome = "well", installer.dry PROVE Good'
      BY <1>3, <1>5, <3>1 DEF WellInv
    <3> QED
      BY <1>1, <1>3, <1>5, KeepsGood DEF WellInv
  <2> QED
    BY <2>1, <2>2, <2>3
<1>6. folders \subseteq ModVersions
  BY <1>1 DEF ModTypes, ModTypeOK, ModVersions
<1>7. CASE Error(x) /\ folders' \subseteq folders /\ (installer.dry => folders' = folders)
  <2>1. /\ installer' \in InstallerStates /\ installer'.at = installer.at /\ installer'.failed
        /\ installer'.op = installer.op /\ installer'.dry = installer.dry
        /\ installer'.args = installer.args /\ installer'.required = installer.required
    BY <1>1, <1>7, ErrorEffect
  <2>2. ModTypes' /\ StepInv' /\ WellInv'
    BY <1>1, <1>5, <1>6, <1>7, <2>1
  <2>3. SolvedInv'
    BY <2>1 DEF SolvedInv
  <2> QED
    BY <2>2, <2>3 DEF ModInv
<1>8. ASSUME NEW v \in x.allowed, NEW path \in Parents \ {Workspace}, NEW force \in BOOLEAN,
             installer' = Record(x, v, path, force),
             \/ folders' = folders /\ (installer.dry \/ \E e \in installer.lock : Installed(e) = <<x.mod, v>>)
             \/ ~installer.dry /\ folders' = folders \cup {<<x.mod, v>>}
      PROVE  ModInv'
  <2>1. SolvedInv'
    BY <1>1, <1>8, RecordStep
  <2>2. /\ installer' \in InstallerStates /\ installer'.at = "resolve"
        /\ installer'.op = installer.op /\ installer'.dry = installer.dry
        /\ installer'.args = installer.args /\ installer'.required = installer.required
    BY <1>1, <1>8, RecordEffect
  <2>3. <<x.mod, v>> \in ModVersions
    BY <1>2 DEF ModVersions
  <2>4. folders' \subseteq ModVersions /\ (installer.dry => folders' = folders)
    BY <1>6, <1>8, <2>3
  <2> QED
    BY <1>5, <2>1, <2>2, <2>4 DEF ModInv
<1>9. \/ Error(x) /\ folders' \subseteq folders /\ (installer.dry => folders' = folders)
      \/ \E v \in x.allowed, path \in Parents \ {Workspace}, force \in BOOLEAN :
           /\ installer' = Record(x, v, path, force)
           /\ \/ /\ folders' = folders
                 /\ installer.dry \/ \E e \in installer.lock : Installed(e) = <<x.mod, v>>
              \/ ~installer.dry /\ folders' = folders \cup {<<x.mod, v>>}
  BY <1>1, ResolveCases
<1> QED
  BY <1>7, <1>8, <1>9

\* A step of the end of a command: only where it is and what it saves.
LEMMA AtStep ==
  ASSUME ModInv, ~InstallerAt("idle"), NEW at \in InstallerSteps,
         installer' = [installer EXCEPT !.at = at], folders' = folders
  PROVE  /\ installer' \in InstallerStates /\ installer'.at = at
         /\ installer'.op = installer.op /\ installer'.dry = installer.dry
         /\ installer'.args = installer.args /\ installer'.required = installer.required
         /\ installer'.newLock = installer.newLock /\ installer'.todo = installer.todo
         /\ installer'.failed = installer.failed
         /\ SolvedInv'
<1>1. installer \in InstallerStates /\ SolvedInv
  BY DEF ModInv, ModTypes
<1>2. /\ installer' \in InstallerStates /\ installer'.at = at
      /\ installer'.op = installer.op /\ installer'.dry = installer.dry
      /\ installer'.args = installer.args /\ installer'.required = installer.required
      /\ installer'.lock = installer.lock /\ installer'.installedMods = installer.installedMods
      /\ installer'.newLock = installer.newLock /\ installer'.todo = installer.todo
      /\ installer'.failed = installer.failed /\ installer'.clash = installer.clash
  BY <1>1 DEF InstallerStates
<1>3. \A y : Pending(y)' <=> Pending(y)
  BY <1>2 DEF Pending
<1>4. SolvedInv'
  BY <1>1, <1>2, <1>3, KeepsSolved
<1> QED
  BY <1>2, <1>4

LEMMA DoneStep == ModInv /\ ModDone => ModInv'
<1> SUFFICES ASSUME ModInv, ModDone PROVE ModInv'
  OBVIOUS
<1>1. /\ ModTypes /\ StepInv /\ SolvedInv /\ WellInv /\ installer.at = "resolve"
      /\ ~InstallerAt("idle") /\ installer \in InstallerStates
      /\ installer.todo \in Seq(SUBSET Requirements)
  BY DEF ModInv, ModDone, InstallerAt, ModTypes, InstallerStates
<1>2. /\ tags' = tags /\ modfile' = modfile /\ lockFile' = lockFile /\ lockReadable' = lockReadable
      /\ folders' = folders /\ outcome' = outcome
      /\ installer.todo # <<>> /\ Head(installer.todo) = {}
  BY DEF ModDone
<1>3. PICK pile \in Seq(SUBSET Requirements) : pile = installer.todo
  BY <1>1
<1>4. PICK rest \in Seq(SUBSET Requirements) : rest = Tail(pile)
  BY <1>2, <1>3, TailWaits
<1>5. installer' = [installer EXCEPT !.todo = rest]
  BY <1>3, <1>4 DEF ModDone
<1>6. /\ installer' \in InstallerStates /\ installer'.at = installer.at
      /\ installer'.op = installer.op /\ installer'.dry = installer.dry
      /\ installer'.args = installer.args /\ installer'.required = installer.required
      /\ installer'.lock = installer.lock /\ installer'.installedMods = installer.installedMods
      /\ installer'.newLock = installer.newLock /\ installer'.todo = rest
      /\ installer'.failed = installer.failed /\ installer'.clash = installer.clash
  BY <1>1, <1>5 DEF InstallerStates
<1>7. \A y : Pending(y)' <=> Pending(y)
  <2>1. \A y : Waits(rest, y) <=> Waits(pile, y)
    BY <1>2, <1>3, <1>4, TailWaits
  <2> QED
    BY <1>3, <1>6, <2>1 DEF Pending
<1>8. SolvedInv'
  BY <1>1, <1>2, <1>6, <1>7, KeepsSolved
<1>9. ModTypes'
  BY <1>1, <1>2, <1>6 DEF ModTypes, ModTypeOK
<1>10. StepInv'
  <2>1. /\ InstallerAt("resolve")' /\ ~InstallerAt("idle")' /\ ~InstallerAt("prune")'
        /\ ~InstallerAt("saveLock")' /\ ~InstallerAt("saveModfile")'
    BY <1>1, <1>6 DEF InstallerAt
  <2>2. /\ installer.required = NoRequirements => installer.newLock = {} /\ \A x : ~Pending(x)
        /\ ~installer.args /\ installer.op # "uninstall" => installer.required = modfile
    BY <1>1 DEF StepInv
  <2> QED
    BY <1>1, <1>2, <1>6, <1>7, <2>1, <2>2 DEF StepInv
<1>11. WellInv'
  <2>1. ~InstallerAt("idle")'
    BY <1>1, <1>6 DEF InstallerAt
  <2> SUFFICES ASSUME outcome = "well", installer.dry PROVE Good'
    BY <1>2, <1>6, <2>1 DEF WellInv
  <2> QED
    BY <1>1, <1>2, KeepsGood DEF WellInv
<1> QED
  BY <1>8, <1>9, <1>10, <1>11 DEF ModInv

LEMMA CompleteStep == ModInv /\ InstallComplete => ModInv'
<1> SUFFICES ASSUME ModInv, InstallComplete PROVE ModInv'
  OBVIOUS
<1>1. /\ ModTypes /\ StepInv /\ SolvedInv /\ WellInv /\ installer.at = "resolve"
      /\ ~InstallerAt("idle") /\ InstallerAt("resolve") /\ installer.todo = <<>>
      /\ installer \in InstallerStates
  BY DEF ModInv, InstallComplete, InstallerAt, ModTypes
<1>2. /\ tags' = tags /\ modfile' = modfile /\ lockFile' = lockFile /\ lockReadable' = lockReadable
      /\ folders' = folders
  BY DEF InstallComplete
<1>3. ASSUME installer' = Idle, outcome' = IF installer.dry THEN outcome ELSE "failed"
      PROVE  ModInv'
  <2>1. ModTypeOK'
    <3>1. installer'.newLock = {} /\ outcome' \in {"well", "failed"}
      BY <1>1, <1>3, IdleState DEF ModTypes, ModTypeOK
    <3> QED
      BY <1>1, <1>2, <3>1 DEF ModTypes, ModTypeOK
  <2>2. outcome' = "well" => Good'
    BY <1>1, <1>2, <1>3, KeepsGood DEF WellInv
  <2> QED
    BY <1>1, <1>3, <2>1, <2>2, EndInv
<1>4. ASSUME NEW at \in {"prune", "saveLock"},
             installer' = [installer EXCEPT !.at = at], outcome' = outcome,
             at = "saveLock" <=> ~(installer.failed \/ installer.dry)
      PROVE  ModInv'
  <2>1. at \in InstallerSteps
    BY DEF InstallerSteps
  <2>2. /\ installer' \in InstallerStates /\ installer'.at = at
        /\ installer'.op = installer.op /\ installer'.dry = installer.dry
        /\ installer'.args = installer.args /\ installer'.required = installer.required
        /\ installer'.newLock = installer.newLock /\ installer'.todo = installer.todo
        /\ installer'.failed = installer.failed
        /\ SolvedInv'
    BY <1>1, <1>2, <1>4, <2>1, AtStep
  <2>3. ModTypes'
    BY <1>1, <1>2, <1>4, <2>2 DEF ModTypes, ModTypeOK
  <2>4. StepInv'
    <3>1. /\ ~InstallerAt("resolve")' /\ ~InstallerAt("idle")' /\ ~InstallerAt("saveModfile")'
          /\ InstallerAt("prune")' <=> at = "prune"
          /\ InstallerAt("saveLock")' <=> at = "saveLock"
      BY <1>4, <2>2 DEF InstallerAt
    <3>2. /\ installer.required = NoRequirements => installer.newLock = {} /\ \A x : ~Pending(x)
          /\ ~installer.args /\ installer.op # "uninstall" => installer.required = modfile
      BY <1>1 DEF StepInv
    <3>3. \A y : ~Pending(y)'
      BY <1>1, <2>2, NothingWaits DEF Pending, Waits
    <3> QED
      BY <1>1, <1>2, <1>4, <2>2, <3>1, <3>2, <3>3 DEF StepInv
  <2>5. WellInv'
    <3>1. ~InstallerAt("idle")'
      BY <1>4, <2>2 DEF InstallerAt
    <3> SUFFICES ASSUME outcome = "well", installer.dry PROVE Good'
      BY <1>4, <2>2, <3>1 DEF WellInv
    <3> QED
      BY <1>1, <1>2, KeepsGood DEF WellInv
  <2> QED
    BY <2>2, <2>3, <2>4, <2>5 DEF ModInv
<1> QED
  BY <1>3, <1>4 DEF InstallComplete, End

LEMMA SaveLockStep == ModInv /\ SaveLock => ModInv'
<1> SUFFICES ASSUME ModInv, SaveLock PROVE ModInv'
  OBVIOUS
<1>1. /\ ModTypes /\ StepInv /\ SolvedInv /\ WellInv /\ installer.at = "saveLock"
      /\ ~InstallerAt("idle") /\ ~InstallerAt("resolve") /\ InstallerAt("saveLock")
      /\ installer.newLock \subseteq Entries
  BY DEF ModInv, SaveLock, InstallerAt, ModTypes, ModTypeOK
<1>2. /\ tags' = tags /\ modfile' = modfile /\ lockFile' = installer.newLock
      /\ lockReadable' = lockReadable /\ folders' = folders /\ outcome' = outcome
      /\ installer' = [installer EXCEPT !.at = "saveModfile"] /\ "saveModfile" \in InstallerSteps
  BY DEF SaveLock, InstallerSteps
<1>3. /\ installer' \in InstallerStates /\ installer'.at = "saveModfile"
      /\ installer'.op = installer.op /\ installer'.dry = installer.dry
      /\ installer'.args = installer.args /\ installer'.required = installer.required
      /\ installer'.newLock = installer.newLock /\ installer'.todo = installer.todo
      /\ installer'.failed = installer.failed
      /\ SolvedInv'
  BY <1>1, <1>2, AtStep
<1>4. ModTypes'
  BY <1>1, <1>2, <1>3 DEF ModTypes, ModTypeOK
<1>5. /\ installer.todo = <<>> /\ ~installer.failed /\ ~installer.dry
      /\ installer.required = NoRequirements => installer.newLock = {} /\ \A x : ~Pending(x)
      /\ ~installer.args /\ installer.op # "uninstall" => installer.required = modfile
  BY <1>1 DEF StepInv
<1>6. /\ ~InstallerAt("resolve")' /\ ~InstallerAt("idle")' /\ InstallerAt("saveModfile")'
      /\ ~InstallerAt("prune")' /\ ~InstallerAt("saveLock")'
  BY <1>3 DEF InstallerAt
<1>7. \A y : ~Pending(y)'
  BY <1>3, <1>5 DEF Pending, Waits
<1>8. StepInv'
  BY <1>2, <1>3, <1>5, <1>6, <1>7 DEF StepInv
<1>9. WellInv'
  BY <1>3, <1>5, <1>6 DEF WellInv
<1> QED
  BY <1>3, <1>4, <1>8, <1>9 DEF ModInv

LEMMA SaveModfileStep == ModInv /\ SaveModfile => ModInv'
<1> SUFFICES ASSUME ModInv, SaveModfile PROVE ModInv'
  OBVIOUS
<1>1. /\ ModTypes /\ StepInv /\ SolvedInv /\ WellInv /\ installer.at = "saveModfile"
      /\ ~InstallerAt("idle") /\ ~InstallerAt("resolve") /\ InstallerAt("saveModfile")
      /\ installer.newLock \subseteq Entries
  BY DEF ModInv, SaveModfile, InstallerAt, ModTypes, ModTypeOK
<1>2. /\ tags' = tags
      /\ modfile' = IF installer.args \/ installer.op = "uninstall"
                    THEN installer.required ELSE modfile
      /\ lockFile' = IF installer.required = NoRequirements THEN {} ELSE lockFile
      /\ lockReadable' = lockReadable /\ folders' = folders /\ outcome' = outcome
      /\ installer' = [installer EXCEPT !.at = "prune"] /\ "prune" \in InstallerSteps
  BY DEF SaveModfile, InstallerSteps
<1>3. /\ installer' \in InstallerStates /\ installer'.at = "prune"
      /\ installer'.op = installer.op /\ installer'.dry = installer.dry
      /\ installer'.args = installer.args /\ installer'.required = installer.required
      /\ installer'.newLock = installer.newLock /\ installer'.todo = installer.todo
      /\ installer'.failed = installer.failed
      /\ SolvedInv'
  BY <1>1, <1>2, AtStep
<1>4. /\ installer.todo = <<>> /\ ~installer.failed /\ ~installer.dry
      /\ installer.required = NoRequirements => installer.newLock = {} /\ \A x : ~Pending(x)
      /\ ~installer.args /\ installer.op # "uninstall" => installer.required = modfile
      /\ lockFile = installer.newLock
  BY <1>1 DEF StepInv
<1>5. modfile' = installer.required /\ lockFile' = installer.newLock
  BY <1>2, <1>4
<1>6. ModTypes'
  <2>1. installer.required \in [Mods -> SUBSET Versions]
    BY <1>1 DEF ModTypes, InstallerStates
  <2> QED
    BY <1>1, <1>2, <1>3, <1>5, <2>1 DEF ModTypes, ModTypeOK
<1>7. /\ ~InstallerAt("resolve")' /\ ~InstallerAt("idle")' /\ ~InstallerAt("saveModfile")'
      /\ InstallerAt("prune")' /\ ~InstallerAt("saveLock")'
  BY <1>3 DEF InstallerAt
<1>8. \A y : ~Pending(y)'
  BY <1>3, <1>4 DEF Pending, Waits
<1>9. StepInv'
  BY <1>3, <1>4, <1>5, <1>7, <1>8 DEF StepInv
<1>10. WellInv'
  BY <1>3, <1>4, <1>7 DEF WellInv
<1> QED
  BY <1>3, <1>6, <1>9, <1>10 DEF ModInv

LEMMA PruneStep == ModInv /\ Prune => ModInv'
<1> SUFFICES ASSUME ModInv, Prune PROVE ModInv'
  OBVIOUS
<1>1. /\ ModTypes /\ StepInv /\ SolvedInv /\ WellInv /\ installer.at = "prune"
      /\ ~InstallerAt("idle") /\ ~InstallerAt("resolve") /\ InstallerAt("prune")
      /\ installer.newLock \subseteq Entries /\ folders \subseteq ModVersions
  BY DEF ModInv, Prune, InstallerAt, ModTypes, ModTypeOK, ModVersions
<1>2. /\ tags' = tags /\ modfile' = modfile /\ lockFile' = lockFile
      /\ lockReadable' = lockReadable /\ folders' = folders \ Unreferenced /\ installer' = Idle
      /\ outcome' = (IF installer.failed \/ installer.clash THEN "failed"
                     ELSE IF installer.dry THEN (IF folders' = folders THEN outcome ELSE "failed")
                     ELSE "well")
  BY DEF Prune, End
<1>3. ModTypeOK'
  <2>1. installer'.newLock = {} /\ outcome' \in {"well", "failed"}
    BY <1>1, <1>2, IdleState DEF ModTypes, ModTypeOK
  <2> QED
    BY <1>1, <1>2, <2>1 DEF ModTypes, ModTypeOK
<1>4. ASSUME outcome' = "well" PROVE Good'
  <2>1. ~installer.failed /\ ~installer.clash
    BY <1>2, <1>4
  <2>2. CASE installer.dry
    <3>1. folders' = folders /\ outcome = "well"
      BY <1>2, <1>4, <2>1, <2>2
    <3> QED
      BY <1>1, <1>2, <2>2, <3>1, KeepsGood DEF WellInv
  <2>3. CASE ~installer.dry
    <3>1. /\ lockFile = installer.newLock /\ modfile = installer.required /\ installer.todo = <<>>
      BY <1>1, <2>1, <2>3 DEF StepInv
    <3>2. WorkspaceMet /\ DependenciesMet /\ OneEach(installer.newLock) /\ FoldersInv
      BY <1>1, <2>1 DEF SolvedInv
    <3>3. \A x : ~Pending(x)
      BY <3>1, NothingWaits
    <3>4. \A e \in lockFile : Installed(e) \in folders'
      <4> SUFFICES ASSUME NEW e \in installer.newLock PROVE Installed(e) \in folders \ Unreferenced
        BY <1>2, <3>1
      <4>1. Installed(e) \in folders
        BY <2>3, <3>2 DEF FoldersInv
      <4>2. Locked(installer.newLock, Installed(e)[1], Installed(e)[2])
        BY DEF Locked, Installed
      <4> QED
        BY <4>1, <4>2 DEF Unreferenced
    <3>5. ASSUME NEW mv \in folders', NEW n \in Mods, Requires[mv][n] # {}
          PROVE  \E f \in folders' : f[1] = n /\ f[2] \in Requires[mv][n]
      <4>1. mv \in folders /\ mv \notin Unreferenced /\ mv = <<mv[1], mv[2]>>
        BY <1>1, <1>2, <3>5 DEF ModVersions
      <4>2. Locked(installer.newLock, mv[1], mv[2])
        BY <2>3, <3>2, <4>1 DEF FoldersInv, Unreferenced
      <4>3. PICK e \in installer.newLock : Installed(e) = mv
        BY <4>1, <4>2 DEF Locked
      <4>4. PICK f \in installer.newLock : f.mod = n /\ f.version \in Requires[mv][n]
        BY <3>2, <3>3, <3>5, <4>3 DEF DependenciesMet
      <4>5. Installed(f) \in folders' /\ Installed(f)[1] = n /\ Installed(f)[2] \in Requires[mv][n]
        BY <3>1, <3>4, <4>4 DEF Installed
      <4> QED
        BY <4>5
    <3>6. \A m \in Mods : modfile[m] # {} =>
            \E e \in lockFile : e.parent = Workspace /\ e.mod = m /\ e.version \in modfile[m]
      BY <3>1, <3>2, <3>3 DEF WorkspaceMet
    <3>7. OneEach(lockFile)
      BY <3>1, <3>2
    <3>8. (\A e \in lockFile : Installed(e) \in folders)'
      BY <1>2, <3>4 DEF Installed
    <3>9. (\A mv \in folders, n \in Mods : Requires[mv][n] # {} => Found(n, Requires[mv][n]) # {})'
      BY <3>5 DEF Found
    <3> QED
      BY <1>2, <3>6, <3>7, <3>8, <3>9 DEF Good, OneEach
  <2> QED
    BY <2>2, <2>3
<1> QED
  BY <1>1, <1>2, <1>3, <1>4, EndInv

LEMMA KillStep == ModInv /\ KillInstaller => ModInv'
<1> SUFFICES ASSUME ModInv, KillInstaller PROVE ModInv'
  OBVIOUS
<1>1. /\ tags' = tags /\ modfile' = modfile /\ lockFile' = lockFile
      /\ lockReadable' \in BOOLEAN /\ installer' = Idle /\ outcome' = "failed"
  <2>1. lockReadable' \in BOOLEAN
    BY DEF KillInstaller
  <2>2. /\ tags' = tags /\ modfile' = modfile /\ lockFile' = lockFile
        /\ installer' = Idle /\ outcome' = "failed"
    BY DEF KillInstaller, End
  <2> QED
    BY <2>1, <2>2
<1>2. folders' \subseteq folders
  BY DEF KillInstaller
<1>3. ModTypes /\ ModTypeOK /\ installer'.newLock = {}
  BY <1>1, IdleState DEF ModInv, ModTypes
<1>4. ModTypeOK'
  BY <1>1, <1>2, <1>3 DEF ModTypeOK
<1> QED
  BY <1>1, <1>3, <1>4, EndInv

\* New tags, and a step in which nothing happens.
LEMMA KeepsModInv ==
  ASSUME ModInv, tags' \in [Mods -> Versions], modfile' = modfile, lockFile' = lockFile,
         lockReadable' = lockReadable, folders' = folders, installer' = installer,
         outcome' = outcome
  PROVE  ModInv'
<1>1. ModTypes'
  BY DEF ModInv, ModTypes, ModTypeOK
<1>2. \A y : Pending(y)' <=> Pending(y)
  BY DEF Pending
<1>3. StepInv'
  <2>1. installer.required = NoRequirements /\ ~InstallerAt("idle") => \A y : ~Pending(y)'
    BY <1>2 DEF ModInv, StepInv
  <2>2. /\ InstallerAt("idle")' <=> InstallerAt("idle")
        /\ InstallerAt("resolve")' <=> InstallerAt("resolve")
        /\ InstallerAt("saveLock")' <=> InstallerAt("saveLock")
        /\ InstallerAt("saveModfile")' <=> InstallerAt("saveModfile")
        /\ InstallerAt("prune")' <=> InstallerAt("prune")
    BY DEF InstallerAt
  <2> QED
    BY <2>1, <2>2 DEF ModInv, StepInv
<1>4. SolvedInv'
  <2>1. CASE InstallerAt("idle")
    BY <2>1 DEF SolvedInv, InstallerAt
  <2>2. CASE ~InstallerAt("idle")
    BY <1>2, <2>2, KeepsSolved DEF ModInv
  <2> QED
    BY <2>1, <2>2
<1>5. WellInv'
  BY KeepsGood DEF ModInv, WellInv, InstallerAt
<1> QED
  BY <1>1, <1>3, <1>4, <1>5 DEF ModInv

LEMMA ModStepInv == ModInv /\ [ModNext]_modVars => ModInv'
<1> SUFFICES ASSUME ModInv, [ModNext]_modVars PROVE ModInv'
  OBVIOUS
<1>1. ASSUME NEW op \in {"install", "update", "uninstall"}, NEW args \in Args, NEW dry \in BOOLEAN,
             ModCommand(op, args, dry)
      PROVE  ModInv'
  BY <1>1, ModCommandStep
<1>2. ASSUME InstallMods PROVE ModInv'
  <2>1. PICK x \in Head(installer.todo) : Resolve(x)
    BY <1>2 DEF InstallMods
  <2>2. InstallerAt("resolve") /\ installer.todo # <<>>
    BY <1>2 DEF InstallMods
  <2> QED
    BY <2>1, <2>2, ResolveStep
<1>3. ASSUME NEW m \in Mods, Tag(m) PROVE ModInv'
  <2>1. tags' \in [Mods -> Versions]
    BY <1>3 DEF Tag, ModInv, ModTypes, ModTypeOK
  <2> QED
    BY <1>3, <2>1, KeepsModInv DEF Tag
<1>4. CASE UNCHANGED modVars
  <2>1. tags' \in [Mods -> Versions]
    BY <1>4 DEF modVars, ModInv, ModTypes, ModTypeOK
  <2> QED
    BY <1>4, <2>1, KeepsModInv DEF modVars
<1> QED
  BY <1>1, <1>2, <1>3, <1>4, DoneStep, CompleteStep, SaveLockStep, SaveModfileStep, PruneStep,
     KillStep DEF ModNext

-----------------------------------------------------------------------------
(* What the invariant says of loading the workspace.                       *)

LEMMA FoundIsFinite ==
  ASSUME ModInv, NEW m \in Mods, NEW allowed \in SUBSET Versions
  PROVE  /\ IsFiniteSet(Found(m, allowed))
         /\ Cardinality(Found(m, allowed)) \in Nat
         /\ Found(m, allowed) # {} => Cardinality(Found(m, allowed)) # 0
<1>1. IsFiniteSet({m} \X Versions)
  BY VersionFacts, FS_Singleton, FS_Product
<1>2. Found(m, allowed) \subseteq {m} \X Versions
  BY DEF Found, ModInv, ModTypes, ModTypeOK
<1>3. IsFiniteSet(Found(m, allowed))
  BY <1>1, <1>2, FS_Subset
<1> QED
  BY <1>3, FS_CardinalityType, FS_EmptySet

LEMMA GoodLoads ==
  ASSUME ModInv, Good
  PROVE  \/ LoadModDependencies
         \/ \E mv \in LoadedMods, n \in Mods : Cardinality(Found(n, Requires[mv][n])) > 1
<1>1. \A e \in lockFile : Installed(e) \in folders
  BY DEF Good
<1>2. ASSUME NEW m \in Mods, modfile[m] # {}
      PROVE  Cardinality(Found(m, LockedConstraint(m))) = 1
  <2>1. PICK e \in lockFile : e.parent = Workspace /\ e.mod = m /\ e.version \in modfile[m]
    BY <1>2 DEF Good
  <2>2. \A f \in lockFile : f.parent = Workspace /\ f.mod = m => f = e
    BY <2>1 DEF Good, OneEach
  <2>3. LockedConstraint(m) = {e.version}
    <3>1. {f \in lockFile : f.parent = Workspace /\ f.mod = m} = {e}
      BY <2>1, <2>2
    <3> QED
      BY <2>1, <3>1 DEF LockedConstraint
  <2>4. Installed(e) = <<m, e.version>> /\ Installed(e) \in folders
    BY <1>1, <2>1 DEF Installed
  <2>5. Found(m, LockedConstraint(m)) = {<<m, e.version>>}
    BY <2>3, <2>4 DEF Found, ModInv, ModTypes, ModTypeOK
  <2> QED
    BY <2>5, FS_Singleton
<1>3. ASSUME NEW mv \in LoadedMods, NEW n \in Mods, Requires[mv][n] # {},
             ~ \E other \in LoadedMods, o \in Mods : Cardinality(Found(o, Requires[other][o])) > 1
      PROVE  Cardinality(Found(n, Requires[mv][n])) = 1
  <2>1. mv \in folders /\ folders \subseteq ModVersions
    BY <1>3 DEF LoadedMods, ModInv, ModTypes, ModTypeOK, ModVersions
  <2>2. Requires[mv][n] \in SUBSET Versions
    BY <2>1, ModAssumption DEF ModVersions
  <2>3. Found(n, Requires[mv][n]) # {}
    BY <1>3, <2>1 DEF Good
  <2>4. PICK size : size = Cardinality(Found(n, Requires[mv][n]))
    OBVIOUS
  <2>5. size \in Nat /\ size # 0
    BY <2>2, <2>3, <2>4, FoundIsFinite
  <2>6. ~(size > 1)
    BY <1>3, <2>4
  <2>7. size = 1
    BY <2>5, <2>6
  <2> QED
    BY <2>4, <2>7
<1> QED
  BY <1>1, <1>2, <1>3 DEF LoadModDependencies

(* DependenciesInstalled, whatever mods require each other, however many   *)
(* versions are tagged and commands run: after an install, update or       *)
(* uninstall that ended without an error (InstallWorkspaceDependencies)    *)
(* every locked version is installed and the workspace loads.              *)
THEOREM DependenciesInstalledCorrect == ModSpec => []DependenciesInstalled
<1>1. ModInv => DependenciesInstalled
  <2> SUFFICES ASSUME ModInv, InstallerAt("idle"), outcome = "well"
               PROVE  /\ \A e \in lockFile : Installed(e) \in folders
                      /\ \/ LoadModDependencies
                         \/ \E mv \in LoadedMods, n \in Mods : Cardinality(Found(n, Requires[mv][n])) > 1
    BY DEF DependenciesInstalled
  <2>1. Good
    BY DEF ModInv, WellInv
  <2> QED
    BY <2>1, GoodLoads DEF Good
<1> QED
  BY <1>1, ModInitInv, ModStepInv, PTL DEF ModSpec

(* ModTypeCorrect: the tags, the files of the workspace, the folders and   *)
(* the lock of the command that runs keep their types.                     *)
THEOREM ModTypeCorrect == ModSpec => []ModTypeOK
<1>1. ModInv => ModTypeOK
  BY DEF ModInv, ModTypes
<1> QED
  BY <1>1, ModInitInv, ModStepInv, PTL DEF ModSpec

(***************************************************************************)
(* ModParse: the two passes over the blocks of a mod.                      *)
(***************************************************************************)

Waiting(b) == \E i \in DOMAIN todo : todo[i] = b
Begun(b) == Owns(b) \cap values # {}
OwnReach(b) == IF b = Child THEN refs[b] ELSE Reach(b)

(* What has a value has been decoded after all that it refers to.          *)
ValuesInv ==
  /\ values \subseteq NamesOf(AllBlocks) /\ unresolved \subseteq NamesOf(AllBlocks)
  /\ \A b \in Blocks : Begun(b) => Reach(b) \subseteq values
GroundInv ==
  \A S \in (SUBSET Blocks) \ {{}} :
    (\A b \in S : Begun(b)) => \E b \in S : \A c \in S : Reach(b) \cap Owns(c) = {}

(* Each block is decoded, waits or is left unresolved; a child is on its   *)
(* own only after its dashboard has been looked at.                        *)
TurnInv ==
  /\ \A b \in Blocks : Defines[b] \subseteq values \/ Waiting(b) \/ Defines[b] \subseteq unresolved
  /\ Waiting(Child) \/ Defines[Child] \cap unresolved # {} => refs[Dashboard] \subseteq values

\* The graph has no edge that no block asks for.
EdgeInv == \A e \in deps : \E b \in Blocks : e[1] \in Owns(b) /\ e[2] \in Reach(b)

(* Without unknown names and the exception: the graph has what blocks      *)
(* lack, and the second pass comes to that before it comes to them.        *)
Orderly ==
  /\ \A b \in AllBlocks : refs[b] \subseteq NamesOf(AllBlocks)
  /\ \/ refs[Dashboard] = {}
     \/ refs[Child] = {} /\ \A b \in Blocks : refs[b] \cap Defines[Child] = {}
GraphInv ==
  Orderly /\ pass = 1 =>
    /\ \A b \in AllBlocks : \A n \in Defines[b] \cap unresolved, m \in OwnReach(b) \ values :
         <<n, m>> \in deps
    /\ refs[Dashboard] = {} =>
         Waiting(Dashboard) \/ Defines[Child] \subseteq values \/ Defines[Child] \subseteq unresolved
OrderInv ==
  Orderly /\ pass = 2 =>
    /\ unresolved = {}
    /\ \A i \in DOMAIN todo : \A m \in OwnReach(todo[i]) \ values :
         \E j \in DOMAIN todo : j < i /\ m \in Defines[todo[j]]

ParsedInv ==
  /\ parsed # "" => todo = <<>>
  /\ parsed = "ok" => unresolved = {}
  /\ parsed = "cycle" => Cyclic /\ pass = 1
  /\ parsed = "unresolved" => unresolved # {} /\ pass = 2

ParseTypes == todo \in Seq(AllBlocks) /\ pass \in {1, 2} /\ parsed \in {"", "ok", "cycle", "unresolved"}
ParseInv ==
  ParseTypes /\ ValuesInv /\ GroundInv /\ TurnInv /\ EdgeInv /\ GraphInv /\ OrderInv /\ ParsedInv

-----------------------------------------------------------------------------
(* Orders, and the names that blocks define.                               *)

LEMMA OrdersCover ==
  ASSUME NEW S, IsFiniteSet(S), NEW o \in Orders(S)
  PROVE  /\ o \in Seq(S)
         /\ \A s \in S : \E i \in DOMAIN o : o[i] = s
<1> DEFINE n == Cardinality(S)
           T == {o[i] : i \in 1..n}
<1>1. n \in Nat
  BY FS_CardinalityType
<1>2. o \in [1..n -> S] /\ \A i, j \in 1..n : i # j => o[i] # o[j]
  BY DEF Orders
<1> HIDE DEF n
<1>3. o \in Seq(S)
  BY <1>1, <1>2
<1>4. o \in Bijection(1..n, T)
  <2>1. o \in [1..n -> T] /\ \A t \in T : \E i \in 1..n : o[i] = t
    BY <1>2
  <2> QED
    BY <1>2, <2>1 DEF Bijection, Injection, Surjection, IsInjective
<1>5. Cardinality(T) = n
  BY <1>1, <1>4, FS_CountingElements DEF ExistsBijection
<1>6. T = S
  <2>1. T \in SUBSET S
    BY <1>2
  <2> HIDE DEF T
  <2>2. Cardinality(S) = Cardinality(T)
    BY <1>5 DEF n
  <2> QED
    BY <2>1, <2>2, FS_Subset
<1> QED
  BY <1>2, <1>3, <1>6

LEMMA BlockFacts ==
  /\ IsFiniteSet(AllBlocks) /\ Blocks \subseteq AllBlocks
  /\ Dashboard \in Blocks /\ Child \in AllBlocks \ Blocks /\ Dashboard # Child
  /\ \A b \in AllBlocks : b \in Blocks \/ b = Child
  /\ \A b \in AllBlocks : Defines[b] # {}
  /\ \A b, c \in AllBlocks : b # c => Defines[b] \cap Defines[c] = {}
<1>1. IsFiniteSet(AllBlocks)
  BY ParseAssumption, FS_AddElement DEF AllBlocks
<1> QED
  BY <1>1, ParseAssumption DEF AllBlocks

LEMMA OwnsFacts ==
  /\ \A b \in Blocks : Defines[b] \subseteq Owns(b)
  /\ Defines[Child] \subseteq Owns(Dashboard)
  /\ \A b, c \in Blocks : b # c => Owns(b) \cap Owns(c) = {}
  /\ \A n : n \in NamesOf(AllBlocks) <=> \E b \in Blocks : n \in Owns(b)
  /\ \A b \in AllBlocks : Defines[b] \subseteq NamesOf(AllBlocks)
<1>1. \A b \in Blocks : Defines[b] \subseteq Owns(b)
  BY DEF Owns
<1>2. Defines[Child] \subseteq Owns(Dashboard)
  BY DEF Owns
<1>3. \A b, c \in Blocks : b # c => Owns(b) \cap Owns(c) = {}
  BY BlockFacts DEF Owns
<1>4. \A n : n \in NamesOf(AllBlocks) <=> \E b \in AllBlocks : n \in Defines[b]
  BY DEF NamesOf
<1>5. \A n : n \in NamesOf(AllBlocks) <=> \E b \in Blocks : n \in Owns(b)
  <2>1. ASSUME NEW n, NEW b \in AllBlocks, n \in Defines[b] PROVE \E c \in Blocks : n \in Owns(c)
    BY <1>1, <1>2, <2>1, BlockFacts
  <2>2. ASSUME NEW n, NEW b \in Blocks, n \in Owns(b) PROVE \E c \in AllBlocks : n \in Defines[c]
    BY <2>2, BlockFacts DEF Owns
  <2> QED
    BY <1>4, <2>1, <2>2
<1>6. \A b \in AllBlocks : Defines[b] \subseteq NamesOf(AllBlocks)
  BY <1>4
<1> QED
  BY <1>1, <1>2, <1>3, <1>5, <1>6

-----------------------------------------------------------------------------
(* The decoding of one block.                                              *)

(* What the block at the head adds: the values of the blocks of done, and  *)
(* the names and the edges of those of missed.                             *)
LEMMA DecodeEffect ==
  ASSUME ParseInv, DecodeBlock
  PROVE  \E b \in AllBlocks, done, missed \in SUBSET AllBlocks :
           /\ b = Head(todo) /\ done \cup missed = DecodedWith(b) /\ done \cap missed = {}
           /\ \A c \in done : Lacks(b, c) = {}
           /\ \A c \in missed : Lacks(b, c) # {}
           /\ \A n : n \in values' <=> n \in values \/ \E c \in done : n \in Defines[c]
           /\ \A n : n \in unresolved' <=> n \in unresolved \/ \E c \in missed : n \in Defines[c]
           /\ \A e : e \in deps' <=> e \in deps \/ \E c \in missed : e \in Defines[c] \X Lacks(b, c)
           /\ refs' = refs /\ pass' = pass /\ parsed' = parsed /\ todo' = Tail(todo) /\ todo # <<>>
<1>1. PICK b : b = Head(todo)
  OBVIOUS
<1>2. b \in AllBlocks
  <2>1. PICK old \in Seq(AllBlocks) : old = todo
    BY DEF ParseInv, ParseTypes
  <2>2. old # <<>>
    BY <2>1 DEF DecodeBlock
  <2>3. Head(old) \in AllBlocks
    BY <2>1, <2>2
  <2> QED
    BY <1>1, <2>1, <2>3
<1>3. PICK missed : missed = {c \in DecodedWith(b) : Lacks(b, c) # {}}
  OBVIOUS
<1>4. PICK done : done = DecodedWith(b) \ missed
  OBVIOUS
<1>5. /\ values' = values \cup NamesOf(done)
      /\ unresolved' = unresolved \cup NamesOf(missed)
      /\ deps' = deps \cup UNION {Defines[c] \X Lacks(b, c) : c \in missed}
      /\ refs' = refs /\ pass' = pass /\ parsed' = parsed /\ todo' = Tail(todo) /\ todo # <<>>
  BY <1>1, <1>3, <1>4 DEF DecodeBlock
<1>6. DecodedWith(b) \subseteq AllBlocks
  BY <1>2, BlockFacts DEF DecodedWith
<1>7. \A e : e \in deps' <=> e \in deps \/ \E c \in missed : e \in Defines[c] \X Lacks(b, c)
  BY <1>5, Zenon
<1>8. /\ \A n : n \in values' <=> n \in values \/ \E c \in done : n \in Defines[c]
      /\ \A n : n \in unresolved' <=> n \in unresolved \/ \E c \in missed : n \in Defines[c]
  BY <1>5 DEF NamesOf
<1>9. done \in SUBSET AllBlocks /\ missed \in SUBSET AllBlocks
  BY <1>3, <1>4, <1>6
<1>10. /\ done \cup missed = DecodedWith(b) /\ done \cap missed = {}
       /\ \A c \in done : Lacks(b, c) = {}
       /\ \A c \in missed : Lacks(b, c) # {}
  BY <1>3, <1>4
<1> QED
  BY <1>1, <1>2, <1>5, <1>7, <1>8, <1>9, <1>10

\* The sequence that is left of those that wait.
LEMMA WaitingTail ==
  ASSUME todo \in Seq(AllBlocks), todo # <<>>, todo' = Tail(todo)
  PROVE  /\ todo' \in Seq(AllBlocks) /\ 1 \in DOMAIN todo /\ todo[1] = Head(todo)
         /\ \A b : Waiting(b)' => Waiting(b)
         /\ \A b : Waiting(b) /\ b # Head(todo) => Waiting(b)'
         /\ \A i \in DOMAIN todo' : i + 1 \in DOMAIN todo /\ todo'[i] = todo[i + 1]
         /\ \A i \in DOMAIN todo : i # 1 => i - 1 \in DOMAIN todo' /\ todo'[i - 1] = todo[i]
<1>1. PICK old \in Seq(AllBlocks) : old = todo
  OBVIOUS
<1>2. PICK rest : rest = Tail(old)
  OBVIOUS
<1>3. /\ rest \in Seq(AllBlocks) /\ Len(old) \in Nat \ {0} /\ Head(old) = old[1]
      /\ Len(rest) = Len(old) - 1 /\ \A k \in 1..(Len(old) - 1) : rest[k] = old[k + 1]
  BY <1>1, <1>2
<1>4. DOMAIN old = 1..Len(old) /\ DOMAIN rest = 1..(Len(old) - 1)
  BY <1>3
<1>5. \A i \in DOMAIN rest : i + 1 \in DOMAIN old /\ rest[i] = old[i + 1]
  BY <1>3, <1>4
<1>6. ASSUME NEW i \in DOMAIN old, i # 1 PROVE i - 1 \in DOMAIN rest /\ rest[i - 1] = old[i]
  <2>1. i \in 1..Len(old) /\ Len(old) \in Nat
    BY <1>3, <1>4
  <2>2. i - 1 \in 1..(Len(old) - 1) /\ (i - 1) + 1 = i
    BY <1>6, <2>1
  <2> QED
    BY <1>3, <1>4, <2>2
<1>7. todo' = rest
  BY <1>1, <1>2
<1>8. \A b : Waiting(b)' => Waiting(b)
  BY <1>1, <1>5, <1>7 DEF Waiting
<1>9. \A b : Waiting(b) /\ b # Head(todo) => Waiting(b)'
  BY <1>1, <1>3, <1>6, <1>7 DEF Waiting
<1> QED
  BY <1>1, <1>3, <1>4, <1>5, <1>6, <1>7, <1>8, <1>9

LEMMA NothingWaiting == todo = <<>> => \A b : ~Waiting(b)
BY DEF Waiting

\* What a block that gets its value refers to has its value.
LEMMA DoneReach ==
  ASSUME ParseInv, NEW b \in AllBlocks, Waiting(b), NEW c \in DecodedWith(b), Lacks(b, c) = {}
  PROVE  \E d \in Blocks : Defines[c] \subseteq Owns(d) /\ Reach(d) \subseteq values
<1>1. CASE b \in Blocks \ {Dashboard}
  <2>1. c = b /\ Missing(b) = {}
    BY <1>1 DEF DecodedWith, Lacks
  <2>2. Reach(b) \subseteq values
    BY <1>1, <2>1 DEF Reach, Missing
  <2> QED
    BY <1>1, <2>1, <2>2, OwnsFacts
<1>2. CASE b = Dashboard
  <2>1. Missing(Dashboard) = {}
    <3>1. CASE Missing(Dashboard) # {}
      <4>1. DecodedWith(b) = {b} /\ c = b
        BY <1>2, <3>1 DEF DecodedWith
      <4>2. Lacks(b, c) = Missing(b)
        BY <4>1 DEF Lacks
      <4> QED
        BY <1>2, <3>1, <4>2
    <3> QED
      BY <3>1
  <2>2. DecodedWith(b) = {Dashboard, Child}
    BY <1>2, <2>1 DEF DecodedWith
  <2>3. Missing(Child) = {}
    <3>1. CASE c = Dashboard
      BY <1>2, <2>2, <3>1 DEF Lacks
    <3>2. CASE c = Child
      BY <1>2, <3>2, BlockFacts DEF Lacks
    <3> QED
      BY <2>2, <3>1, <3>2
  <2>4. Reach(Dashboard) \subseteq values
    BY <2>1, <2>3 DEF Reach, Missing
  <2> QED
    BY <2>2, <2>4, BlockFacts, OwnsFacts
<1>3. CASE b = Child
  <2>1. c = Child /\ Missing(Child) = {}
    BY <1>3, BlockFacts DEF DecodedWith, Lacks
  <2>2. refs[Dashboard] \subseteq values
    BY <1>3 DEF ParseInv, TurnInv
  <2>3. Reach(Dashboard) \subseteq values
    BY <2>1, <2>2 DEF Reach, Missing
  <2> QED
    BY <2>1, <2>3, BlockFacts, OwnsFacts
<1> QED
  BY <1>1, <1>2, <1>3, BlockFacts

\* What a block lacks is what the block, or its dashboard, refers to.
LEMMA LacksReach ==
  ASSUME NEW b \in AllBlocks, NEW c \in DecodedWith(b)
  PROVE  \E d \in Blocks : Defines[c] \subseteq Owns(d) /\ Lacks(b, c) \subseteq Reach(d)
<1>1. CASE b \in Blocks \ {Dashboard}
  <2>1. c = b /\ Lacks(b, c) = Missing(b)
    BY <1>1 DEF DecodedWith, Lacks
  <2>2. Lacks(b, c) \subseteq Reach(b)
    BY <1>1, <2>1 DEF Reach, Missing
  <2> QED
    BY <1>1, <2>1, <2>2, OwnsFacts
<1>2. CASE b = Dashboard
  <2>1. c \in {Dashboard, Child}
    BY <1>2 DEF DecodedWith
  <2>2. DecodedWith(b) \subseteq {Dashboard, Child}
    BY <1>2 DEF DecodedWith
  <2>3. Lacks(b, c) \subseteq Missing(Dashboard) \cup Missing(Child)
    BY <1>2, <2>1, <2>2 DEF Lacks
  <2>4. Lacks(b, c) \subseteq Reach(Dashboard)
    BY <2>3 DEF Reach, Missing
  <2> QED
    BY <2>1, <2>4, BlockFacts, OwnsFacts
<1>3. CASE b = Child
  <2>1. c = Child /\ Lacks(b, c) = Missing(Child)
    BY <1>3, BlockFacts DEF DecodedWith, Lacks
  <2>2. Lacks(b, c) \subseteq Reach(Dashboard)
    BY <2>1 DEF Reach, Missing
  <2> QED
    BY <2>1, <2>2, BlockFacts, OwnsFacts
<1> QED
  BY <1>1, <1>2, <1>3, BlockFacts

\* A block that cannot be decoded asks for all that it refers to and that has
\* no value yet; one that lacks nothing is decoded, a dashboard with its child.
LEMMA LacksOwn ==
  ASSUME Orderly, NEW b \in AllBlocks, NEW c \in DecodedWith(b), NEW m \in OwnReach(c) \ values
  PROVE  m \in Lacks(b, c)
<1>1. CASE b \in Blocks \ {Dashboard}
  BY <1>1, BlockFacts DEF DecodedWith, Lacks, OwnReach, Reach, Missing
<1>2. CASE b = Child
  BY <1>2, BlockFacts DEF DecodedWith, Lacks, OwnReach, Missing
<1>3. CASE b = Dashboard
  <2>1. CASE c = Child
    BY <1>3, <2>1, BlockFacts DEF Lacks, OwnReach, Missing
  <2>2. CASE c = Dashboard /\ Missing(Dashboard) = {}
    <3>1. DecodedWith(b) = {Dashboard, Child}
      BY <1>3, <2>2 DEF DecodedWith
    <3>2. m \in Missing(Dashboard) \/ m \in Missing(Child)
      BY <2>2, BlockFacts DEF OwnReach, Reach, Missing
    <3> QED
      BY <1>3, <2>2, <3>1, <3>2 DEF Lacks
  <2>3. CASE c = Dashboard /\ Missing(Dashboard) # {}
    <3>1. refs[Dashboard] # {} /\ refs[Child] = {}
      BY <2>3 DEF Missing, Orderly
    <3>2. m \in Missing(Dashboard) /\ b \in DecodedWith(b)
      BY <2>3, <3>1, BlockFacts DEF OwnReach, Reach, Missing, DecodedWith
    <3> QED
      BY <1>3, <2>3, <3>2 DEF Lacks
  <2>4. c = Child \/ c = Dashboard
    BY <1>3 DEF DecodedWith
  <2> QED
    BY <2>1, <2>2, <2>3, <2>4
<1> QED
  BY <1>1, <1>2, <1>3, BlockFacts

LEMMA LacksNothing ==
  ASSUME NEW b \in AllBlocks, OwnReach(b) \subseteq values
  PROVE  \A c \in DecodedWith(b) : Lacks(b, c) = {}
<1>1. CASE b # Dashboard
  BY <1>1, BlockFacts DEF DecodedWith, Lacks, OwnReach, Reach, Missing
<1>2. CASE b = Dashboard
  <2>1. Missing(Dashboard) = {} /\ Missing(Child) = {}
    BY <1>2, BlockFacts DEF OwnReach, Reach, Missing
  <2>2. DecodedWith(b) \subseteq {Dashboard, Child}
    BY <1>2 DEF DecodedWith
  <2> QED
    BY <1>2, <2>1, <2>2 DEF Lacks
<1> QED
  BY <1>1, <1>2

LEMMA DecodeStep == ParseInv /\ DecodeBlock => ParseInv'
<1> SUFFICES ASSUME ParseInv, DecodeBlock PROVE ParseInv'
  OBVIOUS
<1>1. PICK b \in AllBlocks, done, missed \in SUBSET AllBlocks :
           /\ b = Head(todo) /\ done \cup missed = DecodedWith(b) /\ done \cap missed = {}
           /\ \A c \in done : Lacks(b, c) = {}
           /\ \A c \in missed : Lacks(b, c) # {}
           /\ \A n : n \in values' <=> n \in values \/ \E c \in done : n \in Defines[c]
           /\ \A n : n \in unresolved' <=> n \in unresolved \/ \E c \in missed : n \in Defines[c]
           /\ \A e : e \in deps' <=> e \in deps \/ \E c \in missed : e \in Defines[c] \X Lacks(b, c)
           /\ refs' = refs /\ pass' = pass /\ parsed' = parsed /\ todo' = Tail(todo) /\ todo # <<>>
  BY DecodeEffect
<1>2. /\ ParseTypes /\ ValuesInv /\ GroundInv /\ TurnInv /\ EdgeInv /\ GraphInv /\ OrderInv /\ ParsedInv
      /\ todo \in Seq(AllBlocks)
  BY DEF ParseInv, ParseTypes
<1>3. /\ todo' \in Seq(AllBlocks) /\ 1 \in DOMAIN todo /\ todo[1] = b
      /\ \A c : Waiting(c)' => Waiting(c)
      /\ \A c : Waiting(c) /\ c # b => Waiting(c)'
      /\ \A i \in DOMAIN todo' : i + 1 \in DOMAIN todo /\ todo'[i] = todo[i + 1]
      /\ \A i \in DOMAIN todo : i # 1 => i - 1 \in DOMAIN todo' /\ todo'[i - 1] = todo[i]
  BY <1>1, <1>2, WaitingTail
<1>4. Waiting(b)
  BY <1>3 DEF Waiting
<1>5. /\ \A d : Reach(d)' = Reach(d) /\ Missing(d) = refs[d] \ values
      /\ values \subseteq values' /\ unresolved \subseteq unresolved'
  BY <1>1 DEF Reach, Missing
<1>6. \A c \in done : \E d \in Blocks : Defines[c] \subseteq Owns(d) /\ Reach(d) \subseteq values
  BY <1>1, <1>4, DoneReach
<1>7. \A c \in missed : \E d \in Blocks : Defines[c] \subseteq Owns(d) /\ Lacks(b, c) \subseteq Reach(d)
  BY <1>1, LacksReach
<1>8. ASSUME NEW d \in Blocks, Begun(d)', ~Begun(d) PROVE Reach(d) \subseteq values
  <2>1. PICK n \in Owns(d) : n \in values' /\ n \notin values
    BY <1>8 DEF Begun
  <2>2. PICK c \in done : n \in Defines[c]
    BY <1>1, <2>1
  <2>3. PICK e \in Blocks : Defines[c] \subseteq Owns(e) /\ Reach(e) \subseteq values
    BY <1>6, <2>2
  <2>4. e = d
    BY <2>1, <2>2, <2>3, OwnsFacts
  <2> QED
    BY <2>3, <2>4
<1>9. ParseTypes'
  BY <1>1, <1>2, <1>3 DEF ParseTypes
<1>10. ValuesInv'
  <2>1. values' \subseteq NamesOf(AllBlocks) /\ unresolved' \subseteq NamesOf(AllBlocks)
    BY <1>1, <1>2, OwnsFacts DEF ValuesInv
  <2>2. ASSUME NEW d \in Blocks, Begun(d)' PROVE Reach(d) \subseteq values'
    BY <1>2, <1>5, <1>8, <2>2 DEF ValuesInv
  <2> QED
    BY <1>5, <2>1, <2>2 DEF ValuesInv
<1>11. GroundInv'
  <2> SUFFICES ASSUME NEW S \in (SUBSET Blocks) \ {{}}, \A d \in S : Begun(d)'
               PROVE  \E d \in S : \A c \in S : Reach(d) \cap Owns(c) = {}
    <3>1. \A d : Reach(d)' = Reach(d)
      BY <1>5
    <3>2. ASSUME NEW S \in (SUBSET Blocks) \ {{}}, \A d \in S : Begun(d)'
          PROVE  \E d \in S : \A c \in S : Reach(d)' \cap Owns(c) = {}
      <4>1. PICK d \in S : \A c \in S : Reach(d) \cap Owns(c) = {}
        BY <3>2
      <4> QED
        BY <3>1, <4>1
    <3> QED
      BY <3>2, Zenon DEF GroundInv, Owns
  <2> DEFINE R == {d \in S : Begun(d)}
  <2>1. CASE R = {}
    <3>1. PICK d \in S : TRUE
      OBVIOUS
    <3>2. Reach(d) \subseteq values
      BY <1>8, <2>1, <3>1
    <3>3. \A c \in S : Owns(c) \cap values = {}
      BY <2>1 DEF Begun
    <3> QED
      BY <3>1, <3>2, <3>3
  <2>2. CASE R # {}
    <3>1. PICK d \in R : \A c \in R : Reach(d) \cap Owns(c) = {}
      BY <1>2, <2>2 DEF GroundInv
    <3>2. Reach(d) \subseteq values
      BY <1>2, <3>1 DEF ValuesInv
    <3>3. \A c \in S \ R : Owns(c) \cap values = {}
      BY DEF Begun
    <3> QED
      BY <3>1, <3>2, <3>3
  <2> QED
    BY <2>1, <2>2
<1>12. TurnInv'
  <2>1. ASSUME NEW d \in Blocks
        PROVE  Defines[d] \subseteq values' \/ Waiting(d)' \/ Defines[d] \subseteq unresolved'
    <3>1. CASE d = b
      <4>1. d \in done \/ d \in missed
        BY <1>1, <3>1 DEF DecodedWith
      <4> QED
        BY <1>1, <4>1
    <3>2. CASE d # b
      BY <1>2, <1>3, <1>5, <3>2 DEF TurnInv
    <3> QED
      BY <3>1, <3>2
  <2>2. ASSUME Waiting(Child)' \/ Defines[Child] \cap unresolved' # {} PROVE refs[Dashboard] \subseteq values'
    <3>1. CASE Waiting(Child) \/ Defines[Child] \cap unresolved # {}
      BY <1>2, <1>5, <3>1 DEF TurnInv
    <3>2. CASE ~(Waiting(Child) \/ Defines[Child] \cap unresolved # {})
      <4>1. PICK n \in Defines[Child] : \E c \in missed : n \in Defines[c]
        BY <1>1, <1>3, <2>2, <3>2
      <4>2. Child \in missed
        BY <4>1, BlockFacts
      <4>3. Child \in DecodedWith(b) /\ b # Child
        BY <1>1, <1>4, <3>2, <4>2
      <4>4. Missing(Dashboard) = {}
        BY <4>3 DEF DecodedWith
      <4> QED
        BY <1>5, <4>4
    <3> QED
      BY <3>1, <3>2
  <2> QED
    BY <1>1, <2>1, <2>2 DEF TurnInv
<1>13. EdgeInv'
  <2> SUFFICES ASSUME NEW e \in deps' PROVE \E d \in Blocks : e[1] \in Owns(d) /\ e[2] \in Reach(d)
    BY <1>5 DEF EdgeInv
  <2>1. CASE e \in deps
    BY <1>2, <2>1 DEF EdgeInv
  <2>2. ASSUME NEW c \in missed, e \in Defines[c] \X Lacks(b, c)
        PROVE  \E d \in Blocks : e[1] \in Owns(d) /\ e[2] \in Reach(d)
    <3>1. PICK d \in Blocks : Defines[c] \subseteq Owns(d) /\ Lacks(b, c) \subseteq Reach(d)
      BY <1>7
    <3>2. e[1] \in Defines[c] /\ e[2] \in Lacks(b, c)
      BY <2>2
    <3> QED
      BY <3>1, <3>2
  <2> QED
    BY <1>1, <2>1, <2>2
<1>14. ParsedInv'
  BY <1>1, <1>2 DEF ParsedInv
<1>15. GraphInv'
  <2> SUFFICES ASSUME Orderly, pass = 1
               PROVE  /\ \A d \in AllBlocks : \A n \in Defines[d] \cap unresolved', m \in OwnReach(d) \ values' :
                           <<n, m>> \in deps'
                      /\ refs[Dashboard] = {} =>
                           \/ Waiting(Dashboard)' \/ Defines[Child] \subseteq values'
                           \/ Defines[Child] \subseteq unresolved'
    BY <1>1, <1>5 DEF GraphInv, Orderly, OwnReach
  <2>1. ASSUME NEW d \in AllBlocks, NEW n \in Defines[d] \cap unresolved', NEW m \in OwnReach(d) \ values'
        PROVE  <<n, m>> \in deps'
    <3>1. m \notin values
      BY <1>5, <2>1
    <3>2. CASE n \in unresolved
      BY <1>1, <1>2, <2>1, <3>1, <3>2 DEF GraphInv
    <3>3. ASSUME NEW c \in missed, n \in Defines[c] PROVE <<n, m>> \in deps'
      <4>1. c = d /\ c \in DecodedWith(b)
        BY <1>1, <2>1, <3>3, BlockFacts
      <4>2. m \in Lacks(b, c)
        BY <2>1, <3>1, <4>1, LacksOwn
      <4>3. <<n, m>> \in Defines[c] \X Lacks(b, c)
        BY <3>3, <4>2
      <4> QED
        BY <1>1, <4>3
    <3> QED
      BY <1>1, <2>1, <3>2, <3>3
  <2>2. ASSUME refs[Dashboard] = {}
        PROVE  \/ Waiting(Dashboard)' \/ Defines[Child] \subseteq values'
               \/ Defines[Child] \subseteq unresolved'
    <3>1. CASE b = Dashboard
      <4>1. Child \in DecodedWith(b)
        BY <2>2, <3>1 DEF DecodedWith, Missing
      <4>2. Child \in done \/ Child \in missed
        BY <1>1, <4>1
      <4> QED
        BY <1>1, <4>2
    <3>2. CASE b # Dashboard
      BY <1>2, <1>3, <1>5, <2>2, <3>2 DEF GraphInv
    <3> QED
      BY <3>1, <3>2
  <2> QED
    BY <2>1, <2>2
<1>16. OrderInv'
  <2> SUFFICES ASSUME Orderly, pass = 2
               PROVE  /\ unresolved' = {}
                      /\ \A i \in DOMAIN todo' : \A m \in OwnReach(todo'[i]) \ values' :
                           \E j \in DOMAIN todo' : j < i /\ m \in Defines[todo'[j]]
    BY <1>1, <1>5 DEF OrderInv, Orderly, OwnReach
  <2>1. /\ unresolved = {}
        /\ \A i \in DOMAIN todo : \A m \in OwnReach(todo[i]) \ values :
             \E j \in DOMAIN todo : j < i /\ m \in Defines[todo[j]]
    BY <1>2 DEF OrderInv
  <2>2. DOMAIN todo \subseteq Nat \ {0} /\ DOMAIN todo' \subseteq Nat \ {0}
    BY <1>2, <1>3
  <2>3. OwnReach(b) \subseteq values
    <3> SUFFICES ASSUME NEW m \in OwnReach(b) \ values PROVE FALSE
      OBVIOUS
    <3>1. PICK j \in DOMAIN todo : j < 1
      BY <1>3, <2>1
    <3> QED
      BY <2>2, <3>1
  <2>4. missed = {} /\ b \in done
    BY <1>1, <2>3, LacksNothing DEF DecodedWith
  <2>5. unresolved' = {} /\ Defines[b] \subseteq values'
    BY <1>1, <2>1, <2>4
  <2>6. ASSUME NEW i \in DOMAIN todo', NEW m \in OwnReach(todo'[i]) \ values'
        PROVE  \E j \in DOMAIN todo' : j < i /\ m \in Defines[todo'[j]]
    <3>1. i + 1 \in DOMAIN todo /\ m \in OwnReach(todo[i + 1]) \ values
      BY <1>3, <1>5, <2>6
    <3>2. PICK j \in DOMAIN todo : j < i + 1 /\ m \in Defines[todo[j]]
      BY <2>1, <3>1
    <3>3. j # 1
      BY <1>3, <2>5, <2>6, <3>2
    <3>4. j - 1 \in DOMAIN todo' /\ todo'[j - 1] = todo[j]
      BY <1>3, <3>3
    <3>5. j - 1 < i
      BY <2>2, <3>2
    <3> QED
      BY <3>2, <3>4, <3>5
  <2> QED
    BY <2>5, <2>6
<1> QED
  BY <1>9, <1>10, <1>11, <1>12, <1>13, <1>14, <1>15, <1>16 DEF ParseInv

-----------------------------------------------------------------------------
(* The second pass, and the end.                                           *)

LEMMA SecondPassStep == ParseInv /\ SecondPass => ParseInv'
<1> SUFFICES ASSUME ParseInv, SecondPass PROVE ParseInv'
  OBVIOUS
<1> DEFINE left == {b \in AllBlocks : Defines[b] \cap unresolved # {}}
<1>1. /\ todo = <<>> /\ pass = 1 /\ unresolved # {} /\ ~Cyclic
      /\ todo' \in DependencyOrders /\ pass' = 2 /\ unresolved' = {} /\ deps' = {}
      /\ refs' = refs /\ values' = values /\ parsed' = parsed
  BY DEF SecondPass
<1>2. /\ ParseTypes /\ ValuesInv /\ GroundInv /\ TurnInv /\ EdgeInv /\ GraphInv /\ OrderInv /\ ParsedInv
  BY DEF ParseInv
<1>3. IsFiniteSet(left) /\ left \in SUBSET AllBlocks
  BY BlockFacts, FS_Subset
<1>4. /\ todo' \in Orders(left)
      /\ \A i, j \in DOMAIN todo' : Defines[todo'[i]] \X Defines[todo'[j]] \cap deps # {} => j < i
  BY <1>1 DEF DependencyOrders
<1> HIDE DEF left
<1>5. todo' \in Seq(left) /\ \A s \in left : \E i \in DOMAIN todo' : todo'[i] = s
  <2>1. PICK o \in Orders(left) : o = todo'
    BY <1>4
  <2>2. o \in Seq(left) /\ \A s \in left : \E i \in DOMAIN o : o[i] = s
    BY <1>3, OrdersCover
  <2> QED
    BY <2>1, <2>2
<1>6. /\ todo' \in Seq(AllBlocks) /\ \A i \in DOMAIN todo' : todo'[i] \in left
  <2>1. PICK o \in Seq(left) : o = todo'
    BY <1>5
  <2>2. o \in Seq(AllBlocks) /\ \A i \in DOMAIN o : o[i] \in left
    BY <1>3, <2>1
  <2> QED
    BY <2>1, <2>2
<1>7. \A d : Reach(d)' = Reach(d) /\ OwnReach(d)' = OwnReach(d)
  BY <1>1 DEF Reach, OwnReach
<1>8. \A d : ~Waiting(d)
  BY <1>1, NothingWaiting
<1>9. ParseTypes' /\ ParsedInv'
  <2>1. pass # 2
    <3>1. pass = 1
      BY <1>1
    <3> QED
      BY <3>1
  <2>2. parsed = ""
    BY <1>1, <1>2, <2>1, Zenon DEF ParsedInv, ParseTypes
  <2>3. ParseTypes'
    BY <1>1, <1>2, <1>6 DEF ParseTypes
  <2>4. ParsedInv'
    BY <1>1, <2>2 DEF ParsedInv
  <2> QED
    BY <2>3, <2>4
<1>10. ValuesInv' /\ GroundInv' /\ EdgeInv'
  <2>1. \A d : Reach(d)' = Reach(d) /\ (Begun(d)' <=> Begun(d))
    BY <1>1, <1>7 DEF Begun
  <2>2. ValuesInv'
    BY <1>1, <1>2, <2>1 DEF ValuesInv
  <2>3. GroundInv'
    BY <1>2, <2>1, Zenon DEF GroundInv
  <2>4. EdgeInv'
    BY <1>1 DEF EdgeInv
  <2> QED
    BY <2>2, <2>3, <2>4
<1>11. TurnInv'
  <2>1. ASSUME NEW d \in Blocks PROVE Defines[d] \subseteq values \/ Waiting(d)'
    <3>1. Defines[d] \subseteq values \/ Defines[d] \subseteq unresolved
      BY <1>2, <1>8 DEF TurnInv
    <3>2. Defines[d] \subseteq unresolved => d \in left
      BY BlockFacts DEF left
    <3> QED
      BY <1>5, <3>1, <3>2 DEF Waiting
  <2>2. Waiting(Child)' => refs[Dashboard] \subseteq values
    <3>1. Waiting(Child)' => Child \in left
      BY <1>6 DEF Waiting
    <3> QED
      BY <1>2, <3>1 DEF left, TurnInv
  <2> QED
    BY <1>1, <2>1, <2>2 DEF TurnInv
<1>12. GraphInv'
  BY <1>1 DEF GraphInv
<1>13. OrderInv'
  <2> SUFFICES ASSUME Orderly, NEW i \in DOMAIN todo', NEW m \in OwnReach(todo'[i]) \ values
               PROVE  \E j \in DOMAIN todo' : j < i /\ m \in Defines[todo'[j]]
    BY <1>1, <1>7 DEF OrderInv, Orderly
  <2>1. PICK c \in left : c = todo'[i]
    BY <1>6
  <2>2. PICK n \in Defines[c] : n \in unresolved
    BY <2>1 DEF left
  <2>3. c \in AllBlocks /\ m \in OwnReach(c) \ values
    BY <1>3, <2>1
  <2>4. <<n, m>> \in deps
    BY <1>1, <1>2, <2>2, <2>3 DEF GraphInv
  <2>5. PICK e \in AllBlocks : m \in Defines[e]
    BY <2>3, BlockFacts DEF Orderly, NamesOf, OwnReach, Reach
  <2>6. e \in left
    <3>1. CASE e \in Blocks
      BY <1>2, <1>8, <2>3, <2>5, <3>1, BlockFacts DEF TurnInv, left
    <3>2. CASE e = Child
      <4>1. PICK d \in AllBlocks : m \in refs[d]
        BY <2>3, BlockFacts DEF OwnReach, Reach
      <4>2. refs[Dashboard] = {}
        BY <2>5, <3>2, <4>1, BlockFacts DEF Orderly
      <4>3. Defines[Child] \subseteq unresolved
        BY <1>1, <1>2, <1>8, <2>3, <2>5, <3>2, <4>2 DEF GraphInv
      <4> QED
        BY <2>5, <3>2, <4>3, BlockFacts DEF left
    <3> QED
      BY <3>1, <3>2, BlockFacts
  <2>7. PICK j \in DOMAIN todo' : todo'[j] = e
    BY <1>5, <2>6
  <2>8. <<n, m>> \in Defines[todo'[i]] \X Defines[todo'[j]]
    BY <2>1, <2>2, <2>5, <2>7
  <2>9. j < i
    BY <1>4, <2>4, <2>8
  <2> QED
    BY <2>5, <2>7, <2>9
<1> QED
  BY <1>9, <1>10, <1>11, <1>12, <1>13 DEF ParseInv

\* A step that leaves all but the outcome alone.
LEMMA KeepsParseInv ==
  ASSUME ParseInv, refs' = refs, todo' = todo, pass' = pass, values' = values,
         unresolved' = unresolved, deps' = deps, ParseTypes', ParsedInv'
  PROVE  ParseInv'
<1>1. \A d : Reach(d)' = Reach(d) /\ OwnReach(d)' = OwnReach(d) /\ (Waiting(d)' <=> Waiting(d))
             /\ (Begun(d)' <=> Begun(d))
  BY DEF Reach, OwnReach, Waiting, Begun
<1>2. ValuesInv /\ GroundInv /\ TurnInv /\ EdgeInv /\ GraphInv /\ OrderInv
  BY DEF ParseInv
<1>3. Orderly' <=> Orderly
  BY DEF Orderly
<1>4. ValuesInv' /\ GroundInv' /\ EdgeInv'
  BY <1>1, <1>2 DEF ValuesInv, GroundInv, EdgeInv
<1>5. TurnInv'
  BY <1>1, <1>2 DEF TurnInv
<1>6. GraphInv'
  BY <1>1, <1>2, <1>3 DEF GraphInv
<1>7. OrderInv'
  BY <1>1, <1>2, <1>3 DEF OrderInv
<1> QED
  BY <1>4, <1>5, <1>6, <1>7 DEF ParseInv

LEMMA ParseEndStep == ParseInv /\ ParseEnd => ParseInv'
<1> SUFFICES ASSUME ParseInv, ParseEnd PROVE ParseInv'
  OBVIOUS
<1>1. /\ refs' = refs /\ todo' = todo /\ pass' = pass /\ values' = values
      /\ unresolved' = unresolved /\ deps' = deps /\ todo = <<>>
      /\ \/ unresolved = {} /\ parsed' = "ok"
         \/ pass = 1 /\ unresolved # {} /\ Cyclic /\ parsed' = "cycle"
         \/ pass = 2 /\ unresolved # {} /\ parsed' = "unresolved"
  BY DEF ParseEnd
<1>2. ParseTypes'
  BY <1>1 DEF ParseInv, ParseTypes
<1>3. Cyclic' <=> Cyclic
  BY <1>1 DEF Cyclic
<1>4. ParsedInv'
  BY <1>1, <1>3 DEF ParsedInv
<1> QED
  BY <1>1, <1>2, <1>4, KeepsParseInv

LEMMA ParseInitInv == ParseInit => ParseInv
<1> SUFFICES ASSUME ParseInit PROVE ParseInv
  OBVIOUS
<1>1. /\ todo \in Orders(Blocks) /\ pass = 1 /\ values = {} /\ unresolved = {} /\ deps = {}
      /\ parsed = ""
  BY DEF ParseInit
<1>2. todo \in Seq(Blocks) /\ \A b \in Blocks : \E i \in DOMAIN todo : todo[i] = b
  <2>1. PICK o \in Orders(Blocks) : o = todo
    BY <1>1
  <2>2. o \in Seq(Blocks) /\ \A s \in Blocks : \E i \in DOMAIN o : o[i] = s
    BY ParseAssumption, OrdersCover
  <2> QED
    BY <2>1, <2>2
<1>3. todo \in Seq(AllBlocks) /\ ~Waiting(Child)
  <2>1. PICK o \in Seq(Blocks) : o = todo
    BY <1>2
  <2>2. o \in Seq(AllBlocks) /\ \A i \in DOMAIN o : o[i] \in Blocks
    BY <2>1, BlockFacts
  <2> QED
    BY <2>1, <2>2, BlockFacts DEF Waiting
<1>4. ParseTypes /\ ParsedInv
  BY <1>1, <1>3 DEF ParseTypes, ParsedInv
<1>5. ValuesInv /\ GroundInv /\ EdgeInv
  <2>1. \A b : ~Begun(b)
    BY <1>1 DEF Begun
  <2>2. ValuesInv /\ EdgeInv
    BY <1>1, <2>1 DEF ValuesInv, EdgeInv
  <2>3. GroundInv
    BY <2>1 DEF GroundInv
  <2> QED
    BY <2>2, <2>3
<1>6. TurnInv
  BY <1>1, <1>2, <1>3 DEF TurnInv, Waiting
<1>7. GraphInv /\ OrderInv
  <2>1. Waiting(Dashboard)
    BY <1>2, BlockFacts DEF Waiting
  <2>2. GraphInv
    BY <1>1, <2>1 DEF GraphInv
  <2>3. pass # 2
    <3>1. pass = 1
      BY <1>1
    <3> QED
      BY <3>1
  <2>4. OrderInv
    BY <2>3 DEF OrderInv
  <2> QED
    BY <2>2, <2>4
<1> QED
  BY <1>4, <1>5, <1>6, <1>7 DEF ParseInv

LEMMA ParseStepInv == ParseInv /\ [ParseNext]_parseVars => ParseInv'
<1> SUFFICES ASSUME ParseInv, [ParseNext]_parseVars PROVE ParseInv'
  OBVIOUS
<1>1. CASE UNCHANGED parseVars
  <2>1. ParseTypes' /\ ParsedInv'
    BY <1>1 DEF parseVars, ParseInv, ParseTypes, ParsedInv, Cyclic
  <2> QED
    BY <1>1, <2>1, KeepsParseInv DEF parseVars
<1> QED
  BY <1>1, DecodeStep, SecondPassStep, ParseEndStep DEF ParseNext

(* ParsedIfResolvable, whatever blocks a mod has, whatever names they      *)
(* define and refer to and in whatever order they are read: a mod is       *)
(* loaded only if its blocks can be put in order, a cycle is reported only *)
(* if they cannot, and they are all resolved by the second pass if they    *)
(* can (ParseMod), but for a dashboard that refers to something itself.    *)
THEOREM ParsedIfResolvableCorrect == ParseSpec => []ParsedIfResolvable
<1>1. ParseInv => ParsedIfResolvable
  <2> SUFFICES ASSUME ParseInv PROVE ParsedIfResolvable
    OBVIOUS
  <2>1. ValuesInv /\ GroundInv /\ TurnInv /\ EdgeInv /\ OrderInv /\ ParsedInv
    BY DEF ParseInv
  <2>2. ASSUME parsed = "ok" PROVE Resolvable
    <3>1. todo = <<>> /\ unresolved = {}
      BY <2>1, <2>2 DEF ParsedInv
    <3>2. ASSUME NEW b \in Blocks PROVE Begun(b) /\ Reach(b) \subseteq values
      <4>1. Defines[b] \subseteq values
        BY <2>1, <3>1, <3>2, NothingWaiting DEF TurnInv
      <4>2. Begun(b)
        BY <3>2, <4>1, BlockFacts, OwnsFacts DEF Begun
      <4> QED
        BY <2>1, <4>2 DEF ValuesInv
    <3>3. \A b \in Blocks : Reach(b) \subseteq NamesOf(AllBlocks)
      BY <2>1, <3>2 DEF ValuesInv
    <3>4. ASSUME NEW S \in (SUBSET Blocks) \ {{}}
          PROVE  ~ \A b \in S : \E c \in S : Reach(b) \cap Owns(c) # {}
      BY <2>1, <3>2, <3>4 DEF GroundInv
    <3> QED
      BY <3>3, <3>4 DEF Resolvable
  <2>3. ASSUME parsed = "cycle" PROVE ~Resolvable
    <3>1. PICK S \in SUBSET unresolved : S # {} /\ \A n \in S : \E m \in S : <<n, m>> \in deps
      BY <2>1, <2>3 DEF ParsedInv, Cyclic
    <3>2. PICK T : T = {b \in Blocks : Owns(b) \cap S # {}}
      OBVIOUS
    <3>3. \A n \in S : \E c \in T : n \in Owns(c)
      BY <2>1, <3>2, OwnsFacts DEF ValuesInv
    <3>4. T \in (SUBSET Blocks) \ {{}}
      <4>1. PICK n \in S : TRUE
        BY <3>1
      <4>2. T # {} /\ T \subseteq Blocks
        BY <3>2, <3>3, <4>1
      <4> QED
        BY <4>2
    <3>5. ASSUME NEW b \in T PROVE \E c \in T : Reach(b) \cap Owns(c) # {}
      <4>1. PICK n \in S : n \in Owns(b)
        BY <3>2, <3>5
      <4>2. PICK m \in S : <<n, m>> \in deps
        BY <3>1, <4>1
      <4>3. PICK d \in Blocks : n \in Owns(d) /\ m \in Reach(d)
        BY <2>1, <4>2 DEF EdgeInv
      <4>4. d = b
        BY <3>2, <3>5, <4>1, <4>3, OwnsFacts
      <4>5. PICK c \in T : m \in Owns(c)
        BY <3>3, <4>2
      <4> QED
        BY <4>3, <4>4, <4>5
    <3> QED
      BY <3>4, <3>5 DEF Resolvable
  <2>4. ASSUME parsed = "unresolved", Resolvable
        PROVE  refs[Dashboard] # {} /\ \/ refs[Child] # {}
                                       \/ \E b \in Blocks : refs[b] \cap Defines[Child] # {}
    <3>1. unresolved # {} /\ pass = 2
      BY <2>1, <2>4 DEF ParsedInv
    <3>2. \A b \in AllBlocks : refs[b] \subseteq NamesOf(AllBlocks)
      <4>1. \A b \in Blocks : Reach(b) \subseteq NamesOf(AllBlocks)
        BY <2>4 DEF Resolvable
      <4> QED
        BY <4>1, BlockFacts DEF Reach
    <3>3. ~Orderly
      BY <2>1, <3>1 DEF OrderInv
    <3> QED
      BY <3>2, <3>3 DEF Orderly
  <2> QED
    BY <2>2, <2>3, <2>4 DEF ParsedIfResolvable
<1> QED
  BY <1>1, ParseInitInv, ParseStepInv, PTL DEF ParseSpec

-----------------------------------------------------------------------------
(* The types: edges lead from what is unresolved to what is referred to.   *)

Referred == UNION {refs[b] : b \in AllBlocks}
GraphTypes == DOMAIN refs = AllBlocks /\ deps \subseteq unresolved \X Referred

LEMMA GraphTypesStart == ParseInit => GraphTypes
BY DEF ParseInit, GraphTypes

LEMMA GraphTypesStep == ParseInv /\ GraphTypes /\ [ParseNext]_parseVars => GraphTypes'
<1> SUFFICES ASSUME ParseInv, GraphTypes, [ParseNext]_parseVars PROVE GraphTypes'
  OBVIOUS
<1>1. refs' = refs
  BY DEF ParseNext, DecodeBlock, SecondPass, ParseEnd, parseVars
<1>2. Referred' = Referred /\ DOMAIN refs' = AllBlocks
  BY <1>1 DEF Referred, GraphTypes
<1>3. CASE DecodeBlock
  <2>1. PICK b \in AllBlocks, missed \in SUBSET AllBlocks :
          /\ missed \subseteq DecodedWith(b)
          /\ \A n : n \in unresolved' <=> n \in unresolved \/ \E c \in missed : n \in Defines[c]
          /\ \A e : e \in deps' <=> e \in deps \/ \E c \in missed : e \in Defines[c] \X Lacks(b, c)
    BY <1>3, DecodeEffect
  <2>2. ASSUME NEW c \in missed PROVE Lacks(b, c) \subseteq Referred
    <3>1. \A d \in AllBlocks : Missing(d) \subseteq Referred
      BY DEF Missing, Referred
    <3>2. DecodedWith(b) \subseteq AllBlocks
      BY <2>1, BlockFacts DEF DecodedWith
    <3> QED
      BY <2>1, <2>2, <3>1, <3>2 DEF Lacks
  <2>3. ASSUME NEW e \in deps' PROVE e \in unresolved' \X Referred
    <3>1. CASE e \in deps
      <4>1. e \in unresolved \X Referred
        BY <3>1 DEF GraphTypes
      <4> QED
        BY <2>1, <4>1
    <3>2. CASE e \notin deps
      <4>1. PICK c \in missed : e \in Defines[c] \X Lacks(b, c)
        BY <2>1, <2>3, <3>2
      <4>2. Defines[c] \subseteq unresolved' /\ Lacks(b, c) \subseteq Referred
        BY <2>1, <2>2
      <4> QED
        BY <4>1, <4>2
    <3> QED
      BY <3>1, <3>2
  <2> QED
    BY <1>2, <2>3 DEF GraphTypes
<1>4. CASE SecondPass
  BY <1>2, <1>4 DEF SecondPass, GraphTypes
<1>5. CASE ParseEnd \/ UNCHANGED parseVars
  BY <1>2, <1>5 DEF ParseEnd, parseVars, GraphTypes
<1> QED
  BY <1>3, <1>4, <1>5 DEF ParseNext

LEMMA ParseTyped == ParseInv /\ GraphTypes => ParseTypeOK
BY DEF ParseInv, ParseTypes, ValuesInv, GraphTypes, Referred, ParseTypeOK

(* ParseTypeCorrect: the blocks that are left and the graph of what they   *)
(* refer to keep their types; the graph has only names of blocks that are  *)
(* unresolved in this pass.                                                *)
THEOREM ParseTypeCorrect == ParseSpec => []ParseTypeOK
BY ParseInitInv, ParseStepInv, GraphTypesStart, GraphTypesStep, ParseTyped, PTL DEF ParseSpec

(***************************************************************************)
(* Commands: the components side by side.                                  *)
(***************************************************************************)

(* The component that runs has its invariant, as far as types need it.     *)
CommandsInv ==
  /\ part \in Parts
  /\ part = "plugin" => PluginTypes
  /\ part = "database" => DatabaseTypeOK
  /\ part = "mod" => ModInv
  /\ part = "parse" => ParseInv /\ GraphTypes
  /\ part = "workspace" => WorkspaceInv
  /\ part = "statements" => StatementInv /\ PoolInv
  /\ part = "paths" => SearchInv

LEMMA CommandsStart == Init => CommandsInv
<1> SUFFICES ASSUME Init PROVE CommandsInv
  OBVIOUS
<1>1. /\ part \in Parts /\ PluginInit /\ DatabaseInit /\ ModInit /\ ParseInit /\ WorkspaceInit
      /\ StatementsInit /\ SearchInit
  BY DEF Init
<1>2. PluginTypes /\ DatabaseTypeOK
  BY <1>1, PluginInitInv, DatabaseInitInv DEF PluginInv, DatabaseInv
<1>3. ModInv /\ ParseInv /\ GraphTypes /\ WorkspaceInv
  BY <1>1, ModInitInv, ParseInitInv, GraphTypesStart, WorkspaceInitInv
<1>4. StatementInv /\ PoolInv /\ SearchInv
  BY <1>1, StatementInitInv, PoolStarts, SearchStarts
<1> QED
  BY <1>1, <1>2, <1>3, <1>4 DEF CommandsInv

\* A step is one of the component that runs.
LEMMA CommandsCases ==
  ASSUME [Next]_commandsVars
  PROVE  /\ part' = part
         /\ part = "plugin" => [PluginNext]_pluginVars
         /\ part = "database" => [DatabaseNext]_databaseVars
         /\ part = "mod" => [ModNext]_modVars
         /\ part = "parse" => [ParseNext]_parseVars
         /\ part = "workspace" => [WorkspaceNext]_workspaceVars
         /\ part = "statements" => [StatementsNext]_statementVars
         /\ part = "paths" => [SearchNext]_searchVars
BY DEF Next, commandsVars

LEMMA CommandsStep == CommandsInv /\ [Next]_commandsVars => CommandsInv'
<1> SUFFICES ASSUME CommandsInv, [Next]_commandsVars PROVE CommandsInv'
  OBVIOUS
<1>1. part' = part /\ part \in Parts
  BY CommandsCases DEF CommandsInv
<1>2. part = "plugin" => PluginTypes'
  BY CommandsCases, PluginTypeStep DEF CommandsInv
<1>3. part = "database" => DatabaseTypeOK'
  BY CommandsCases, DatabaseTypeStep DEF CommandsInv
<1>4. part = "mod" => ModInv'
  BY CommandsCases, ModStepInv DEF CommandsInv
<1>5. part = "parse" => ParseInv' /\ GraphTypes'
  BY CommandsCases, ParseStepInv, GraphTypesStep DEF CommandsInv
<1>6. part = "workspace" => WorkspaceInv'
  BY CommandsCases, WorkspaceStepInv DEF CommandsInv
<1>7. part = "statements" => StatementInv' /\ PoolInv'
  BY CommandsCases, StatementStepInv, PoolStep DEF CommandsInv, StatementInv
<1>8. part = "paths" => SearchInv'
  BY CommandsCases, SearchInvInductive DEF CommandsInv
<1> QED
  BY <1>1, <1>2, <1>3, <1>4, <1>5, <1>6, <1>7, <1>8 DEF CommandsInv

(* TypeCorrect: whichever of the seven components runs, its variables keep *)
(* their types, for every value of its constants.                          *)
THEOREM TypeCorrect == Spec => []TypeOK
<1>1. CommandsInv => TypeOK
  <2> SUFFICES ASSUME CommandsInv PROVE TypeOK
    OBVIOUS
  <2>1. part = "plugin" => PluginTypeOK
    BY DEF CommandsInv, PluginTypes
  <2>2. part = "mod" => ModTypeOK
    BY DEF CommandsInv, ModInv, ModTypes
  <2>3. part = "parse" => ParseTypeOK
    BY ParseTyped DEF CommandsInv
  <2>4. part = "workspace" => WorkspaceTypeOK
    BY WorkspaceTyped DEF CommandsInv
  <2>5. part = "statements" => StatementsTypeOK
    BY StatementsTyped DEF CommandsInv
  <2>6. part = "paths" => SearchTypeOK
    BY TypesOfSearch DEF CommandsInv, SearchInv
  <2> QED
    BY <2>1, <2>2, <2>3, <2>4, <2>5, <2>6 DEF CommandsInv, TypeOK
<1> QED
  BY <1>1, CommandsStart, CommandsStep, PTL DEF Spec
=============================================================================
