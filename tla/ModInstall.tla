------------------------------ MODULE ModInstall ------------------------------
(***************************************************************************)
(* `steampipe mod install | update | uninstall` (modinstaller, versionmap) *)
(* for one workspace. Mods are installed from the tags of git repositories *)
(* into folders named after mod and version; the lock file records, under  *)
(* the path of the mod that requires it, the version and the constraint of *)
(* every mod that is installed.                                            *)
(*                                                                         *)
(* A version is a number, a constraint the set of versions that satisfy it.*)
(* A command goes through the requirements depth first; it is one process, *)
(* but it may be killed, and every request for tags or a clone may fail.   *)
(***************************************************************************)
EXTENDS Integers, Sequences, FiniteSetsExt

CONSTANTS
  Mods,
  Versions,       \* bound: the versions ever tagged
  Requires,       \* what each version of a mod requires: a constraint for each mod
  Args,           \* the arguments of the command line: a constraint for each mod
  MaxModCommands  \* bound: commands run

ASSUME ModAssumption ==
  /\ Requires \in [Mods \X Versions -> [Mods -> SUBSET Versions]]
  /\ IsFiniteSet(Versions) /\ Versions # {} /\ Versions = 1..Cardinality(Versions)
  /\ Args \subseteq [Mods -> SUBSET Versions]
  /\ MaxModCommands \in Nat

VARIABLES
  tags,        \* the newest version tagged of each mod
  modfile,     \* the constraint of each mod in the mod file, {} when not required
  lockFile,    \* the entries of the lock file
  lockReadable,
  folders,     \* the mod versions installed
  installer,   \* the running command
  modCommands,
  outcome      \* history: how the last commands ended since all was well

modVars == <<tags, modfile, lockFile, lockReadable, folders, installer, modCommands, outcome>>

NoRequirements == [m \in Mods |-> {}]
Workspace == <<"workspace", 0>>
\* The path of a mod just installed is taken relative to the temporary
\* directory of the command: one and the same for all of them.
Fresh == <<"tmp", 0>>

Entries == [parent : {Workspace, Fresh} \cup (Mods \X Versions),
            mod : Mods, version : Versions, allowed : SUBSET Versions]
Installed(e) == <<e.mod, e.version>>
Locked(lock, mod, version) == \E e \in lock : Installed(e) = <<mod, version>>
Put(lock, e) == {x \in lock : <<x.parent, x.mod>> # <<e.parent, e.mod>>} \cup {e}

(* todo: what is required but not yet looked at, innermost mod first;      *)
(* known: the tags fetched so far; installedMods: the folders found at     *)
(* the start; clash (history): an entry replaced one of another parent.    *)
Idle == [op |-> "none", at |-> "idle", dry |-> FALSE, args |-> FALSE,
         required |-> NoRequirements, lock |-> {}, newLock |-> {}, installedMods |-> {},
         todo |-> <<>>, known |-> [m \in Mods |-> 0], failed |-> FALSE, clash |-> FALSE]

ModInit ==
  /\ tags = [m \in Mods |-> 1]
  /\ modfile = NoRequirements
  /\ lockFile = {}
  /\ lockReadable = TRUE
  /\ folders = {}
  /\ installer = Idle
  /\ modCommands = 0
  /\ outcome = "well"

InstallerAt(step) == installer.at = step
Items(required, parent, force) ==
  {[mod |-> m, allowed |-> required[m], parent |-> parent, force |-> force] :
     m \in {x \in Mods : required[x] # {}}}

\* The lock as it is loaded: entries whose folder is missing are left out.
LoadedLock == {e \in lockFile : Installed(e) \in folders}

(* Constraints given to install replace those of the same mods; update     *)
(* takes the mods that are required and locked; uninstall removes mods     *)
(* from the requirements. A lock file that cannot be read ends them all.   *)
NewRequirements(op, args) ==
  CASE op = "install" -> [m \in Mods |-> IF args[m] # {} THEN args[m] ELSE modfile[m]]
    [] op = "uninstall" -> [m \in Mods |-> IF args[m] # {} \/ args = NoRequirements
                                           THEN {} ELSE modfile[m]]
    [] OTHER -> modfile

ModCommand(op, args, dry) ==
  /\ InstallerAt("idle")
  /\ modCommands < MaxModCommands
  /\ lockReadable
  /\ op = "update" =>
       \A m \in Mods : args[m] # {} =>
         modfile[m] # {} /\ \E e \in LoadedLock : e.parent = Workspace /\ e.mod = m
  /\ modCommands' = modCommands + 1
  /\ LET required == NewRequirements(op, args) IN
     installer' = [Idle EXCEPT !.op = op, !.at = "resolve", !.dry = dry,
                               !.args = args # NoRequirements, !.required = required,
                               !.lock = LoadedLock, !.installedMods = folders,
                               !.todo = <<Items(required, Workspace, op = "update")>>]
  /\ UNCHANGED <<tags, modfile, lockFile, lockReadable, folders, outcome>>

-----------------------------------------------------------------------------
(* installModDependencesRecursively                                        *)

\* The entry of the lock that meets the requirement of item, or none.
Current(item) == {e \in installer.lock : /\ e.parent = item.parent
                                         /\ e.mod = item.mod
                                         /\ e.version \in item.allowed}
Available(item, newest) == {v \in item.allowed : v <= newest}

\* An installed version is replaced when it may be and a newer one is allowed.
CanUpdate(item, e, newest) ==
  /\ item.force \/ e.allowed # item.allowed
  /\ \E v \in Available(item, newest) : v > e.version

\* The item is done; the requirements of its mod, if any, come next.
Rest(item) == <<Head(installer.todo) \ {item}>> \o Tail(installer.todo)
Record(item, v, path, force) ==
  [installer EXCEPT
     !.at = "resolve",
     !.newLock = Put(@, [parent |-> item.parent, mod |-> item.mod,
                         version |-> v, allowed |-> item.allowed]),
     !.clash = @ \/ \E e \in installer.newLock : /\ e.parent = item.parent
                                                 /\ e.mod = item.mod
                                                 /\ e.version # v,
     !.known[item.mod] = IF @ = 0 THEN tags[item.mod] ELSE @,
     !.todo = <<Items(Requires[item.mod, v], path, force)>> \o Rest(item)]

Error(item) == installer' = [installer EXCEPT !.failed = TRUE, !.todo = Rest(item)]

(* The tags of the mod are fetched, once in a command. What is required of *)
(* the children of a mod that is replaced may be replaced too.             *)
Resolve(item) ==
  LET fetched == installer.known[item.mod]
      newest == IF fetched = 0 THEN tags[item.mod] ELSE fetched
      available == Available(item, newest)
      childForce == IF item.parent = Workspace THEN FALSE ELSE item.force IN
  /\ \/ fetched = 0 /\ Error(item) /\ folders' = folders
     \/ \E e \in Current(item) :
          /\ ~CanUpdate(item, e, newest)
          /\ IF available = {} /\ (item.force \/ e.allowed # item.allowed)
             THEN Error(item)
             ELSE installer' = Record(item, e.version, Installed(e), childForce)
          /\ folders' = folders
     \/ /\ \A e \in Current(item) : CanUpdate(item, e, newest)
        /\ IF available = {} THEN Error(item) /\ folders' = folders
           ELSE LET v == Max(available)
                    force == item.parent = Workspace \/ item.force IN
                \/ /\ installer' = Record(item, v, Fresh, force)
                   /\ folders' = IF installer.dry THEN folders
                                 ELSE folders \cup {<<item.mod, v>>}
                \/ Error(item) /\ folders' = folders       \* the clone fails
                \/ /\ ~installer.dry                        \* or the copy
                   /\ Error(item)
                   /\ folders' = folders \ {<<item.mod, v>>}
  /\ UNCHANGED <<tags, modfile, lockFile, lockReadable, modCommands, outcome>>

InstallMods ==
  /\ InstallerAt("resolve")
  /\ installer.todo # <<>>
  /\ \E item \in Head(installer.todo) : Resolve(item)

ModDone ==
  /\ InstallerAt("resolve")
  /\ installer.todo # <<>>
  /\ Head(installer.todo) = {}
  /\ installer' = [installer EXCEPT !.todo = Tail(@)]
  /\ UNCHANGED <<tags, modfile, lockFile, lockReadable, folders, modCommands, outcome>>

-----------------------------------------------------------------------------
(* The end of a command: the lock file, the mod file, then the folders.    *)

End(how) ==
  /\ installer' = Idle
  /\ outcome' = how

\* Install and update prune in a defer: after an error and a dry run as well.
InstallComplete ==
  /\ InstallerAt("resolve")
  /\ installer.todo = <<>>
  /\ IF installer.failed \/ installer.dry
     THEN IF installer.op = "uninstall"
          THEN End(IF installer.dry THEN outcome ELSE "failed")
          ELSE installer' = [installer EXCEPT !.at = "prune"] /\ outcome' = outcome
     ELSE installer' = [installer EXCEPT !.at = "saveLock"] /\ outcome' = outcome
  /\ UNCHANGED <<tags, modfile, lockFile, lockReadable, folders, modCommands>>

SaveLock ==
  /\ InstallerAt("saveLock")
  /\ lockFile' = installer.newLock
  /\ installer' = [installer EXCEPT !.at = "saveModfile"]
  /\ UNCHANGED <<tags, modfile, lockReadable, folders, modCommands, outcome>>

\* Install and update save the mod file only when mods were named.
SaveModfile ==
  /\ InstallerAt("saveModfile")
  /\ modfile' = IF installer.args \/ installer.op = "uninstall"
                THEN installer.required ELSE modfile
  /\ lockFile' = IF installer.required = NoRequirements THEN {} ELSE lockFile
  /\ installer' = [installer EXCEPT !.at = "prune"]
  /\ UNCHANGED <<tags, lockReadable, folders, modCommands, outcome>>

\* Mutant: what dependencies require is not looked for in the lock.
MutUnreferenced ==
  {mv \in installer.installedMods :
     ~ \E e \in installer.newLock : e.parent = Workspace /\ Installed(e) = mv}

\* Mods that were there at the start and that the new lock does not name go.
Unreferenced == {mv \in installer.installedMods : ~Locked(installer.newLock, mv[1], mv[2])}

Prune ==
  /\ InstallerAt("prune")
  /\ folders' = folders \ Unreferenced
  /\ End(IF installer.failed \/ installer.clash THEN "failed"
         ELSE IF installer.dry THEN (IF folders' = folders THEN outcome ELSE "failed")
         ELSE "well")
  /\ UNCHANGED <<tags, modfile, lockFile, lockReadable, modCommands>>

(* A command is killed: in the middle of a copy, a write or a prune.       *)
KillInstaller ==
  /\ ~InstallerAt("idle")
  /\ End("failed")
  /\ lockReadable' \in BOOLEAN
  /\ ~lockReadable' => InstallerAt("saveLock")
  /\ folders' \in
       IF InstallerAt("prune") THEN {folders \ gone : gone \in SUBSET Unreferenced}
       ELSE {folders} \cup
            {folders \ {<<item.mod, v>>} :
               item \in IF installer.dry \/ installer.todo = <<>> THEN {}
                        ELSE Head(installer.todo),
               v \in Versions}
  /\ UNCHANGED <<tags, modfile, lockFile, modCommands>>

Tag(m) ==
  /\ tags[m] + 1 \in Versions
  /\ tags' = [tags EXCEPT ![m] = @ + 1]
  /\ UNCHANGED <<modfile, lockFile, lockReadable, folders, installer, modCommands, outcome>>

ModNext ==
  \/ \E op \in {"install", "update", "uninstall"}, args \in Args, dry \in BOOLEAN :
       ModCommand(op, args, dry)
  \/ InstallMods \/ ModDone \/ InstallComplete
  \/ SaveLock \/ SaveModfile \/ Prune \/ KillInstaller
  \/ \E m \in Mods : Tag(m)

ModSpec == ModInit /\ [][ModNext]_modVars
-----------------------------------------------------------------------------
(* Properties                                                              *)

ModTypeOK ==
  /\ tags \in [Mods -> Versions]
  /\ modfile \in [Mods -> SUBSET Versions]
  /\ lockFile \subseteq Entries
  /\ folders \subseteq Mods \X Versions
  /\ installer.newLock \subseteq Entries
  /\ lockReadable \in BOOLEAN
  /\ outcome \in {"well", "failed"}

-----------------------------------------------------------------------------
(* Loading the workspace with what is installed (load_mod.go). The lock    *)
(* file is consulted for the requirements of the workspace only: the path  *)
(* of a dependency is set after its own dependencies have been loaded.     *)

Found(mod, allowed) == {mv \in folders : mv[1] = mod /\ mv[2] \in allowed}

LockedConstraint(m) ==
  LET locked == {e \in lockFile : e.parent = Workspace /\ e.mod = m} IN
  IF locked = {} THEN modfile[m] ELSE {e.version : e \in locked} \cap modfile[m]

(* The mods that are reached: the smallest set that has those the          *)
(* workspace requires and, with each, those that it requires.              *)
LoadedMods ==
  LET direct == UNION {Found(m, LockedConstraint(m)) : m \in Mods}
      closed(S) == \A mv \in S, n \in Mods : Found(n, Requires[mv][n]) \subseteq S
  IN {mv \in folders : \A S \in SUBSET folders : direct \subseteq S /\ closed(S) => mv \in S}

\* Each requirement must be met by one installed version; two are an error.
LoadModDependencies ==
  /\ \A e \in lockFile : Installed(e) \in folders
  /\ \A m \in Mods : modfile[m] # {} => Cardinality(Found(m, LockedConstraint(m))) = 1
  /\ \A mv \in LoadedMods, n \in Mods :
       Requires[mv][n] # {} => Cardinality(Found(n, Requires[mv][n])) = 1

-----------------------------------------------------------------------------
(* DependenciesInstalled: after an install, update or uninstall that ended *)
(* without an error every locked version is installed and the workspace    *)
(* loads, whatever the commands before did. It need not when a later       *)
(* command failed, was killed, or pruned after a dry run; nor when         *)
(* two new mods of one command were given different versions of a mod:     *)
(* their entries have the same key, the last one replaces the others, and  *)
(* the version of a parent that was installed before is pruned. And it     *)
(* does not load when two versions of a mod that a dependency requires are *)
(* installed for others, though the lock file says which one to take.      *)
DependenciesInstalled ==
  InstallerAt("idle") /\ outcome = "well" =>
    /\ \A e \in lockFile : Installed(e) \in folders
    /\ \/ LoadModDependencies
       \/ \E mv \in LoadedMods, n \in Mods : Cardinality(Found(n, Requires[mv][n])) > 1

(* DryRunKeepsInstalled: `--dry-run` is to "show which mods would be       *)
(* updated without modifying them"; at the least the versions the lock     *)
(* file names stay installed. The deferred prune of a dry run deletes what *)
(* the lock that would have been saved no longer names.                    *)
DryRunKeepsInstalled ==
  [][installer.dry =>
       \A e \in lockFile : Installed(e) \in folders => Installed(e) \in folders']_modVars
=============================================================================
