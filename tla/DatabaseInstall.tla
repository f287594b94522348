---------------------------- MODULE DatabaseInstall ----------------------------
(***************************************************************************)
(* EnsureDBInstalled: every command makes sure that the embedded postgres  *)
(* is installed, that its foreign data wrapper (the FDW) is the one this   *)
(* release needs, and that its data directory is initialised, before it    *)
(* starts the service (db/db_local/install.go, ociinstaller).              *)
(*                                                                         *)
(* Nothing records how far an installation has come: that the files of     *)
(* postgres and the FDW exist means "installed", that pg_hba.conf exists   *)
(* means "initialised", and the mutex around it all is that of one process.*)
(***************************************************************************)
EXTENDS Integers, FiniteSets

CONSTANTS
  Shells,        \* where commands are run
  MaxRelease,    \* bound: releases of steampipe, each with an FDW of its own
  MaxRuns        \* bound: commands run

ASSUME DatabaseAssumption == MaxRelease \in Nat \ {0} /\ MaxRuns \in Nat

VARIABLES
  release,       \* the release that is installed
  binaries,      \* the files of postgres are there
  fdw,           \* the release each FDW file is of, 0 when it is missing
  versions,      \* the database version file: the version of the FDW
  data,          \* the data directory
  postgres,      \* a postgres that an installation started is running
  ensure,        \* EnsureDBInstalled of each shell
  runs,
  halfDone      \* history: an installation stopped half way, or two overlapped

diskVars == <<binaries, fdw, versions, data>>
databaseVars == <<release, diskVars, postgres, ensure, runs, halfDone>>

FdwFiles == {"binary", "control", "sql"}
NoFdw == [f \in FdwFiles |-> 0]

\* hba: who wrote pg_hba.conf last; database: it is created, with its users;
\* server: the foreign server is created in it.
NoData == [hba |-> "none", database |-> FALSE, server |-> FALSE]

\* fresh: the installation is a first one; ok: the last to start returned
\* without an error; alone: no other command was installing when it started.
NoEnsure == [at |-> "idle", fresh |-> FALSE, ok |-> FALSE, alone |-> TRUE]

DatabaseInit ==
  /\ release = 1
  /\ binaries = FALSE
  /\ fdw = NoFdw
  /\ versions = 0
  /\ data = NoData
  /\ postgres = FALSE
  /\ ensure = [s \in Shells |-> NoEnsure]
  /\ runs = 0
  /\ halfDone = FALSE

Ensuring(s, step) == ensure[s].at = step
Busy == {s \in Shells : ensure[s].at # "idle"}
Then(s, step) == ensure' = [ensure EXCEPT ![s].at = step]
Fails(s) == ensure' = [ensure EXCEPT ![s] = NoEnsure]
Succeeds(s) == ensure' = [ensure EXCEPT ![s] = [@ EXCEPT !.at = "idle", !.ok = TRUE]]

\* Shell s changes the installation: unnoticed by the others it overlaps.
Changes(s) == halfDone' = (halfDone \/ Busy # {s})

\* An installation ends without the data directory being complete.
Halts == halfDone' = (halfDone \/ data.hba # "none")

FdwInstalled == \A f \in FdwFiles : fdw[f] # 0
IsInstalled == binaries /\ FdwInstalled
NeedsInit == data.hba = "none"
\* Mutant: any FDW will do.
MutFdwNeedsUpdate == versions = 0
FdwNeedsUpdate == versions # release

EnsureDBInstalled(s) ==
  /\ Ensuring(s, "idle")
  /\ runs < MaxRuns
  /\ runs' = runs + 1
  /\ ensure' = [q \in Shells |->
                  IF q # s THEN [ensure[q] EXCEPT !.ok = FALSE]
                  ELSE [at |-> IF IsInstalled THEN "prepare" ELSE "clean",
                        fresh |-> ~IsInstalled, ok |-> FALSE, alone |-> Busy = {}]]
  /\ UNCHANGED <<release, diskVars, postgres, halfDone>>

-----------------------------------------------------------------------------
(* prepareDb: what is installed is brought up to date.                     *)

PrepareFdw(s) ==
  /\ Ensuring(s, "prepare")
  /\ Then(s, IF FdwNeedsUpdate THEN "fdw" ELSE "prepared")
  /\ UNCHANGED <<release, diskVars, postgres, runs, halfDone>>

PrepareData(s) ==
  /\ Ensuring(s, "prepared")
  /\ IF NeedsInit THEN Then(s, "init") /\ postgres' = FALSE   \* killInstanceIfAny
     ELSE Succeeds(s) /\ postgres' = postgres
  /\ UNCHANGED <<release, diskVars, runs, halfDone>>

-----------------------------------------------------------------------------
(* A first installation                                                    *)

RemovePrevious(s) ==
  /\ Ensuring(s, "clean")
  /\ \/ Then(s, "binaries") /\ binaries' = FALSE /\ fdw' = NoFdw
     \/ Fails(s) /\ UNCHANGED <<binaries, fdw>>
  /\ Changes(s)
  /\ UNCHANGED <<release, versions, data, postgres, runs>>

InstallDB(s) ==
  /\ Ensuring(s, "binaries")
  /\ \/ Then(s, "fdw") /\ binaries' = TRUE
     \/ Fails(s) /\ binaries' = binaries
  /\ Changes(s)
  /\ UNCHANGED <<release, fdw, versions, data, postgres, runs>>

-----------------------------------------------------------------------------
(* InstallFdw: the binary, the control file and the SQL file are written   *)
(* one after the other, the version file last.                             *)

InstallFdw(s) ==
  /\ Ensuring(s, "fdw")
  /\ \/ \E written \in {{"binary"}, {"binary", "control"}, FdwFiles} :
          /\ fdw' = [f \in FdwFiles |-> IF f \in written THEN release ELSE fdw[f]]
          /\ IF written = FdwFiles THEN Then(s, "record") ELSE Fails(s)
     \/ Fails(s) /\ fdw' = fdw   \* the download fails
  /\ Changes(s)
  /\ UNCHANGED <<release, binaries, versions, data, postgres, runs>>

UpdateVersionFileFdw(s) ==
  /\ Ensuring(s, "record")
  /\ versions' = release
  /\ Then(s, IF ensure[s].fresh THEN "init" ELSE "prepared")
  /\ Changes(s)
  /\ UNCHANGED <<release, binaries, fdw, data, postgres, runs>>

-----------------------------------------------------------------------------
(* runInstall                                                              *)

\* An installation that clears the data directory, alone, makes a new start.
ClearData(s) ==
  /\ Ensuring(s, "init")
  /\ data' = NoData
  /\ Then(s, "initdb")
  /\ halfDone' = (Busy # {s} \/ ~ensure[s].alone)
  /\ UNCHANGED <<release, binaries, fdw, versions, postgres, runs>>

(* initdb writes a pg_hba.conf of its own, which is replaced by one that   *)
(* lets root in only; when it fails it leaves nothing.                     *)
InitDatabase(s) ==
  /\ Ensuring(s, "initdb")
  /\ \/ /\ binaries
        /\ data.hba = "none"
        /\ data' = [data EXCEPT !.hba = "minimal"]
        /\ Then(s, "start")
        /\ Changes(s)
     \/ /\ binaries   \* the second pg_hba.conf cannot be written
        /\ data' = [data EXCEPT !.hba = IF @ = "none" THEN "initdb" ELSE @]
        /\ Fails(s)
        /\ halfDone' = TRUE
     \/ Fails(s) /\ data' = data /\ Halts
  /\ UNCHANGED <<release, binaries, fdw, versions, postgres, runs>>

(* When no connection is made the error is returned and postgres runs on.  *)
StartServiceForInstall(s) ==
  /\ Ensuring(s, "start")
  /\ \/ /\ binaries /\ ~postgres
        /\ postgres' = TRUE
        /\ \/ Then(s, "configure") /\ Changes(s)
           \/ Fails(s) /\ Halts
     \/ Fails(s) /\ Halts /\ postgres' = postgres
  /\ UNCHANGED <<release, diskVars, runs>>

(* From here on postgres is stopped whatever happens. The name of the      *)
(* database may be invalid, and any of the statements may fail.            *)
InstallDatabase(s) ==
  /\ Ensuring(s, "configure")
  /\ \/ /\ postgres
        /\ data' = [data EXCEPT !.database = TRUE, !.hba = "final"]
        /\ Then(s, "server")
        /\ Changes(s)
     \/ /\ \E created \in {data.database, postgres \/ data.database} :
             data' = [data EXCEPT !.database = created]
        /\ Fails(s)
        /\ Halts
  /\ postgres' = (postgres /\ ensure'[s].at = "server")
  /\ UNCHANGED <<release, binaries, fdw, versions, runs>>

InstallForeignServer(s) ==
  /\ Ensuring(s, "server")
  /\ \/ postgres /\ FdwInstalled /\ data' = [data EXCEPT !.server = TRUE] /\ Succeeds(s)
     \/ Fails(s) /\ data' = data
  /\ Changes(s)
  /\ postgres' = FALSE
  /\ UNCHANGED <<release, binaries, fdw, versions, runs>>

-----------------------------------------------------------------------------
(* After a successful EnsureDBInstalled the service is started: postgres   *)
(* needs its data directory for itself, getDatabaseName a database, and    *)
(* ensureService creates the foreign server when it is missing.            *)

CanStart == IsInstalled /\ ~postgres /\ data.database
StartDB(s) ==
  /\ Ensuring(s, "idle")
  /\ ensure[s].ok
  /\ CanStart
  /\ data' = [data EXCEPT !.server = TRUE]
  /\ UNCHANGED <<release, binaries, fdw, versions, postgres, ensure, runs, halfDone>>

\* The command is killed; a postgres it started is not.
Killed(s) ==
  /\ ~Ensuring(s, "idle")
  /\ Fails(s)
  /\ IF Ensuring(s, "initdb") /\ binaries
     THEN \E hba \in {"none", "initdb"} :
            /\ data' = [data EXCEPT !.hba = IF @ = "none" THEN hba ELSE @]
            /\ halfDone' = (halfDone \/ data'.hba # "none")
     ELSE /\ data' = data
          /\ IF ensure[s].at \in {"start", "configure", "server"}
             THEN Halts ELSE halfDone' = halfDone
  /\ UNCHANGED <<release, binaries, fdw, versions, postgres, runs>>

\* A new release of steampipe is installed.
NewRelease ==
  /\ release < MaxRelease
  /\ Busy = {}
  /\ release' = release + 1
  /\ ensure' = [s \in Shells |-> NoEnsure]
  /\ UNCHANGED <<diskVars, postgres, runs, halfDone>>

DatabaseNext ==
  \/ \E s \in Shells :
       \/ EnsureDBInstalled(s) \/ PrepareFdw(s) \/ PrepareData(s)
       \/ RemovePrevious(s) \/ InstallDB(s) \/ InstallFdw(s) \/ UpdateVersionFileFdw(s)
       \/ ClearData(s) \/ InitDatabase(s) \/ StartServiceForInstall(s)
       \/ InstallDatabase(s) \/ InstallForeignServer(s) \/ StartDB(s) \/ Killed(s)
  \/ NewRelease

DatabaseSpec == DatabaseInit /\ [][DatabaseNext]_databaseVars
-----------------------------------------------------------------------------
(* Properties                                                              *)

DatabaseTypeOK ==
  /\ release \in 1..MaxRelease
  /\ fdw \in [FdwFiles -> 0..MaxRelease]
  /\ versions \in 0..MaxRelease
  /\ data \in [hba : {"none", "initdb", "minimal", "final"},
               database : BOOLEAN, server : BOOLEAN]
  /\ {binaries, postgres, halfDone} \subseteq BOOLEAN
  /\ ensure \in [Shells -> [at : {"idle", "prepare", "prepared", "clean", "binaries", "fdw",
                                  "record", "init", "initdb", "start", "configure", "server"},
                            fresh : BOOLEAN, ok : BOOLEAN, alone : BOOLEAN]]

(* InstalledIsUsable: when EnsureDBInstalled has returned without an error *)
(* to a command that did not overlap the installation of another, the      *)
(* service can start, the FDW is that of the release, all three files      *)
(* of it, and users are let in. An FDW update or a first installation that *)
(* stops anywhere before initdb is put right by the next command. The one  *)
(* thing that is not is an installation that stopped between initdb and    *)
(* its end, or that overlapped another: pg_hba.conf exists from initdb on, *)
(* so no later command initialises the data directory, and without its     *)
(* database the service never starts again.                                *)
InstalledIsUsable ==
  \A s \in Shells :
    ensure[s].ok /\ ensure[s].alone /\ ~halfDone =>
      /\ CanStart
      /\ data.hba = "final"
      /\ \A f \in FdwFiles : fdw[f] = release
=============================================================================
