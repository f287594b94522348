------------------------------ MODULE SearchPaths ------------------------------
(***************************************************************************)
(* The schemas a query without a schema name is searched in: from the      *)
(* options in the config files, the flags and the lines of a prompt to the *)
(* search_path of the database session that runs the query.                *)
(*                                                                         *)
(* There are two search paths. That of the users is stored in the database *)
(* by each refresh of the connections, by a command or by the watcher in   *)
(* the plugin manager; a new session starts with it. The path a client     *)
(* requires is computed once, and again by a line of the prompt; a session *)
(* is set to it when it is acquired and is not known to have it already.   *)
(* A control may set a path of its own after that, and nobody notes that.  *)
(*                                                                         *)
(* The steps of a refresh of the connections, and its races with another,  *)
(* are those of ConnectionRefresh: here it is one step.                    *)
(***************************************************************************)
EXTENDS Integers, SequencesExt

CONSTANTS
  Connections,     \* the connections there may be
  Sorted,          \* Sorted[S]: the connections of S in alphabetical order
  Configs,         \* what the config files may say
  Flags,           \* flags and environment of a command
  LinePaths,       \* arguments of .search_path and .search_path_prefix
  OwnPaths,        \* search_path and search_path_prefix of a control
  Pids,            \* process ids of the database's backends
  MaxSearches,     \* bound: queries
  MaxConfigEdits   \* bound: changes of the config files

Unset == <<>>
Schemas == Connections \cup {"$user", "public", "internal"}
Paths == Seq(Schemas)
PathOptions == [path : Paths, prefix : Paths]
NoOptions == [path |-> Unset, prefix |-> Unset]

ASSUME PathsAssumption ==
  /\ IsFiniteSet(Pids) /\ Pids # {} /\ {MaxSearches, MaxConfigEdits} \subseteq Nat
  /\ \A S \in SUBSET Connections : Sorted[S] \in Seq(S) /\ Range(Sorted[S]) = S
  /\ \A c \in Configs :
       /\ c.connections \subseteq Connections /\ c.database \in Paths
       /\ {c.terminal, c.workspace} \subseteq PathOptions
       /\ c.parallel \in Nat /\ c.blocks \in {"ok", "duplicate", "notPermitted"}
  /\ \A f \in Flags : f.options \in PathOptions /\ {f.parallel, f.env} \subseteq Nat
  /\ LinePaths \subseteq Paths \ {Unset} /\ OwnPaths \subseteq PathOptions

VARIABLES
  config,          \* the config files
  configEdits,
  daemon,          \* database.search-path in the viper of the plugin manager
  userPath,        \* the search path of the users, in the database
  client,          \* the command that runs, with its client
  pool,            \* the backends of the client
  known,           \* the map of sessions: the path each is known to have
  search,          \* the goroutines that use a session
  searches,
  refreshed,       \* history: what the last refresh had loaded
  dropped,         \* history: it was the watcher's, after the option had been removed
  strayed,         \* history: backends whose path the map of sessions is wrong about
  piled            \* history: a prefix was put in front of a path that had one

configVars == <<config, configEdits>>
usersVars == <<daemon, userPath, refreshed, dropped>>
searchVars == <<configVars, usersVars, client, pool, known, search, searches, strayed, piled>>

Goroutines == {1, 2}
NoClient == [mode |-> "none", size |-> 0, options |-> NoOptions, required |-> Unset, users |-> Unset]
NoBackend == [at |-> "closed", path |-> Unset, old |-> FALSE]
NotKnown == [found |-> FALSE, path |-> Unset]
Session(at, for, pid, own) == [at |-> at, for |-> for, pid |-> pid, own |-> own]
NoSearch == Session("idle", "query", 0, NoOptions)

-----------------------------------------------------------------------------
(* Settings                                                                *)

Over(a, b) == IF a # Unset THEN a ELSE b
MergeOptions(a, b) == [path |-> Over(a.path, b.path), prefix |-> Over(a.prefix, b.prefix)]

\* The options of the workspace come over those of the install directory.
TerminalOptions(c, mode) ==
  IF mode = "check" THEN NoOptions ELSE MergeOptions(c.workspace, c.terminal)
ConfigMap(c, mode) == MergeOptions(TerminalOptions(c, mode), [NoOptions EXCEPT !.path = c.database])

\* viper: what is set comes before the flags, the flags before the defaults.
Settings(c, mode, flags) ==
  MergeOptions(IF mode = "dashboard" THEN NoOptions ELSE flags.options, ConfigMap(c, mode))

DefaultMaxConnections == Cardinality(Pids) - 1
FirstSet(a, b) == IF a # 0 THEN a ELSE b
PoolSize(c, mode, flags) ==
  IF mode = "query" THEN 1
  ELSE FirstSet(IF mode = "check" THEN flags.parallel ELSE 0,
                FirstSet(flags.env, FirstSet(c.parallel, DefaultMaxConnections)))

-----------------------------------------------------------------------------
(* Paths                                                                   *)

AddSearchPathPrefix(prefix, path) ==
  IF prefix = Unset THEN path
  ELSE FoldLeft(LAMBDA p, s : IF Contains(p, s) THEN p ELSE Append(p, s), prefix, path)

ContructSearchPath(options, current) ==
  AddSearchPathPrefix(options.prefix,
                      IF options.path # Unset THEN Append(options.path, "internal") ELSE current)

DefaultSearchPath(connections) ==
  <<"public">> \o Sorted[connections] \o <<"internal">>
UserSearchPath(c, database) ==
  IF database # Unset THEN Append(database, "internal") ELSE DefaultSearchPath(c.connections)

SearchInit ==
  /\ config \in Configs /\ config.blocks = "ok"
  /\ configEdits = 0
  /\ daemon = config.database
  /\ userPath = <<"$user", "public">>
  /\ client = NoClient
  /\ pool = [p \in Pids |-> NoBackend]
  /\ known = [p \in Pids |-> NotKnown]
  /\ search = [g \in Goroutines |-> NoSearch]
  /\ searches = 0
  /\ refreshed = [by |-> "nobody", config |-> config]
  /\ dropped = FALSE /\ strayed = {} /\ piled = FALSE

-----------------------------------------------------------------------------
(* The config files, the watcher and the start of a command                *)

EditConfig ==
  /\ configEdits < MaxConfigEdits /\ configEdits' = configEdits + 1
  /\ config' \in Configs
  /\ UNCHANGED <<usersVars, client, pool, known, search, searches, strayed, piled>>

(* The defaults of viper are set from the options that are there, in the   *)
(* daemon on top of those that were there when it last loaded them.        *)
WatcherDatabase == Over(config.database, daemon)
WatcherRefreshes ==
  /\ config.blocks # "duplicate"
  /\ daemon' = WatcherDatabase
  /\ userPath' = UserSearchPath(config, WatcherDatabase)
  /\ refreshed' = [by |-> "watcher", config |-> config]
  /\ dropped' = (config.database = Unset /\ daemon # Unset)
  /\ UNCHANGED <<configVars, client, pool, known, search, searches, strayed, piled>>

(* A local client stores the path of the users before it computes its own, *)
(* with a session that it opens with the old one. A client of another      *)
(* database asks such a session for the path.                              *)
RefreshConnectionAndSearchPaths(mode, local, flags, pid) ==
  LET users == IF local THEN UserSearchPath(config, config.database) ELSE userPath
      options == Settings(config, mode, flags) IN
  /\ userPath' = users
  /\ client' = [mode |-> mode, size |-> PoolSize(config, mode, flags), options |-> options,
                required |-> ContructSearchPath(options, users), users |-> users]
  /\ pool' = [pool EXCEPT ![pid] = [at |-> "free", path |-> userPath, old |-> FALSE]]
  /\ known' = [known EXCEPT ![pid] = [found |-> TRUE, path |-> Unset]]
  /\ IF local THEN refreshed' = [by |-> "command", config |-> config] /\ dropped' = FALSE
     ELSE UNCHANGED <<refreshed, dropped>>

StartSearching(mode, local, flags, pid) ==
  /\ client.mode = "none"
  /\ config.blocks = "ok"
  /\ RefreshConnectionAndSearchPaths(mode, local, flags, pid)
  /\ UNCHANGED <<configVars, daemon, search, searches, strayed, piled>>

-----------------------------------------------------------------------------
(* Sessions                                                                *)

\* A prompt has one goroutine for its lines and one that loads the schema.
MayStart(g, for) ==
  CASE client.mode = "query" -> IF g = 1 THEN for \in {"query", "prefix"} ELSE for = "schema"
    [] client.mode = "none"  -> FALSE
    [] OTHER                 -> for = "query"

\* Mutant: a session that has been set once is not set again.
MutNeedsSearchPath(pid) == known[pid].path = Unset
NeedsSearchPath(pid) == known[pid].path # client.required

CurrentPool == {p \in Pids : pool[p].at # "closed" /\ ~pool[p].old}
Free == {p \in CurrentPool : pool[p].at = "free"}

(* A free connection is used before another one is opened; a new backend   *)
(* may get the process id of one that has gone, and its session.           *)
Acquire(g, for, own, pid) ==
  /\ search[g].at = "idle"
  /\ searches < MaxSearches /\ searches' = searches + 1
  /\ MayStart(g, for)
  /\ IF Free # {} THEN pid \in Free
     ELSE Cardinality(CurrentPool) < client.size /\ pool[pid].at = "closed"
  /\ LET path == IF pid \in Free THEN pool[pid].path ELSE userPath IN
     \/ /\ NeedsSearchPath(pid)
        /\ pool' = [pool EXCEPT ![pid] = [at |-> "busy", path |-> client.required, old |-> FALSE]]
        /\ search' = [search EXCEPT ![g] = Session("setting", for, pid, own)]
        /\ known' = known
        /\ strayed' = strayed \ {pid}
     \/ /\ NeedsSearchPath(pid)   \* it cannot be set: the connection is given back
        /\ pool' = [pool EXCEPT ![pid] = [at |-> "free", path |-> path, old |-> FALSE]]
        /\ strayed' = IF pid \notin Free /\ known[pid].found THEN strayed \cup {pid} ELSE strayed
        /\ UNCHANGED <<search, known>>
     \/ /\ ~NeedsSearchPath(pid)
        /\ pool' = [pool EXCEPT ![pid] = [at |-> "busy", path |-> path, old |-> FALSE]]
        /\ search' = [search EXCEPT ![g] = Session("acquired", for, pid, own)]
        /\ known' = [known EXCEPT ![pid].found = TRUE]
        /\ strayed' = IF pid \notin Free THEN strayed \cup {pid} ELSE strayed
  /\ UNCHANGED <<configVars, usersVars, client, piled>>

\* What the client requires now is noted, not what the session was set to.
PathIsSet(g) ==
  LET pid == search[g].pid IN
  /\ search[g].at = "setting"
  /\ search' = [search EXCEPT ![g].at = "acquired"]
  /\ known' = [known EXCEPT ![pid] = [found |-> TRUE, path |-> client.required]]
  /\ strayed' = IF pool[pid].path # client.required THEN strayed \cup {pid} ELSE strayed
  /\ UNCHANGED <<configVars, usersVars, client, pool, searches, piled>>

SetOwnPath(g) ==
  LET pid == search[g].pid IN
  /\ search[g].at = "acquired" /\ search[g].own # NoOptions
  /\ pool' = [pool EXCEPT ![pid].path = ContructSearchPath(search[g].own, @)]
  /\ search' = [search EXCEPT ![g].at = "ready"]
  /\ UNCHANGED <<configVars, usersVars, client, known, searches, strayed, piled>>

Ready(g) == search[g].at = "ready" \/ (search[g].at = "acquired" /\ search[g].own = NoOptions)

\* A session is given back, or its connection is closed by a cancellation.
GiveBack(g) ==
  LET pid == search[g].pid IN
  /\ search' = [search EXCEPT ![g] = NoSearch]
  /\ \E at \in {"free", "closed"} :
       pool' = [pool EXCEPT ![pid] = IF at = "closed" \/ @.old THEN NoBackend ELSE [@ EXCEPT !.at = "free"]]
  /\ strayed' = IF pool'[pid] = NoBackend THEN strayed \ {pid}
                ELSE IF search[g].own # NoOptions THEN strayed \cup {pid} ELSE strayed

RunSearch(g) ==
  /\ search[g].for # "prefix" /\ Ready(g)
  /\ GiveBack(g)
  /\ UNCHANGED <<configVars, usersVars, client, known, searches, piled>>

\* The path of a control cannot be set: the session is given back as it is.
OwnPathFails(g) ==
  /\ search[g].at = "acquired" /\ search[g].own # NoOptions
  /\ search' = [search EXCEPT ![g] = NoSearch]
  /\ pool' = [pool EXCEPT ![search[g].pid] = IF @.old THEN NoBackend ELSE [@ EXCEPT !.at = "free"]]
  /\ strayed' = IF pool[search[g].pid].old THEN strayed \ {search[g].pid} ELSE strayed
  /\ UNCHANGED <<configVars, usersVars, client, known, searches, piled>>

(* The workspace has changed, or a query has timed out: all connections    *)
(* are closed, those in use when they are given back. The map of sessions  *)
(* is kept. It waits for the sessions that are being acquired.             *)
RefreshDbClient ==
  /\ client.mode # "none"
  /\ \A g \in Goroutines : search[g].at # "setting"
  /\ pool' = [p \in Pids |-> IF pool[p].at = "busy" THEN [pool[p] EXCEPT !.old = TRUE] ELSE NoBackend]
  /\ strayed' = {p \in strayed : pool[p].at = "busy"}
  /\ UNCHANGED <<configVars, usersVars, client, known, search, searches, piled>>

-----------------------------------------------------------------------------
(* Lines of the prompt                                                     *)

AtPrompt == client.mode = "query" /\ search[1].at = "idle"

SetSearchPath(path) ==
  LET options == [client.options EXCEPT !.path = path] IN
  /\ AtPrompt
  /\ client' = [client EXCEPT !.options = options, !.required = ContructSearchPath(options, Unset)]
  /\ piled' = FALSE
  /\ UNCHANGED <<configVars, usersVars, pool, known, search, searches, strayed>>

\* With a path that is set the prefix is put in front of that.
SetSearchPathPrefix(prefix) ==
  LET options == [client.options EXCEPT !.prefix = prefix] IN
  /\ AtPrompt /\ client.options.path # Unset
  /\ client' = [client EXCEPT !.options = options, !.required = ContructSearchPath(options, Unset)]
  /\ UNCHANGED <<configVars, usersVars, pool, known, search, searches, strayed, piled>>

\* Otherwise of the path that a session of the client has.
PrefixToCurrentPath(prefix) ==
  LET options == [client.options EXCEPT !.prefix = prefix] IN
  /\ search[1].for = "prefix" /\ Ready(1)
  /\ client' = [client EXCEPT !.options = options,
                              !.required = ContructSearchPath(options, pool[search[1].pid].path)]
  /\ piled' = (piled \/ client.options.prefix # Unset \/ search[1].pid \in strayed)
  /\ GiveBack(1)
  /\ UNCHANGED <<configVars, usersVars, known, searches>>

SearchNext ==
  \/ EditConfig \/ WatcherRefreshes \/ RefreshDbClient
  \/ \E mode \in {"query", "check", "dashboard"}, local \in BOOLEAN, flags \in Flags :
       StartSearching(mode, local, flags, CHOOSE pid \in Pids : TRUE)
  \/ \E g \in Goroutines :
       \/ \E for \in {"query", "schema"}, own \in OwnPaths, pid \in Pids :
            (client.mode # "query" \/ own = NoOptions) /\ Acquire(g, for, own, pid)
       \/ client.options.path = Unset /\ \E pid \in Pids : Acquire(g, "prefix", NoOptions, pid)
       \/ PathIsSet(g) \/ SetOwnPath(g) \/ OwnPathFails(g) \/ RunSearch(g)
  \/ \E path \in LinePaths : SetSearchPath(path) \/ SetSearchPathPrefix(path) \/ PrefixToCurrentPath(path)

SearchSpec == SearchInit /\ [][SearchNext]_searchVars
-----------------------------------------------------------------------------
(* Properties                                                              *)

SearchTypeOK ==
  /\ config \in Configs /\ configEdits \in 0..MaxConfigEdits
  /\ daemon \in Paths
  /\ client.mode \in {"none", "query", "check", "dashboard"} /\ client.options \in PathOptions
  /\ client.size \in Nat
  /\ \A p \in Pids : pool[p].at \in {"closed", "free", "busy"} /\ pool[p].old \in BOOLEAN
  /\ \A g \in Goroutines : search[g].at \in {"idle", "setting", "acquired", "ready"}
  /\ searches \in 0..MaxSearches /\ strayed \subseteq Pids /\ {dropped, piled} \subseteq BOOLEAN

(* Whether a name that is in schemas s and t is found in s. *)
Ahead(path, s, t) == \E i \in DOMAIN path : path[i] = s /\ \A j \in 1..i : path[j] # t

\* Two paths in which every name is found in the same schema.
SearchedAlike(p, q) ==
  /\ Range(p) = Range(q)
  /\ \A s, t \in Schemas : Ahead(p, s, t) <=> Ahead(q, s, t)

(* What the settings ask of a query, said without the client: a path that  *)
(* is set, or else that of the users, behind the prefix; a control puts    *)
(* its own over that.                                                      *)
Asked(options, otherwise) ==
  options.prefix \o IF options.path # Unset THEN options.path \o <<"internal">> ELSE otherwise

(* PathsFollowSettings: a query is searched as in the path the options,    *)
(* the flags, the lines and the control ask for, in this order, whatever   *)
(* sessions were used, set, closed and replaced before; and the path of    *)
(* the users is that of the config the last refresh had loaded. It is not  *)
(* so after the four things the histories name: a control that set a path  *)
(* of its own had the session before, a session got the process id of      *)
(* another, or the required path changed while a session was being set; a  *)
(* second prefix was put in front of the first; and an option that is      *)
(* removed stays in force in the plugin manager.                           *)
PathsFollowSettings ==
  /\ \A g \in Goroutines :
       Ready(g) /\ search[g].for = "query" /\ search[g].pid \notin strayed /\ ~piled =>
         SearchedAlike(pool[search[g].pid].path,
                       Asked(search[g].own, Asked(client.options, client.users)))
  /\ refreshed.by # "nobody" /\ ~dropped =>
       userPath = Asked([NoOptions EXCEPT !.path = refreshed.config.database],
                        DefaultSearchPath(refreshed.config.connections))
=============================================================================
