--------------------------- MODULE PreparedStatements ---------------------------
(***************************************************************************)
(* From the name of a resource to the SQL that runs (workspace, modconfig, *)
(* db_common, db_client).  A resource whose SQL has parameters is executed *)
(* as a prepared statement.  Statements live in the sessions of the        *)
(* database: each is prepared when its session is first acquired, from the *)
(* resources that are loaded then.  The watcher of a running command       *)
(* reloads the workspace and, when the resources have changed, replaces    *)
(* all sessions - while queries are resolved and executed.                 *)
(*                                                                         *)
(* There is one resource of each kind that differs here; a table stands    *)
(* for cards, charts, hierarchies and inputs.  Of a text this keeps its    *)
(* SQL, an element of DOMAIN Placeholders, the way it names a query        *)
(* instead, its parameters and the arguments it gives itself.              *)
(***************************************************************************)
EXTENDS Naturals, FiniteSets

CONSTANTS
  Texts,         \* the texts each resource may have
  Placeholders,  \* how many placeholders an SQL text has
  Runners,       \* the goroutines of a dashboard that execute queries
  Backends,      \* process ids of the database's backends
  MaxQueries,    \* bound: queries that are started
  MaxTextEdits   \* bound: changes of the files

Resources == {"query", "control", "table", "image"}
NoArgs == [nil |-> TRUE, list |-> 0, names |-> {}]

ASSUME StatementsAssumption ==
  /\ IsFiniteSet(Runners) /\ IsFiniteSet(Backends)
  /\ \A s \in DOMAIN Placeholders : Placeholders[s] \in Nat
  /\ DOMAIN Texts = Resources
  /\ \A r \in Resources : \A t \in Texts[r] :
       /\ t.via \in {"own", "query", "name"} /\ t.sql \in DOMAIN Placeholders \cup {"none"}
       \* what decodeQueryProvider refuses
       /\ t.via # "own" <=> t.sql = "none"
       /\ t.via = "query" => t.params = 0
       /\ r \in {"query", "control"} => t.args.nil = (r = "query")
       /\ r = "query" => t.via = "own"
       \* arguments are given by position or by name
       /\ t.params \in Nat /\ t.defaults \in BOOLEAN
       /\ t.args \in [nil : BOOLEAN, list : Nat, names : SUBSET (Nat \ {0})]
       /\ t.args.list = 0 \/ t.args.names = {}
       /\ t.args.nil => t.args = NoArgs

VARIABLES
  mode,          \* a query command with a query or with a prompt, or a dashboard
  source,        \* the resources that are prepared in a session
  onDisk,        \* the texts in the files of the workspace
  trouble,       \* the files do not load: "early", or "late" when the new resources are in place
  textEdits,
  event,         \* files have changed since they were last loaded
  loaded,        \* the workspace's resource maps
  watcherError,
  watcher,       \* the goroutine of the watcher
  backend,       \* the connections of the client
  sessions,      \* the sessions that are initialised, by the process id of their backend
  run,           \* what the runners execute
  queries,
  unseen,        \* history: only the parameters of the table have changed since the sessions were replaced
  lateFailure,   \* history: a load has failed since then, after it had replaced the resources
  reused         \* history: a process id of a session that is gone was given out again

statementVars == <<mode, source, onDisk, trouble, textEdits, event, loaded, watcherError, watcher,
                   backend, sessions, run, queries, unseen, lateFailure, reused>>
textVars == <<onDisk, trouble, textEdits>>

Nothing == [r \in Resources |-> "none"]
Closed == [at |-> "closed", old |-> FALSE, prepared |-> Nothing]
NoStatement == [at |-> "none", of |-> "query", sql |-> "none", values |-> 0]
NoRun == [at |-> "idle", res |-> "query", statement |-> NoStatement, backend |-> 0,
          disturbed |-> FALSE, stale |-> FALSE, ran |-> "", want |-> ""]

\* The prompt has one connection, a dashboard one for each of its runners.
Used == IF mode = "dashboard" THEN Runners ELSE {CHOOSE i \in Runners : TRUE}

StatementsInit ==
  /\ mode \in {"batch", "prompt", "dashboard"}
  /\ source = Resources
  /\ onDisk \in {f \in [Resources -> UNION {Texts[r] : r \in Resources}] : \A r \in Resources : f[r] \in Texts[r]}
  /\ trouble = "none" /\ textEdits = 0 /\ event = FALSE
  /\ loaded = onDisk /\ watcherError = FALSE /\ watcher = "idle"
  /\ backend = [p \in Backends |-> Closed] /\ sessions = {}
  /\ run = [i \in Runners |-> NoRun] /\ queries = 0
  /\ unseen = FALSE /\ lateFailure = FALSE /\ reused = FALSE

-----------------------------------------------------------------------------
(* Resolving a name.                                                       *)
Empty(a) == a.list = 0 /\ a.names = {}
Failure(kind) == [NoStatement EXCEPT !.at = kind]
Plain(r) == [NoStatement EXCEPT !.at = "plain", !.of = r, !.sql = loaded[r].sql]

\* Parameters are numbered: names are the numbers of those given by name.
ResolveAsString(r, a) ==
  LET t == loaded[r]
      complete == IF a.names # {} THEN /\ a.names \subseteq 1..t.params
                                       /\ t.defaults \/ a.names = 1..t.params
                  ELSE t.defaults \/ a.list >= t.params IN
  IF a.nil THEN Failure("panic")
  ELSE IF ~complete THEN Failure("error")
  ELSE [at |-> "execute", of |-> r, sql |-> "none", values |-> t.params]

ResolveNamedQuery(a) ==
  IF loaded["query"].params = 0 THEN Plain("query") ELSE ResolveAsString("query", a)

ResolveProvider(r, a) ==
  LET t == loaded[r]
      args == IF Empty(a) THEN t.args ELSE a IN
  CASE t.via = "query" -> IF Empty(a) THEN ResolveNamedQuery(args) ELSE Failure("error")
    [] t.via = "name"  -> IF t.params = 0 THEN ResolveNamedQuery(args) ELSE Failure("error")
    [] OTHER           -> IF t.params = 0 THEN Plain(r) ELSE ResolveAsString(r, args)

ResolveName(r, a) == IF r = "query" THEN ResolveNamedQuery(a) ELSE ResolveProvider(r, a)

(* What a reader of the files expects: the SQL of the resource or of the   *)
(* query it names, if that has the parameters it uses and the arguments do *)
(* for them.                                                               *)
Expected(r, a) ==
  LET t == loaded[IF loaded[r].via = "own" THEN r ELSE "query"]
      args == IF Empty(a) THEN loaded[r].args ELSE a IN
  IF /\ Placeholders[t.sql] = t.params
     /\ loaded[r].via = "query" => Empty(a)
     /\ loaded[r].via = "name" => loaded[r].params = 0
     /\ t.params = 0 \/ args.names \subseteq 1..t.params
     /\ t.defaults \/ args.list >= t.params \/ args.names = 1..t.params
  THEN t.sql ELSE "failed"

\* The arguments that a line may give; a node of a dashboard is given none.
Given == {[nil |-> FALSE, list |-> n, names |-> {}] : n \in 0..1}
         \cup {[nil |-> FALSE, list |-> 0, names |-> {n}] : n \in 1..2}

Start(i, r, statement, want) ==
  /\ run[i].at \in {"idle", "done"}
  /\ queries < MaxQueries /\ queries' = queries + 1
  /\ run' = [run EXCEPT ![i] = [NoRun EXCEPT
       !.at = IF statement.at \in {"panic", "error"} THEN "done" ELSE "resolved",
       !.res = r, !.statement = statement, !.want = want, !.disturbed = watcher # "idle",
       \* history: the sessions may not have what is loaded
       !.stale = lateFailure \/ (statement.of = "table" /\ unseen),
       !.ran = IF statement.at = "panic" THEN "panic" ELSE "failed"]]
  /\ UNCHANGED <<mode, textVars, event, loaded, watcherError, watcher, backend, sessions,
                 unseen, lateFailure, reused>>

\* A query given on the command line is the only one, and the only one prepared.
ResolveLine(i) ==
  /\ mode \in {"batch", "prompt"} /\ i \in Used
  /\ mode = "batch" => queries = 0
  /\ \E r \in {"query", "control"}, a \in Given :
       /\ Start(i, r, ResolveName(r, a), Expected(r, a))
       /\ source' = IF mode = "batch" THEN {r} ELSE source

ResolveNode(i) ==
  /\ mode = "dashboard"
  /\ \E r \in Resources \ {"query"} : Start(i, r, ResolveProvider(r, NoArgs), Expected(r, NoArgs))
  /\ UNCHANGED source

-----------------------------------------------------------------------------
(* Sessions.                                                               *)
Prepared == [r \in Resources |->
  IF r \in source \ {"image"} /\ loaded[r].params > 0 THEN loaded[r].sql ELSE "none"]

\* The process ids that no session has had are interchangeable: the first is given out.
NewOrReused(p) == p \in sessions \/ \A q \in Backends \ sessions : backend[q].at = "closed" => p <= q

InPool(p) == backend[p].at # "closed" /\ ~backend[p].old
CanConnect(p) ==
  \/ InPool(p) /\ backend[p].at = "idle"
  \/ /\ backend[p].at = "closed" /\ NewOrReused(p)
     /\ \A q \in Backends : InPool(q) => backend[q].at # "idle"
     /\ Cardinality({q \in Backends : InPool(q)}) < Cardinality(Used)

\* While the client is replaced there is no pool to take a connection from: it is retried.
AcquireConnection(i, p) ==
  /\ run[i].at = "resolved" /\ watcher # "open"
  /\ CanConnect(p)
  /\ backend' = [backend EXCEPT ![p].at = "busy"]
  /\ run' = [run EXCEPT ![i].at = IF p \in sessions THEN "ready" ELSE "prepare", ![i].backend = p]
  /\ reused' = (reused \/ (backend[p].at = "closed" /\ p \in sessions))
  /\ UNCHANGED <<mode, source, textVars, event, loaded, watcherError, watcher, sessions, queries,
                 unseen, lateFailure>>

EnsureSessionData(i) ==
  LET p == run[i].backend IN
  /\ run[i].at = "prepare"
  /\ backend' = [backend EXCEPT ![p].prepared = Prepared]
  /\ sessions' = sessions \cup {p}
  /\ run' = [run EXCEPT ![i].at = "ready"]
  /\ UNCHANGED <<mode, source, textVars, event, loaded, watcherError, watcher, queries,
                 unseen, lateFailure, reused>>

\* The database executes the statement; the connection goes back to its pool.
ExecuteStatement(i) ==
  LET p == run[i].backend
      s == run[i].statement
      sql == IF s.at = "plain" THEN s.sql ELSE backend[p].prepared[s.of] IN
  /\ run[i].at = "ready"
  /\ run' = [run EXCEPT ![i].at = "done",
       ![i].ran = IF sql # "none" /\ Placeholders[sql] = s.values THEN sql ELSE "failed"]
  /\ backend' = [backend EXCEPT ![p] = IF @.old THEN Closed ELSE [@ EXCEPT !.at = "idle"]]
  /\ UNCHANGED <<mode, source, textVars, event, loaded, watcherError, watcher, sessions, queries,
                 unseen, lateFailure, reused>>

-----------------------------------------------------------------------------
(* The watcher.                                                            *)
EditText ==
  /\ mode # "batch" /\ textEdits < MaxTextEdits
  /\ textEdits' = textEdits + 1 /\ event' = TRUE
  /\ \/ \E r \in Resources : \E t \in Texts[r] \ {onDisk[r]} : onDisk' = [onDisk EXCEPT ![r] = t]
        /\ UNCHANGED trouble
     \/ trouble' \in {"none", "early", "late"} \ {trouble} /\ UNCHANGED onDisk
  /\ UNCHANGED <<mode, source, loaded, watcherError, watcher, backend, sessions, run, queries,
                 unseen, lateFailure, reused>>

\* Only references of queries and controls are in the maps.
HasReferences(m) == m["control"].via = "query"

(* WorkspaceResourceMaps.Equals.  After a failed load the old maps are     *)
(* made from the mod, without references.  Of dashboard nodes the          *)
(* difference is taken that is of interest to the browser: not parameters  *)
(* and arguments.                                                          *)
SameQuery(old, new) == old["query"] = new["query"]
SameControl(old, new) == old["control"] = new["control"]
SameNode(r, old, new) == old[r].sql = new[r].sql /\ old[r].via = new[r].via

\* Mutant: queries are not compared.
MutSameMaps(old, new) ==
  /\ watcherError => ~HasReferences(new)
  /\ SameControl(old, new)
  /\ \A r \in {"table", "image"} : SameNode(r, old, new)

SameMaps(old, new) ==
  /\ watcherError => ~HasReferences(new)
  /\ SameQuery(old, new) /\ SameControl(old, new)
  /\ \A r \in {"table", "image"} : SameNode(r, old, new)

\* The maps are filled before the last checks of a load.
Populated == IF trouble = "early" THEN loaded ELSE onDisk

Reload ==
  /\ event /\ watcher = "idle"
  /\ event' = FALSE
  /\ watcherError' = (trouble # "none")
  /\ loaded' = Populated
  /\ lateFailure' = (lateFailure \/ trouble = "late")
  /\ unseen' = (unseen \/ (/\ loaded'["table"].sql = loaded["table"].sql
                          /\ loaded'["table"].params # loaded["table"].params))
  /\ watcher' = IF trouble # "none" \/ SameMaps(loaded, onDisk) THEN "idle" ELSE "refresh"
  /\ run' = [i \in Runners |-> [run[i] EXCEPT !.disturbed = @ \/ (run[i].at # "done" /\ loaded' # loaded)]]
  /\ UNCHANGED <<mode, source, textVars, backend, sessions, queries, reused>>

\* Sessions that are being initialised are waited for; busy ones close when they are released.
CloseClients ==
  /\ watcher = "refresh"
  /\ \A i \in Runners : run[i].at # "prepare"
  /\ watcher' = "open"
  /\ backend' = [p \in Backends |-> IF backend[p].at = "busy" THEN [backend[p] EXCEPT !.old = TRUE] ELSE Closed]
  /\ UNCHANGED <<mode, source, textVars, event, loaded, watcherError, sessions, run, queries,
                 unseen, lateFailure, reused>>

OpenClient ==
  /\ watcher = "open" /\ watcher' = "acquire"
  /\ unseen' = FALSE /\ lateFailure' = FALSE
  /\ UNCHANGED <<mode, source, textVars, event, loaded, watcherError, backend, sessions, run, queries, reused>>

\* RefreshSessions makes sure of one session.
AcquireRefreshed(p) ==
  /\ watcher = "acquire" /\ CanConnect(p)
  /\ watcher' = "idle"
  /\ backend' = [backend EXCEPT ![p].at = "idle",
                                ![p].prepared = IF p \in sessions THEN @ ELSE Prepared]
  /\ sessions' = sessions \cup {p}
  /\ reused' = (reused \/ (backend[p].at = "closed" /\ p \in sessions))
  /\ UNCHANGED <<mode, source, textVars, event, loaded, watcherError, run, queries, unseen, lateFailure>>

StatementsNext ==
  \/ \E i \in Runners : ResolveLine(i) \/ ResolveNode(i) \/ EnsureSessionData(i) \/ ExecuteStatement(i)
  \/ \E i \in Runners, p \in Backends : AcquireConnection(i, p)
  \/ EditText \/ Reload \/ CloseClients \/ OpenClient
  \/ \E p \in Backends : AcquireRefreshed(p)

StatementsSpec == StatementsInit /\ [][StatementsNext]_statementVars
-----------------------------------------------------------------------------
StatementsTypeOK ==
  /\ source \subseteq Resources /\ sessions \subseteq Backends
  /\ \A r \in Resources : {onDisk[r], loaded[r]} \subseteq Texts[r]
  /\ \A p \in Backends : backend[p].prepared \in [Resources -> DOMAIN Placeholders \cup {"none"}]
  /\ \A i \in Runners : run[i].at \in {"prepare", "ready"} => backend[run[i].backend].at = "busy"
  /\ Cardinality({p \in Backends : InPool(p)}) <= Cardinality(Used)

(* What is known to go wrong: statements of images are never prepared; a   *)
(* node that has no arguments panics; a control named on the command line  *)
(* does not have its query prepared; a table whose parameters alone have   *)
(* changed does not cause a refresh, and neither may the load after a late *)
(* failure; a backend may have the process id of an earlier one.           *)
Excused(i) ==
  LET s == run[i].statement IN
  \/ s.at = "execute" /\ s.of = "image"
  \/ run[i].ran = "panic" /\ run[i].res \in {"table", "image"}
  \/ mode = "batch" /\ run[i].res = "control" /\ s.at = "execute" /\ s.of = "query"
  \/ run[i].stale \/ reused

(* RunsItsText: a query that was resolved when no reload was going on, and *)
(* executed before the next, runs the SQL that the loaded workspace has    *)
(* for it, with as many values as it has placeholders; an invocation that  *)
(* does not fit the parameters fails. Sessions of any age included, but    *)
(* for what is Excused.                                                    *)
RunsItsText ==
  \A i \in Runners : run[i].at = "done" /\ ~run[i].disturbed /\ ~Excused(i) => run[i].ran = run[i].want
=============================================================================
