----------------------------- MODULE PluginManager -----------------------------
(***************************************************************************)
(* The plugin manager (pluginmanager/plugin_manager.go): a daemon which    *)
(* keeps one plugin process per connection and hands out the address of    *)
(* that process (its "reattach config") to every Steampipe process that    *)
(* asks for it.                                                            *)
(*                                                                         *)
(* A Get request runs one goroutine per requested connection; all of them  *)
(* share the Plugins map, whose entries are pointers to runningPlugin      *)
(* objects.  A goroutine creates at most one such object and starts at     *)
(* most one plugin process, so the object and the process are named by the *)
(* call that creates them.  The mutex m.mut covers whole critical sections *)
(* and each of those is one action; only Shutdown holds it across steps.   *)
(***************************************************************************)
EXTENDS Naturals, FiniteSets

CONSTANTS
  Connections,    \* names of connections
  Requests,       \* Get requests
  Calls,          \* getPlugin calls (goroutines): one per connection of a request
  Req,            \* Req[g]: the request that call g belongs to
  Conn,           \* Conn[g]: the connection that call g asks for
  ConfigMaps,     \* the connection sets the connection watcher may install
  Nil             \* the nil pointer

ASSUME CallsAssumption ==
  /\ Req \in [Calls -> Requests]
  /\ Conn \in [Calls -> Connections]
  /\ ConfigMaps \subseteq SUBSET Connections
  /\ Nil \notin Calls

VARIABLES
  manager,          \* the plugin manager process
  Plugins,          \* connection -> the runningPlugin object in the map, or Nil
  reattach,         \* object -> the process in its client and reattach fields
  initialized,      \* object -> its initialized channel is closed
  connectionConfig, \* the connections there is a config for
  mut,              \* m.mut, when it is held from one step to the next
  killing,          \* the connections Shutdown has still to visit
  shutdown,         \* what the last Shutdown returned
  pc,               \* where each call is
  p,                \* the call's p: the object it waits for (Nil once it is of no use)
  found,            \* the call's reattach: the process it is about to return
  proc,             \* the plugin process started by the call
  resultLock,       \* request -> its resultLock is held
  errors,           \* the requests that have recorded an error
  response          \* request -> what Get has returned

callVars == <<pc, p, found>>
mapVars == <<Plugins, reattach, initialized>>
lockVars == <<mut, killing, shutdown>>
resultVars == <<resultLock, errors, response>>
vars == <<manager, mapVars, connectionConfig, lockVars, callVars, proc, resultVars>>

PCs == {"idle", "lookup", "wait", "checkPid", "remove", "start", "store",
        "gotPlugin", "gotError", "unlockTwice", "unlock", "done"}

CallsOf(r) == {g \in Calls : Req[g] = r}

-----------------------------------------------------------------------------

Init ==
  /\ manager = "running"
  /\ Plugins = [c \in Connections |-> Nil]
  /\ reattach = [e \in Calls |-> Nil]
  /\ initialized = [e \in Calls |-> FALSE]
  /\ connectionConfig \in ConfigMaps
  /\ mut = "free"
  /\ killing = {}
  /\ shutdown = "none"
  /\ pc = [g \in Calls |-> "idle"]
  /\ p = [g \in Calls |-> Nil]
  /\ found = [g \in Calls |-> Nil]
  /\ proc = [g \in Calls |-> "none"]
  /\ resultLock = [r \in Requests |-> FALSE]
  /\ errors = {}
  /\ response = [r \in Requests |-> "none"]

Goto(g, from, to) ==
  /\ manager = "running"
  /\ pc[g] = from
  /\ pc' = [pc EXCEPT ![g] = to]


-----------------------------------------------------------------------------
(* Mutants: what plausible slips in the code below would do.  No action of *)
(* the specification uses them; each breaks the property it is paired with.*)

\* LookupMiss that puts in no placeholder.
MutLookupMiss(g) ==
  /\ mut = "free"
  /\ Plugins[Conn[g]] = Nil
  /\ Goto(g, "lookup", "start")
  /\ UNCHANGED <<manager, mapVars, connectionConfig, lockVars, p, found, proc, resultVars>>

\* Loaded that does not wait for the initialized channel.
MutLoaded(g) ==
  /\ Goto(g, "wait", "checkPid")
  /\ found' = [found EXCEPT ![g] = reattach[p[g]]]
  /\ p' = [p EXCEPT ![g] = Nil]
  /\ UNCHANGED <<manager, mapVars, connectionConfig, lockVars, proc, resultVars>>

\* LoadTimeout that deletes the entry it gave up on.
MutLoadTimeout(g) ==
  /\ mut = "free"
  /\ Goto(g, "wait", "gotError")
  /\ p' = [p EXCEPT ![g] = Nil]
  /\ Plugins' = [Plugins EXCEPT ![Conn[g]] = Nil]
  /\ UNCHANGED <<manager, reattach, initialized, connectionConfig, lockVars, found, proc,
                 resultVars>>

\* PidGone with its test inverted.
MutPidGone(g) ==
  /\ Goto(g, "checkPid", "remove")
  /\ proc[found[g]] = "alive"
  /\ UNCHANGED <<manager, mapVars, connectionConfig, lockVars, p, found, proc, resultVars>>

\* Shutdown that passes over the entries that are still loading.
MutShutdownSkips(c) ==
  /\ manager = "running"
  /\ mut = "shutdown"
  /\ c \in killing
  /\ reattach[Plugins[c]] = Nil
  /\ killing' = killing \ {c}
  /\ UNCHANGED <<manager, mapVars, connectionConfig, mut, shutdown, callVars, proc, resultVars>>

\* Shutdown whose deferred function does not unlock when there was a panic.
MutShutdownKeepsLock(c) ==
  /\ manager = "running"
  /\ mut = "shutdown"
  /\ c \in killing
  /\ reattach[Plugins[c]] = Nil
  /\ mut' = "leaked"
  /\ killing' = {}
  /\ shutdown' = "error"
  /\ UNCHANGED <<manager, mapVars, connectionConfig, callVars, proc, resultVars>>

\* Shutdown that unlocks and goes on killing.
MutShutdownUnlocksEarly(c) ==
  /\ manager = "running"
  /\ mut = "shutdown"
  /\ c \in killing
  /\ reattach[Plugins[c]] = Nil
  /\ mut' = "free"
  /\ killing' = killing \ {c}
  /\ shutdown' = "error"
  /\ UNCHANGED <<manager, mapVars, connectionConfig, callVars, proc, resultVars>>

-----------------------------------------------------------------------------
(* A Get request arrives and starts its goroutines. *)
Receive(r) ==
  /\ manager = "running"
  /\ response[r] = "none"
  /\ \A g \in CallsOf(r) : pc[g] = "idle"
  /\ pc' = [g \in Calls |-> IF Req[g] = r THEN "lookup" ELSE pc[g]]
  /\ UNCHANGED <<manager, mapVars, connectionConfig, lockVars, p, found, proc, resultVars>>

(* The map has an object for the connection: wait for it to be loaded. *)
LookupHit(g) ==
  /\ mut = "free"
  /\ Plugins[Conn[g]] # Nil
  /\ Goto(g, "lookup", "wait")
  /\ p' = [p EXCEPT ![g] = Plugins[Conn[g]]]
  /\ UNCHANGED <<manager, mapVars, connectionConfig, lockVars, found, proc, resultVars>>

(* The map has none: put in a placeholder and start the plugin. *)
LookupMiss(g) ==
  /\ mut = "free"
  /\ Plugins[Conn[g]] = Nil
  /\ Goto(g, "lookup", "start")
  /\ Plugins' = [Plugins EXCEPT ![Conn[g]] = g]
  /\ UNCHANGED <<manager, reattach, initialized, connectionConfig, lockVars, p, found,
                 proc, resultVars>>

(* waitForPluginLoad: the initialized channel is closed. *)
Loaded(g) ==
  /\ Goto(g, "wait", "checkPid")
  /\ initialized[p[g]]
  /\ found' = [found EXCEPT ![g] = reattach[p[g]]]
  /\ p' = [p EXCEPT ![g] = Nil]
  /\ UNCHANGED <<manager, mapVars, connectionConfig, lockVars, proc, resultVars>>

(* waitForPluginLoad: five seconds have passed. *)
LoadTimeout(g) ==
  /\ Goto(g, "wait", "gotError")
  /\ p' = [p EXCEPT ![g] = Nil]
  /\ UNCHANGED <<manager, mapVars, connectionConfig, lockVars, found, proc, resultVars>>

(* The plugin's process exists: return its reattach config. *)
PidExists(g) ==
  /\ Goto(g, "checkPid", "gotPlugin")
  /\ proc[found[g]] = "alive"
  /\ UNCHANGED <<manager, mapVars, connectionConfig, lockVars, p, found, proc, resultVars>>

PidGone(g) ==
  /\ Goto(g, "checkPid", "remove")
  /\ proc[found[g]] # "alive"
  /\ UNCHANGED <<manager, mapVars, connectionConfig, lockVars, p, found, proc, resultVars>>

(* Delete whatever the map holds for the connection, and fall through to   *)
(* the start of a new process: no placeholder is put in on this path.      *)
Remove(g) ==
  /\ mut = "free"
  /\ Goto(g, "remove", "start")
  /\ Plugins' = [Plugins EXCEPT ![Conn[g]] = Nil]
  /\ UNCHANGED <<manager, reattach, initialized, connectionConfig, lockVars, p, found,
                 proc, resultVars>>

(* startPlugin reads the connection config without the mutex. *)
StartPlugin(g) ==
  /\ Conn[g] \in connectionConfig
  /\ Goto(g, "start", "store")
  /\ proc' = [proc EXCEPT ![g] = "alive"]
  /\ UNCHANGED <<manager, mapVars, connectionConfig, lockVars, p, found, resultVars>>

(* No config, no plugin binary, or the process did not start. *)
StartFails(g) ==
  /\ Goto(g, "start", "gotError")
  /\ UNCHANGED <<manager, mapVars, connectionConfig, lockVars, p, found, proc, resultVars>>

(* storeClientToMap: fill in the object the map now holds and close its    *)
(* channel.                                                                *)
Store(g) ==
  LET e == Plugins[Conn[g]] IN
  /\ mut = "free"
  /\ e # Nil
  /\ ~initialized[e]
  /\ Goto(g, "store", "gotPlugin")
  /\ reattach' = [reattach EXCEPT ![e] = g]
  /\ initialized' = [initialized EXCEPT ![e] = TRUE]
  /\ found' = [found EXCEPT ![g] = g]
  /\ UNCHANGED <<manager, Plugins, connectionConfig, lockVars, p, proc, resultVars>>

(* storeClientToMap when another call has stored first: the object is      *)
(* overwritten and closing the closed channel panics.                      *)
StoreTwice(g) ==
  LET e == Plugins[Conn[g]] IN
  /\ mut = "free"
  /\ e # Nil
  /\ initialized[e]
  /\ Goto(g, "store", "gotError")
  /\ reattach' = [reattach EXCEPT ![e] = g]
  /\ UNCHANGED <<manager, Plugins, initialized, connectionConfig, lockVars, p, found,
                 proc, resultVars>>

(* storeClientToMap when the map has no object: a nil dereference, which   *)
(* getPlugin recovers from.                                                *)
StoreNowhere(g) ==
  /\ mut = "free"
  /\ Plugins[Conn[g]] = Nil
  /\ Goto(g, "store", "gotError")
  /\ UNCHANGED <<manager, mapVars, connectionConfig, lockVars, p, found, proc, resultVars>>

-----------------------------------------------------------------------------
(* Get's goroutine collects the result of getPlugin under resultLock.      *)

CollectPlugin(g) ==
  /\ ~resultLock[Req[g]]
  /\ Goto(g, "gotPlugin", "unlock")
  /\ resultLock' = [resultLock EXCEPT ![Req[g]] = TRUE]
  /\ UNCHANGED <<manager, mapVars, connectionConfig, lockVars, p, found, proc, errors, response>>

CollectError(g) ==
  /\ ~resultLock[Req[g]]
  /\ Goto(g, "gotError", "unlockTwice")
  /\ resultLock' = [resultLock EXCEPT ![Req[g]] = TRUE]
  /\ errors' = errors \cup {Req[g]}
  /\ UNCHANGED <<manager, mapVars, connectionConfig, lockVars, p, found, proc, response>>

(* resultLock.Unlock(): fatal when the lock is not held. *)
Unlock(g, from, to) ==
  \/ /\ resultLock[Req[g]]
     /\ Goto(g, from, to)
     /\ resultLock' = [resultLock EXCEPT ![Req[g]] = FALSE]
     /\ UNCHANGED <<manager, mapVars, connectionConfig, lockVars, p, found, proc,
                    errors, response>>
  \/ /\ manager = "running"
     /\ ~resultLock[Req[g]]
     /\ pc[g] = from
     /\ manager' = "crashed"
     /\ UNCHANGED <<mapVars, connectionConfig, lockVars, callVars, proc, resultVars>>

(* The error branch unlocks, and then so does the common path. *)
UnlockError(g) == Unlock(g, "unlockTwice", "unlock")
UnlockResult(g) == Unlock(g, "unlock", "done")

(* resultWg.Wait() returns and Get answers. *)
Respond(r) ==
  /\ manager = "running"
  /\ response[r] = "none"
  /\ \A g \in CallsOf(r) : pc[g] = "done"
  /\ response' = [response EXCEPT ![r] = IF r \in errors THEN "error" ELSE "ok"]
  /\ UNCHANGED <<manager, mapVars, connectionConfig, lockVars, callVars, proc, resultLock, errors>>

-----------------------------------------------------------------------------

SetConnectionConfigMap(configMap) ==
  /\ manager = "running"
  /\ mut = "free"
  /\ connectionConfig' = configMap
  /\ UNCHANGED <<manager, mapVars, lockVars, callVars, proc, resultVars>>

ShutdownBegin ==
  /\ manager = "running"
  /\ mut = "free"
  /\ mut' = "shutdown"
  /\ killing' = {c \in Connections : Plugins[c] # Nil}
  /\ UNCHANGED <<manager, mapVars, connectionConfig, shutdown, callVars, proc, resultVars>>

(* Kill the process of one entry of the map. *)
ShutdownKill(c) ==
  LET e == Plugins[c] IN
  /\ manager = "running"
  /\ mut = "shutdown"
  /\ c \in killing
  /\ reattach[e] # Nil
  /\ killing' = killing \ {c}
  /\ proc' = [proc EXCEPT ![reattach[e]] = "dead"]
  /\ UNCHANGED <<manager, mapVars, connectionConfig, mut, shutdown, callVars, resultVars>>

(* A placeholder has no reattach config: reading its Pid panics, the lock  *)
(* is released and the panic becomes Shutdown's error.                     *)
ShutdownPanic(c) ==
  /\ manager = "running"
  /\ mut = "shutdown"
  /\ c \in killing
  /\ reattach[Plugins[c]] = Nil
  /\ mut' = "free"
  /\ killing' = {}
  /\ shutdown' = "error"
  /\ UNCHANGED <<manager, mapVars, connectionConfig, callVars, proc, resultVars>>

ShutdownDone ==
  /\ manager = "running"
  /\ mut = "shutdown"
  /\ killing = {}
  /\ mut' = "free"
  /\ shutdown' = "ok"
  /\ UNCHANGED <<manager, mapVars, connectionConfig, killing, callVars, proc, resultVars>>

(* After a Shutdown without error, stop() sends SIGTERM to the manager. *)
KillManager ==
  /\ manager = "running"
  /\ shutdown = "ok"
  /\ manager' = "killed"
  /\ UNCHANGED <<mapVars, connectionConfig, lockVars, callVars, proc, resultVars>>

(* The environment: a plugin process may exit at any time (what happens to *)
(* it after the manager has gone is of no interest).                       *)
PluginExits(g) ==
  /\ manager = "running"
  /\ proc[g] = "alive"
  /\ proc' = [proc EXCEPT ![g] = "dead"]
  /\ UNCHANGED <<manager, mapVars, connectionConfig, lockVars, callVars, resultVars>>

-----------------------------------------------------------------------------

CallStep(g) ==
  \/ LookupHit(g) \/ LookupMiss(g)
  \/ Loaded(g) \/ LoadTimeout(g)
  \/ PidExists(g) \/ PidGone(g) \/ Remove(g)
  \/ StartPlugin(g) \/ StartFails(g)
  \/ Store(g) \/ StoreTwice(g) \/ StoreNowhere(g)
  \/ CollectPlugin(g) \/ CollectError(g) \/ UnlockError(g) \/ UnlockResult(g)

ShutdownStep ==
  \/ \E c \in Connections : ShutdownKill(c) \/ ShutdownPanic(c)
  \/ ShutdownDone

Next ==
  \/ \E r \in Requests : Receive(r) \/ Respond(r)
  \/ \E g \in Calls : CallStep(g) \/ PluginExits(g)
  \/ \E m \in ConfigMaps : SetConnectionConfigMap(m)
  \/ ShutdownBegin \/ ShutdownStep \/ KillManager

Spec == Init /\ [][Next]_vars

(* Goroutines are scheduled, timers fire, and a plugin client's Kill       *)
(* returns.  Strong fairness, because a sync.Mutex is starvation free: a   *)
(* goroutine that waits for m.mut gets it in the end, however often a      *)
(* Shutdown takes it.  Nothing makes requests, shutdowns or exits happen.  *)
Fairness ==
  /\ \A g \in Calls : SF_vars(CallStep(g))
  /\ \A r \in Requests : WF_vars(Respond(r))
  /\ WF_vars(ShutdownStep)

FairSpec == Spec /\ Fairness

-----------------------------------------------------------------------------
(* Properties.                                                             *)

(* The types of the variables; no connection is left to kill once Shutdown *)
(* has released the mutex.                                                 *)
TypeOK ==
  /\ manager \in {"running", "crashed", "killed"}
  /\ Plugins \in [Connections -> Calls \cup {Nil}]
  /\ reattach \in [Calls -> Calls \cup {Nil}]
  /\ initialized \in [Calls -> BOOLEAN]
  /\ connectionConfig \in ConfigMaps
  /\ mut \in {"free", "shutdown"}
  /\ killing \subseteq Connections
  /\ mut = "free" => killing = {}
  /\ shutdown \in {"none", "ok", "error"}
  /\ pc \in [Calls -> PCs]
  /\ p \in [Calls -> Calls \cup {Nil}]
  /\ found \in [Calls -> Calls \cup {Nil}]
  /\ proc \in [Calls -> {"none", "alive", "dead"}]
  /\ resultLock \in [Requests -> BOOLEAN]
  /\ errors \subseteq Requests
  /\ response \in [Requests -> {"none", "ok", "error"}]

\* No plugin process of connection c has exited.
NoneDied(c) == \A g \in Calls : Conn[g] = c => proc[g] # "dead"

Starting(g) == pc[g] \in {"start", "store"}

(* Until a plugin process of a connection exits, at most one call at a     *)
(* time starts the plugin of that connection, whatever requests overlap.   *)
SoleStarter ==
  \A g, h \in Calls :
    NoneDied(Conn[g]) /\ Starting(g) /\ Starting(h) /\ Conn[g] = Conn[h] => g = h

(* Until a plugin process of a connection exits, a running process of it   *)
(* is either about to be stored by the call that started it, into a        *)
(* placeholder that is still there, or it is the process the map has for   *)
(* the connection: no process escapes a later Shutdown.                    *)
NoLostProcess ==
  \A g \in Calls :
    NoneDied(Conn[g]) /\ proc[g] = "alive" =>
      LET e == Plugins[Conn[g]] IN
      /\ e # Nil
      /\ pc[g] = "store" => ~initialized[e]
      /\ pc[g] # "store" => reattach[e] = g

(* A call that got past waitForPluginLoad has a process to return, and     *)
(* that process was started for the connection the call asks for: the      *)
(* unlocked read of p.reattach is never nil and never of another plugin.   *)
LoadedHasProcess ==
  \A g \in Calls : pc[g] \in {"checkPid", "gotPlugin"} =>
    /\ found[g] # Nil
    /\ proc[found[g]] # "none"
    /\ Conn[found[g]] = Conn[g]

(* Until a plugin process of a connection exits, all the calls that        *)
(* succeed for the connection return one and the same process.             *)
CallersAgree ==
  \A g, h \in Calls :
    /\ NoneDied(Conn[g])
    /\ pc[g] = "gotPlugin" /\ pc[h] = "gotPlugin"
    /\ Conn[g] = Conn[h]
    => found[g] = found[h]

\* The plugin of connection c has been started at most once.
StartedFor(c) == {g \in Calls : Conn[g] = c /\ proc[g] # "none"}
StartedOnce(c) == \A g, h \in StartedFor(c) : g = h

(* A Shutdown that returns no error leaves no process of a plugin that was *)
(* started once: an entry that is still loading makes Shutdown return an   *)
(* error instead of being passed over.                                     *)
ShutdownKillsAll ==
  [][ ShutdownDone => \A g \in Calls : StartedOnce(Conn[g]) => proc[g] # "alive" ]_vars

(* Every Get is answered, unless the manager crashes or is killed first:   *)
(* no waiter is left behind, and a Shutdown that fails frees the mutex.    *)
EveryGetEnds ==
  \A g \in Calls : pc[g] = "lookup" ~> (response[Req[g]] # "none" \/ manager # "running")

=============================================================================
