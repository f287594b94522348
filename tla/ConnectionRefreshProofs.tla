------------------------ MODULE ConnectionRefreshProofs ------------------------
(***************************************************************************)
(* Proofs about ConnectionRefresh for any connections, and any number of   *)
(* changes of the config files and of commands: the types, that the state  *)
(* file is true while nobody refreshes, and that a refresh that nobody     *)
(* overlaps with leaves the schemas the config asks for.                   *)
(***************************************************************************)
EXTENDS ConnectionRefresh, TLAPS

(* A refresh that no other one has overlapped with. *)
Alone(p) == Active(p) /\ ~refresh[p].overlaps

AloneInv == \A p, q \in Refreshers : Alone(p) /\ Active(q) => q = p

(* The watcher is a part of the process of the plugin manager. *)
ManagerInv == Active("watcher") => manager.up

(* The state file can be wrong about schemas only while statements are     *)
(* executed that change them.                                              *)
TornInv == (\A p \in Refreshers : refresh[p].at # "execute") => Torn \subseteq untrue

(* The names of the client are those of the schemas there are, and the     *)
(* state file was loaded after them.                                       *)
PlanInv ==
  \A p \in Refreshers :
    Alone(p) =>
      /\ refresh[p].at \in {"plan", "plugins"} =>
           refresh[p].names = Schemas /\ refresh[p].dropped = {}
      /\ refresh[p].at = "plugins" =>
           refresh[p].current = [c \in Files |-> IF c \in Schemas THEN stateFile[c] ELSE 0]

(* What the refresh of p has done, and what is still to do. *)
Underway(p) ==
  LET r == refresh[p] IN
  /\ r.todo \subseteq (Update(p) \ r.failed) \cup Delete(p)
  /\ r.dropped \subseteq Update(p) \ r.failed
  /\ \A c, d \in r.dropped : c = d
  /\ \A c \in Files \ (Update(p) \cup Delete(p) \cup untrue) :
       Required(p)[c] # 0 => schemas[c] = Required(p)[c]
  /\ \A c \in Update(p) \ (r.failed \cup r.todo \cup r.dropped) : schemas[c] = Required(p)[c]
  /\ \A c \in Delete(p) \ r.todo : schemas[c] = 0

ExecuteInv == \A p \in Refreshers : Alone(p) /\ refresh[p].at = "execute" => Underway(p)

IInv == TypeOK /\ AloneInv /\ ManagerInv /\ TornInv /\ PlanInv /\ ExecuteInv /\ RefreshApplied

-----------------------------------------------------------------------------
(* What each step does to the refreshes.                                   *)

RefreshStates ==
  [at : {"idle", "plan", "plugins", "execute", "paths"}, names : SUBSET Files,
   current : Versions, todo : SUBSET Files, failed : SUBSET Files,
   dropped : SUBSET Files, overlaps : BOOLEAN]

Others(p) == \A q \in Refreshers : q # p => refresh'[q] = refresh[q]

LEMMA Typed ==
  ASSUME TypeOK
  PROVE  /\ refresh \in [Refreshers -> RefreshStates]
         /\ globalConfig \in [Refreshers -> Versions]
         /\ schemas \in Versions /\ stateFile \in Versions /\ disk \in Versions
         /\ untrue \subseteq Files /\ Schemas \subseteq Files
         /\ manager \in [up : BOOLEAN, config : Versions]
         /\ {firstEvent, noticeLost} \subseteq BOOLEAN
BY DEF TypeOK, RefreshStates, Schemas, FileWatcherTypeOK, Versions

LEMMA NoSchemaType == NoSchema \in Versions
BY FileWatcherAssumption DEF NoSchema, Versions

LEMMA NoRefreshType ==
  /\ NoRefresh \in RefreshStates
  /\ NoRefresh.at = "idle"
BY NoSchemaType DEF NoRefresh, RefreshStates

LEMMA BeginEffect ==
  ASSUME TypeOK, NEW p \in Refreshers, Begin(p)
  PROVE  /\ refresh' \in [Refreshers -> RefreshStates]
         /\ refresh'[p].at = "plan" /\ refresh'[p].names = Schemas /\ refresh'[p].dropped = {}
         /\ refresh'[p].overlaps <=> \E q \in Refreshers \ {p} : Active(q)
         /\ \A q \in Refreshers \ {p} :
              /\ refresh'[q].at = refresh[q].at
              /\ refresh'[q].overlaps <=> refresh[q].overlaps \/ Active(q)
              /\ ~Active(q) => refresh'[q] = refresh[q]
<1>1. PICK overlaps \in BOOLEAN : overlaps <=> \E q \in Refreshers \ {p} : Active(q)
  <2>1. (\E q \in Refreshers \ {p} : Active(q)) \in BOOLEAN
    OBVIOUS
  <2> QED
    BY <2>1
<1>2. PICK first : first = [NoRefresh EXCEPT !.at = "plan", !.names = Schemas, !.overlaps = overlaps]
  OBVIOUS
<1>3. /\ first \in RefreshStates
      /\ first.at = "plan" /\ first.names = Schemas /\ first.overlaps = overlaps
      /\ first.dropped = {}
  BY <1>2, NoRefreshType, Typed DEF RefreshStates, NoRefresh
<1>4. refresh' = [q \in Refreshers |->
                    IF q = p THEN first
                    ELSE [refresh[q] EXCEPT !.overlaps = @ \/ Active(q)]]
  <2>1. overlaps = \E q \in Refreshers \ {p} : Active(q)
    BY <1>1
  <2> QED
    BY <1>2, <2>1 DEF Begin
<1>5. ASSUME NEW q \in Refreshers
      PROVE  /\ [refresh[q] EXCEPT !.overlaps = @ \/ Active(q)] \in RefreshStates
             /\ [refresh[q] EXCEPT !.overlaps = @ \/ Active(q)].at = refresh[q].at
             /\ [refresh[q] EXCEPT !.overlaps = @ \/ Active(q)].overlaps = (refresh[q].overlaps \/ Active(q))
             /\ ~Active(q) => [refresh[q] EXCEPT !.overlaps = @ \/ Active(q)] = refresh[q]
  <2>1. refresh[q] \in RefreshStates
    BY Typed
  <2>2. Active(q) \in BOOLEAN
    BY DEF Active
  <2> QED
    BY <2>1, <2>2 DEF RefreshStates
<1> QED
  BY <1>1, <1>3, <1>4, <1>5

LEMMA EndEffect ==
  ASSUME TypeOK, NEW p \in Refreshers, End(p)
  PROVE  refresh' \in [Refreshers -> RefreshStates] /\ refresh'[p].at = "idle" /\ Others(p)
BY Typed, NoRefreshType DEF End, Others

LEMMA LoadStateEffect ==
  ASSUME TypeOK, NEW p \in Refreshers, LoadState(p)
  PROVE  LET r == refresh'[p] IN
         /\ refresh' \in [Refreshers -> RefreshStates] /\ Others(p)
         /\ r.at = "plugins" /\ r.names = refresh[p].names /\ r.overlaps = refresh[p].overlaps
         /\ r.dropped = refresh[p].dropped
         /\ r.current = [c \in Files |-> IF c \in refresh[p].names THEN stateFile[c] ELSE 0]
<1>1. PICK current : current = [c \in Files |-> IF c \in refresh[p].names THEN stateFile[c] ELSE 0]
  OBVIOUS
<1>2. current \in Versions
  BY <1>1, Typed, FileWatcherAssumption DEF Versions
<1>3. refresh' = [refresh EXCEPT ![p] = [refresh[p] EXCEPT !.at = "plugins", !.current = current]]
  BY <1>1, Typed DEF LoadState
<1>4. refresh[p] \in RefreshStates
  BY Typed
<1>5. [refresh[p] EXCEPT !.at = "plugins", !.current = current] \in RefreshStates
  BY <1>2, <1>4 DEF RefreshStates
<1> QED
  BY <1>1, <1>3, <1>4, <1>5, Typed DEF Others, RefreshStates

LEMMA CreatePluginsEffect ==
  ASSUME TypeOK, NEW p \in Refreshers, CreatePlugins(p)
  PROVE  LET r == refresh'[p] IN
         /\ refresh' \in [Refreshers -> RefreshStates] /\ Others(p)
         /\ r.overlaps = refresh[p].overlaps /\ r.current = refresh[p].current
         /\ r.failed \subseteq Update(p)
         /\ r.todo = (Update(p) \ r.failed) \cup Delete(p)
         /\ r.dropped = refresh[p].dropped
         /\ r.at = IF r.todo = {} THEN "paths" ELSE "execute"
<1>1. PICK failed \in SUBSET Update(p) :
        refresh' = [refresh EXCEPT ![p].at = IF (Update(p) \ failed) \cup Delete(p) = {} THEN "paths" ELSE "execute",
                                   ![p].todo = (Update(p) \ failed) \cup Delete(p), ![p].failed = failed]
  BY DEF CreatePlugins
<1>2. PICK todo : todo = (Update(p) \ failed) \cup Delete(p)
  OBVIOUS
<1>3. PICK at : at = IF todo = {} THEN "paths" ELSE "execute"
  OBVIOUS
<1>4. /\ failed \in SUBSET Files /\ todo \in SUBSET Files
      /\ at \in {"idle", "plan", "plugins", "execute", "paths"}
  BY <1>2, <1>3 DEF Update, Delete
<1>5. refresh[p] \in RefreshStates
  BY Typed
<1>6. refresh' = [refresh EXCEPT ![p] = [refresh[p] EXCEPT !.at = at, !.todo = todo, !.failed = failed]]
  BY <1>1, <1>2, <1>3, Typed
<1>7. [refresh[p] EXCEPT !.at = at, !.todo = todo, !.failed = failed] \in RefreshStates
  BY <1>4, <1>5 DEF RefreshStates
<1> QED
  BY <1>2, <1>3, <1>5, <1>6, <1>7, Typed DEF Others, RefreshStates

LEMMA DropSchemaEffect ==
  ASSUME TypeOK, NEW p \in Refreshers, NEW c \in Files, DropSchema(p, c)
  PROVE  LET r == refresh'[p] IN
         /\ refresh' \in [Refreshers -> RefreshStates] /\ Others(p)
         /\ r.at = "execute" /\ r.overlaps = refresh[p].overlaps
         /\ r.current = refresh[p].current /\ r.failed = refresh[p].failed
         /\ r.todo = refresh[p].todo \ {c}
         /\ r.dropped = IF c \in Delete(p) THEN {} ELSE {c}
         /\ schemas' \in Versions /\ schemas'[c] = 0
         /\ \A d \in Files : d # c => schemas'[d] = schemas[d]
<1>1. PICK dropped : dropped = IF c \in Delete(p) THEN {} ELSE {c}
  OBVIOUS
<1>2. dropped \in SUBSET Files
  BY <1>1
<1>3. refresh[p] \in RefreshStates /\ refresh[p].at = "execute"
  BY Typed DEF DropSchema
<1>4. refresh' = [refresh EXCEPT ![p] = [refresh[p] EXCEPT !.todo = @ \ {c}, !.dropped = dropped]]
  BY <1>1, Typed DEF DropSchema
<1>5. [refresh[p] EXCEPT !.todo = @ \ {c}, !.dropped = dropped] \in RefreshStates
  BY <1>2, <1>3 DEF RefreshStates
<1>6. /\ schemas' \in Versions /\ schemas'[c] = 0
      /\ \A d \in Files : d # c => schemas'[d] = schemas[d]
  BY Typed, FileWatcherAssumption DEF DropSchema, Versions
<1> QED
  BY <1>1, <1>3, <1>4, <1>5, <1>6, Typed DEF Others, RefreshStates

LEMMA ImportSchemaEffect ==
  ASSUME TypeOK, NEW p \in Refreshers, NEW c \in Files, ImportSchema(p, c)
  PROVE  LET r == refresh'[p] IN
         /\ refresh' \in [Refreshers -> RefreshStates] /\ Others(p)
         /\ r.at = "execute" /\ r.overlaps = refresh[p].overlaps
         /\ r.current = refresh[p].current /\ r.failed = refresh[p].failed
         /\ r.todo = refresh[p].todo /\ r.dropped = {}
         /\ c \in refresh[p].dropped
         /\ schemas' \in Versions /\ schemas'[c] = Required(p)[c]
         /\ \A d \in Files : d # c => schemas'[d] = schemas[d]
<1>1. refresh[p] \in RefreshStates /\ refresh[p].at = "execute"
  BY Typed DEF ImportSchema
<1>2. refresh' = [refresh EXCEPT ![p] = [refresh[p] EXCEPT !.dropped = {}]]
  BY Typed DEF ImportSchema
<1>3. [refresh[p] EXCEPT !.dropped = {}] \in RefreshStates
  BY <1>1 DEF RefreshStates
<1>4. Required(p)[c] \in 0..MaxChanges + 2
  BY Typed DEF Required, Versions
<1>5. /\ schemas' \in Versions /\ schemas'[c] = Required(p)[c]
      /\ \A d \in Files : d # c => schemas'[d] = schemas[d]
  BY <1>4, Typed DEF ImportSchema, Versions
<1>6. c \in refresh[p].dropped
  BY DEF ImportSchema
<1> QED
  BY <1>1, <1>2, <1>3, <1>5, <1>6, Typed DEF Others, RefreshStates

LEMMA SaveEffect ==
  ASSUME TypeOK, NEW p \in Refreshers, SaveConnectionState(p)
  PROVE  LET r == refresh'[p] IN
         /\ refresh' \in [Refreshers -> RefreshStates] /\ Others(p)
         /\ r.at = "paths" /\ r.overlaps = refresh[p].overlaps
         /\ r.current = refresh[p].current /\ r.failed = refresh[p].failed
<1>1. refresh' = [refresh EXCEPT ![p] = [refresh[p] EXCEPT !.at = "paths", !.names = Schemas]]
  BY Typed DEF SaveConnectionState
<1>2. refresh[p] \in RefreshStates
  BY Typed
<1>3. [refresh[p] EXCEPT !.at = "paths", !.names = Schemas] \in RefreshStates
  BY <1>2, Typed DEF RefreshStates
<1> QED
  BY <1>1, <1>2, <1>3, Typed DEF Others, RefreshStates

(* The refreshes that NoPlugins ends, all of which are over then.          *)
LEMMA NoPluginsEffect ==
  ASSUME TypeOK, NEW p \in Refreshers, NoPlugins(p)
  PROVE  /\ refresh' \in [Refreshers -> RefreshStates]
         /\ \A q \in Refreshers : refresh'[q] = refresh[q] \/ refresh'[q].at = "idle"
         /\ refresh'[p].at = "idle"
         /\ manager' \in [up : BOOLEAN, config : Versions]
         /\ \/ Others(p) /\ untrue' = untrue /\ manager'.up = manager.up
            \/ /\ \A q \in Refreshers \ {"watcher", p} : refresh'[q] = refresh[q]
               /\ refresh'["watcher"].at = "idle"
               /\ untrue' = IF Active("watcher") THEN Files ELSE untrue
<1>1. PICK up \in BOOLEAN :
        /\ up => manager.up
        /\ manager' = [manager EXCEPT !.up = up]
        /\ IF manager.up /\ ~up
           THEN /\ refresh' = [q \in Refreshers |-> IF q \in {p, "watcher"} THEN NoRefresh
                                                    ELSE refresh[q]]
                /\ untrue' = IF Active("watcher") THEN Files ELSE untrue
           ELSE End(p) /\ UNCHANGED untrue
  BY DEF NoPlugins
<1>2. /\ manager' \in [up : BOOLEAN, config : Versions]
      /\ manager'.up = up
  BY <1>1, Typed
<1>3. CASE manager.up /\ ~up
  BY <1>1, <1>2, <1>3, Typed, NoRefreshType DEF Refreshers
<1>4. CASE ~(manager.up /\ ~up)
  <2>1. manager.up = up
    BY <1>1, <1>4, Typed
  <2> QED
    BY <1>1, <1>2, <1>4, <2>1, EndEffect DEF Others
<1> QED
  BY <1>3, <1>4
-----------------------------------------------------------------------------
(* The types.                                                              *)

LEMMA EventType ==
  /\ \A f \in Files, op \in {"Create", "Write", "Remove"} :
       Event(f, op) \in [file : Files, op : {"Create", "Write", "Remove"}]
  /\ \A f \in Files, op \in {"Write", "Remove"} : Event(f, op) \in [file : Files, op : {"Write", "Remove"}]
  /\ NoEvent \notin [file : Files, op : {"Create", "Write", "Remove"}]
  /\ \A e \in [file : Files, op : {"Write", "Remove"}] :
       e \in [file : Files, op : {"Create", "Write", "Remove"}]
BY DEF Event, NoEvent

LEMMA ChangeFileTyped ==
  ASSUME FileWatcherTypeOK, ChangeFile
  PROVE  FileWatcherTypeOK'
<1> USE FileWatcherAssumption
<1>1. PICK f \in Files : Write(f) \/ Replace(f) \/ Remove(f) \/ Create(f)
  BY DEF ChangeFile
<1>2. changes \in 0..MaxChanges /\ changes < MaxChanges
  BY DEF ChangeFile, FileWatcherTypeOK
<1>3. \E v \in 0..MaxChanges + 2 : disk' = [disk EXCEPT ![f] = v]
  <2>1. 0 \in 0..MaxChanges + 2 /\ changes + 2 \in 0..MaxChanges + 2
    BY <1>2
  <2> QED
    BY <1>1, <2>1 DEF Write, Replace, Remove, Create
<1>4. disk' \in [Files -> 0..MaxChanges + 2]
  BY <1>3 DEF FileWatcherTypeOK
<1>5. changes' \in 0..MaxChanges
  BY <1>2 DEF ChangeFile
<1>6. queue' \subseteq [file : Files, op : {"Write", "Remove"}]
  <2>1. queue' \subseteq queue \cup {Event(f, "Write"), Event(f, "Remove")}
    BY <1>1 DEF Write, Replace, Remove, Create
  <2> QED
    BY <2>1, EventType DEF FileWatcherTypeOK
<1>7. inotify' \subseteq inotify
  BY <1>1 DEF Write, Replace, Remove, Create
<1> QED
  BY <1>4, <1>5, <1>6, <1>7 DEF FileWatcherTypeOK, ChangeFile

LEMMA WatcherTyped ==
  ASSUME FileWatcherTypeOK, Poll \/ TakeEvent \/ ScheduleHandler \/ AddWatch \/ HandlerStarts \/ HandlerEnds
  PROVE  FileWatcherTypeOK'
<1>d. UNCHANGED <<disk, changes>>
  BY DEF Poll, TakeEvent, ScheduleHandler, AddWatch, HandlerStarts, HandlerEnds, diskVars
<1>1. CASE Poll
  BY <1>d, <1>1, EventType DEF FileWatcherTypeOK, Poll
<1>2. CASE TakeEvent
  BY <1>d, <1>2, EventType DEF FileWatcherTypeOK, TakeEvent
<1>3. CASE ScheduleHandler
  <2>1. CASE event.op = "Create"
    BY <1>d, <1>3, <2>1 DEF FileWatcherTypeOK, ScheduleHandler
  <2>2. CASE event.op # "Create"
    BY <1>d, <1>3, <2>2 DEF FileWatcherTypeOK, ScheduleHandler
  <2> QED
    BY <2>1, <2>2
<1>4. CASE AddWatch
  <2>1. event \in [file : Files, op : {"Create", "Write", "Remove"}]
    BY <1>4 DEF FileWatcherTypeOK, AddWatch
  <2>2. event.file \in Files
    BY <2>1
  <2> QED
    BY <1>d, <1>4, <2>2 DEF FileWatcherTypeOK, AddWatch
<1>5. CASE HandlerStarts \/ HandlerEnds
  BY <1>d, <1>5 DEF FileWatcherTypeOK, HandlerStarts, HandlerEnds
<1> QED
  BY <1>1, <1>2, <1>3, <1>4, <1>5

LEMMA WatcherStartsTyped ==
  ASSUME FileWatcherTypeOK, UNCHANGED diskVars,
         \/ StartWatcher
         \/ /\ watches' = {} /\ inotify' = {} /\ queue' = {} /\ loop' = "idle"
            /\ event' = NoEvent /\ handler' = "none"
  PROVE  FileWatcherTypeOK'
BY DEF FileWatcherTypeOK, StartWatcher, diskVars, Existing

LEMMA InitTyped == Init => TypeOK
<1> SUFFICES ASSUME Init PROVE TypeOK
  OBVIOUS
<1>1. disk \in Versions
  BY FileWatcherAssumption DEF Init, FileWatcherInit, Versions
<1>2. FileWatcherTypeOK
  BY <1>1, FileWatcherAssumption DEF Init, FileWatcherInit, FileWatcherTypeOK, Existing, Versions
<1>3. refresh \in [Refreshers -> RefreshStates]
  BY NoRefreshType DEF Init
<1>4. /\ commands \in 0..MaxCommands /\ firstEvent \in BOOLEAN /\ noticeLost \in BOOLEAN
      /\ schemas \in Versions /\ stateFile \in Versions
  <2>1. commands = 0 /\ firstEvent = TRUE /\ noticeLost = FALSE /\ schemas = disk /\ stateFile = disk
    BY DEF Init
  <2>2. firstEvent \in BOOLEAN
    BY <2>1
  <2>3. noticeLost \in BOOLEAN
    BY <2>1
  <2>4. schemas \in Versions /\ stateFile \in Versions
    BY <1>1, <2>1
  <2>5. commands \in 0..MaxCommands
    BY <2>1, RefreshAssumption
  <2> QED
    BY <2>2, <2>3, <2>4, <2>5
<1>6. globalConfig \in [Refreshers -> Versions] /\ manager \in [up : BOOLEAN, config : Versions]
  BY <1>1 DEF Init
<1>5. searchPath \cup untrue \subseteq Files
  BY DEF Init, Schemas
<1> QED
  BY <1>2, <1>3, <1>4, <1>5, <1>6 DEF TypeOK, RefreshStates

LEMMA StepCases ==
  ASSUME [Next]_vars
  PROVE  \/ ChangeConfig
         \/ manager.up /\ (Watch \/ HandlerStarts) /\ UNCHANGED <<processVars, dbVars, refresh>>
         \/ IgnoreFirstEvent
         \/ manager.up /\ WatcherRefreshes
         \/ WatcherHasNoClient
         \/ CommandRefreshes
         \/ \E p \in Refreshers :
              \/ LoadState(p) \/ CreatePlugins(p) \/ NoPlugins(p) \/ SaveConnectionState(p)
              \/ SetSearchPath(p) \/ StatementFails(p)
              \/ \E c \in Files : DropSchema(p, c) \/ ImportSchema(p, c)
         \/ UNCHANGED vars
BY DEF Next, Handle, Refresh

LEMMA TypeStep ==
  ASSUME TypeOK, [Next]_vars
  PROVE  TypeOK'
<1>t. /\ FileWatcherTypeOK /\ commands \in 0..MaxCommands /\ {firstEvent, noticeLost} \subseteq BOOLEAN
      /\ globalConfig \in [Refreshers -> Versions] /\ manager \in [up : BOOLEAN, config : Versions]
      /\ {schemas, stateFile} \subseteq Versions /\ searchPath \cup untrue \subseteq Files
      /\ refresh \in [Refreshers -> RefreshStates] /\ disk \in Versions /\ Schemas \subseteq Files
  BY Typed DEF TypeOK
<1>q. TypeOK' <=>
        /\ FileWatcherTypeOK' /\ commands' \in 0..MaxCommands /\ {firstEvent', noticeLost'} \subseteq BOOLEAN
        /\ globalConfig' \in [Refreshers -> Versions] /\ manager' \in [up : BOOLEAN, config : Versions]
        /\ {schemas', stateFile'} \subseteq Versions /\ searchPath' \cup untrue' \subseteq Files
        /\ refresh' \in [Refreshers -> RefreshStates]
  BY DEF TypeOK, RefreshStates, Versions
<1>u. UNCHANGED fileWatcherVars => FileWatcherTypeOK'
  BY <1>t DEF FileWatcherTypeOK, fileWatcherVars, diskVars, watcherVars
<1>e. ASSUME NEW p \in Refreshers, End(p) PROVE FileWatcherTypeOK' /\ refresh' \in [Refreshers -> RefreshStates]
  BY <1>t, <1>u, <1>e, EndEffect, WatcherTyped DEF End
<1>m. ASSUME manager' = [manager EXCEPT !.config = ConfigForManager]
      PROVE  manager' \in [up : BOOLEAN, config : Versions]
  BY <1>m, <1>t DEF ConfigForManager, Refreshers
<1>1. CASE ChangeConfig
  <2>1. noticeLost' \in BOOLEAN
    BY <1>1, <1>t DEF ChangeConfig
  <2> QED
    BY <1>1, <2>1, <1>t, <1>q, ChangeFileTyped DEF ChangeConfig, dbVars
<1>2. CASE (Watch \/ HandlerStarts) /\ UNCHANGED <<processVars, dbVars, refresh>>
  BY <1>2, <1>t, <1>q, WatcherTyped DEF Watch, dbVars, processVars
<1>3. CASE IgnoreFirstEvent
  BY <1>3, <1>t, <1>q, WatcherTyped DEF IgnoreFirstEvent, dbVars
<1>4. CASE WatcherRefreshes
  BY <1>4, <1>t, <1>q, <1>u, <1>m, BeginEffect DEF WatcherRefreshes, dbVars, Refreshers
<1>5. CASE WatcherHasNoClient
  BY <1>5, <1>t, <1>q, <1>m, WatcherTyped DEF WatcherHasNoClient, dbVars
<1>6. CASE CommandRefreshes
  <2>1. refresh' \in [Refreshers -> RefreshStates]
    BY <1>6, BeginEffect DEF CommandRefreshes, Refreshers
  <2>2. FileWatcherTypeOK'
    BY <1>6, <1>t, <1>u, WatcherStartsTyped DEF CommandRefreshes, fileWatcherVars, diskVars
  <2>3. commands' \in 0..MaxCommands
    BY <1>6, <1>t, RefreshAssumption DEF CommandRefreshes
  <2>4. /\ firstEvent' \in BOOLEAN /\ noticeLost' \in BOOLEAN
        /\ manager' \in [up : BOOLEAN, config : Versions]
    <3>1. CASE manager.up
      BY <1>6, <1>t, <3>1 DEF CommandRefreshes
    <3>2. CASE ~manager.up
      <4>1. firstEvent' = TRUE /\ noticeLost' = FALSE /\ manager' = [up |-> TRUE, config |-> disk]
        BY <1>6, <3>2 DEF CommandRefreshes
      <4>2. firstEvent' \in BOOLEAN
        BY <4>1
      <4>3. noticeLost' \in BOOLEAN
        BY <4>1
      <4>4. manager' \in [up : BOOLEAN, config : Versions]
        BY <1>t, <4>1
      <4> QED
        BY <4>2, <4>3, <4>4
    <3> QED
      BY <3>1, <3>2
  <2>5. globalConfig' \in [Refreshers -> Versions]
    BY <1>6, <1>t DEF CommandRefreshes
  <2>6. {schemas', stateFile'} \subseteq Versions /\ searchPath' \cup untrue' \subseteq Files
    BY <1>6, <1>t DEF CommandRefreshes, dbVars
  <2> QED
    BY <1>q, <2>1, <2>2, <2>3, <2>4, <2>5, <2>6
<1>7. ASSUME NEW p \in Refreshers, LoadState(p) PROVE TypeOK'
  BY <1>7, <1>t, <1>q, <1>u, LoadStateEffect DEF LoadState, dbVars, processVars
<1>8. ASSUME NEW p \in Refreshers, CreatePlugins(p) PROVE TypeOK'
  BY <1>8, <1>t, <1>q, <1>u, CreatePluginsEffect DEF CreatePlugins, dbVars, processVars
<1>9. ASSUME NEW p \in Refreshers, NoPlugins(p) PROVE TypeOK'
  <2>1. FileWatcherTypeOK' /\ untrue' \subseteq Files
    <3>1. CASE End(p) /\ UNCHANGED untrue
      BY <1>e, <1>t, <3>1
    <3>2. CASE /\ watches' = {} /\ inotify' = {} /\ queue' = {} /\ loop' = "idle"
               /\ event' = NoEvent /\ handler' = "none"
               /\ untrue' = IF Active("watcher") THEN Files ELSE untrue
               /\ UNCHANGED diskVars
      BY <1>t, <3>2, WatcherStartsTyped
    <3> QED
      BY <1>9, <3>1, <3>2 DEF NoPlugins
  <2> QED
    BY <1>9, <1>t, <1>q, <2>1, NoPluginsEffect DEF NoPlugins
<1>10. ASSUME NEW p \in Refreshers, NEW c \in Files, DropSchema(p, c) PROVE TypeOK'
  <2>1. UNCHANGED <<fileWatcherVars, commands, firstEvent, globalConfig, manager, noticeLost,
                    stateFile, searchPath, untrue>>
    BY <1>10 DEF DropSchema, processVars
  <2>2. refresh' \in [Refreshers -> RefreshStates] /\ schemas' \in Versions
    BY <1>10, DropSchemaEffect
  <2> QED
    BY <1>t, <1>q, <1>u, <2>1, <2>2
<1>11. ASSUME NEW p \in Refreshers, NEW c \in Files, ImportSchema(p, c) PROVE TypeOK'
  <2>1. UNCHANGED <<fileWatcherVars, commands, firstEvent, globalConfig, manager, noticeLost,
                    stateFile, searchPath, untrue>>
    BY <1>11 DEF ImportSchema, processVars
  <2>2. refresh' \in [Refreshers -> RefreshStates] /\ schemas' \in Versions
    BY <1>11, ImportSchemaEffect
  <2> QED
    BY <1>t, <1>q, <1>u, <2>1, <2>2
<1>12. ASSUME NEW p \in Refreshers, SaveConnectionState(p) PROVE TypeOK'
  <2>1. stateFile' \in Versions /\ untrue' \subseteq Files
    BY <1>12, <1>t DEF SaveConnectionState, Required
  <2> QED
    BY <1>12, <1>t, <1>q, <1>u, <2>1, SaveEffect DEF SaveConnectionState, processVars
<1>13. ASSUME NEW p \in Refreshers, SetSearchPath(p) PROVE TypeOK'
  <2>1. searchPath' \subseteq Files
    BY <1>13, <1>t DEF SetSearchPath, RefreshStates
  <2> QED
    BY <1>13, <1>t, <1>q, <1>e, <2>1 DEF SetSearchPath, processVars
<1>14. ASSUME NEW p \in Refreshers, StatementFails(p) PROVE TypeOK'
  <2>1. untrue' \subseteq Files
    BY <1>14, <1>t DEF StatementFails, Torn
  <2> QED
    BY <1>14, <1>t, <1>q, <1>e, <2>1 DEF StatementFails, processVars
<1>15. CASE UNCHANGED vars
  BY <1>15, <1>t, <1>q, <1>u DEF vars, processVars, dbVars
<1> QED
  BY StepCases, <1>1, <1>2, <1>3, <1>4, <1>5, <1>6, <1>7, <1>8, <1>9, <1>10, <1>11, <1>12, <1>13, <1>14, <1>15

(* TypeCorrect: the watcher, the refreshes, the state file and the config  *)
(* of each process keep their types, and the watcher's goroutine has an    *)
(* event exactly while it is not idle.                                     *)
THEOREM TypeCorrect == Spec => []TypeOK
<1>1. TypeOK /\ [Next]_vars => TypeOK'
  BY TypeStep
<1> QED
  BY InitTyped, <1>1, PTL DEF Spec
-----------------------------------------------------------------------------
(* The invariants.                                                         *)

SafeInv == AloneInv /\ ManagerInv /\ TornInv /\ PlanInv /\ ExecuteInv /\ RefreshApplied

(* Nothing that a refresh relies on changes, except that some may end.     *)
LEMMA CalmKeeps ==
  ASSUME IInv,
         schemas' = schemas, stateFile' = stateFile, untrue \subseteq untrue',
         \A p \in Refreshers :
           Active(p)' => refresh'[p] = refresh[p] /\ globalConfig'[p] = globalConfig[p],
         Active("watcher")' => manager'.up,
         (\E p \in Refreshers : refresh[p].at = "execute" /\ ~Active(p)') => Torn \subseteq untrue'
  PROVE  SafeInv'
<1>1. \A p \in Refreshers : Active(p)' => Active(p) /\ (Alone(p)' <=> Alone(p))
  BY DEF Active, Alone
<1>2. Torn' = Torn /\ Schemas' = Schemas
  BY DEF Torn, Schemas
<1>3. \A p \in Refreshers : Active(p)' =>
        Required(p)' = Required(p) /\ Update(p)' = Update(p) /\ Delete(p)' = Delete(p)
  BY DEF Required, Update, Delete
<1>4. AloneInv'
  BY <1>1 DEF IInv, AloneInv, Alone
<1>5. TornInv'
  <2>1. CASE \E p \in Refreshers : refresh[p].at = "execute" /\ ~Active(p)'
    BY <1>2, <2>1 DEF TornInv
  <2>2. CASE ~\E p \in Refreshers : refresh[p].at = "execute" /\ ~Active(p)'
    BY <1>2, <2>2 DEF IInv, TornInv, Active
  <2> QED
    BY <2>1, <2>2
<1>6. PlanInv'
  BY <1>1, <1>2 DEF IInv, PlanInv, Alone
<1>7. ExecuteInv'
  <2> SUFFICES ASSUME NEW p \in Refreshers, Alone(p)', refresh'[p].at = "execute"
               PROVE  Underway(p)'
    BY DEF ExecuteInv
  <2>1. Underway(p)
    BY <1>1 DEF Alone, IInv, ExecuteInv
  <2> QED
    BY <1>3, <2>1 DEF Underway, Alone
<1>8. RefreshApplied'
  <2> SUFFICES ASSUME NEW p \in Refreshers, refresh'[p].at = "paths", ~refresh'[p].overlaps
               PROVE  /\ \A c \in Files \ (refresh'[p].failed \cup untrue') :
                           Required(p)'[c] # 0 => schemas'[c] = Required(p)'[c]
                      /\ \A c \in Files :
                           Required(p)'[c] = 0 /\ refresh'[p].current[c] # 0 => schemas'[c] = 0
    BY DEF RefreshApplied
  <2>1. Active(p)'
    BY DEF Active
  <2> QED
    BY <1>3, <2>1 DEF IInv, RefreshApplied
<1> QED
  BY <1>4, <1>5, <1>6, <1>7, <1>8 DEF SafeInv, ManagerInv

LEMMA BeginKeeps ==
  ASSUME IInv, NEW p \in Refreshers, ~Active(p), Begin(p), UNCHANGED dbVars,
         Active("watcher") \/ p = "watcher" => manager'.up
  PROVE  SafeInv'
<1>1. /\ refresh'[p].at = "plan" /\ refresh'[p].names = Schemas /\ refresh'[p].dropped = {}
      /\ refresh'[p].overlaps <=> \E q \in Refreshers \ {p} : Active(q)
      /\ \A q \in Refreshers \ {p} :
           /\ refresh'[q].at = refresh[q].at
           /\ refresh'[q].overlaps <=> refresh[q].overlaps \/ Active(q)
  BY BeginEffect DEF IInv
<1>2. \A q \in Refreshers \ {p} : (Active(q)' <=> Active(q)) /\ ~Alone(q)'
  BY <1>1 DEF Active, Alone
<1>3. Schemas' = Schemas /\ Torn' = Torn
  BY DEF dbVars, Schemas, Torn
<1>4. AloneInv'
  BY <1>1, <1>2 DEF AloneInv, Alone
<1>5. ManagerInv'
  BY <1>2 DEF ManagerInv, Refreshers
<1>6. TornInv'
  <2>1. \A q \in Refreshers : refresh'[q].at # "execute" => refresh[q].at # "execute"
    BY <1>1 DEF Active
  <2> QED
    BY <1>3, <2>1 DEF IInv, TornInv, dbVars
<1>7. PlanInv' /\ ExecuteInv'
  BY <1>1, <1>2, <1>3 DEF PlanInv, ExecuteInv
<1>8. RefreshApplied'
  <2>1. \A q \in Refreshers : ~(refresh'[q].at = "paths" /\ ~refresh'[q].overlaps)
    BY <1>1, <1>2 DEF Alone, Active
  <2> QED
    BY <2>1 DEF RefreshApplied
<1> QED
  BY <1>4, <1>5, <1>6, <1>7, <1>8 DEF SafeInv

(* A refresh goes on: what is said of refreshes that nobody overlaps with  *)
(* is said of it alone.                                                    *)
LEMMA GoesOn ==
  ASSUME IInv, NEW p \in Refreshers, Active(p), Active(p)', Others(p),
         refresh'[p].overlaps = refresh[p].overlaps, manager' = manager
  PROVE  /\ AloneInv' /\ ManagerInv'
         /\ \A q \in Refreshers : Alone(q)' => q = p /\ Alone(p)
         /\ \A q \in Refreshers : refresh'[q].at = "paths" /\ ~refresh'[q].overlaps => q = p
         /\ Alone(p) => \A q \in Refreshers : Active(q) => q = p
<1>1. \A q \in Refreshers : (Active(q)' <=> Active(q)) /\ (Alone(q)' <=> Alone(q))
  BY DEF Others, Active, Alone
<1>2. AloneInv' /\ ManagerInv'
  BY <1>1 DEF IInv, AloneInv, ManagerInv, Refreshers
<1>3. \A q \in Refreshers : Alone(q) => q = p
  BY DEF IInv, AloneInv, Alone
<1>4. \A q \in Refreshers : refresh'[q].at = "paths" /\ ~refresh'[q].overlaps => Alone(q)'
  BY DEF Alone, Active
<1> QED
  BY <1>1, <1>2, <1>3, <1>4 DEF IInv, AloneInv

LEMMA LoadStateKeeps ==
  ASSUME IInv, NEW p \in Refreshers, LoadState(p)
  PROVE  SafeInv'
<1>1. /\ Others(p) /\ refresh'[p].at = "plugins" /\ refresh'[p].names = refresh[p].names
      /\ refresh'[p].overlaps = refresh[p].overlaps /\ refresh'[p].dropped = refresh[p].dropped
      /\ refresh'[p].current = [c \in Files |-> IF c \in refresh[p].names THEN stateFile[c] ELSE 0]
      /\ refresh[p].at = "plan" /\ manager' = manager
      /\ schemas' = schemas /\ stateFile' = stateFile /\ untrue' = untrue
  <2>1. TypeOK
    BY DEF IInv
  <2>2. /\ refresh[p].at = "plan" /\ manager' = manager
        /\ schemas' = schemas /\ stateFile' = stateFile /\ untrue' = untrue
    BY DEF LoadState, processVars, dbVars
  <2> QED
    BY <2>1, <2>2, LoadStateEffect
<1>2. /\ AloneInv' /\ ManagerInv'
      /\ \A q \in Refreshers : Alone(q)' => q = p /\ Alone(p)
      /\ \A q \in Refreshers : refresh'[q].at = "paths" /\ ~refresh'[q].overlaps => q = p
  BY <1>1, GoesOn DEF Active
<1>3. TornInv'
  BY <1>1 DEF IInv, TornInv, Others, Torn
<1>4. PlanInv'
  BY <1>1, <1>2 DEF IInv, PlanInv, Schemas
<1>5. ExecuteInv' /\ RefreshApplied'
  BY <1>1, <1>2 DEF ExecuteInv, RefreshApplied
<1> QED
  BY <1>2, <1>3, <1>4, <1>5 DEF SafeInv

LEMMA CreatePluginsKeeps ==
  ASSUME IInv, NEW p \in Refreshers, CreatePlugins(p)
  PROVE  SafeInv'
<1>1. /\ Others(p) /\ refresh'[p].overlaps = refresh[p].overlaps
      /\ refresh'[p].current = refresh[p].current /\ refresh'[p].dropped = refresh[p].dropped
      /\ refresh'[p].failed \subseteq Update(p)
      /\ refresh'[p].todo = (Update(p) \ refresh'[p].failed) \cup Delete(p)
      /\ refresh'[p].at = IF refresh'[p].todo = {} THEN "paths" ELSE "execute"
      /\ refresh[p].at = "plugins" /\ manager' = manager /\ globalConfig' = globalConfig
      /\ schemas' = schemas /\ stateFile' = stateFile /\ untrue' = untrue
  <2>1. TypeOK
    BY DEF IInv
  <2>2. /\ refresh[p].at = "plugins" /\ manager' = manager /\ globalConfig' = globalConfig
        /\ schemas' = schemas /\ stateFile' = stateFile /\ untrue' = untrue
    BY DEF CreatePlugins, processVars, dbVars
  <2> QED
    BY <2>1, <2>2, CreatePluginsEffect
<1>2. /\ AloneInv' /\ ManagerInv'
      /\ \A q \in Refreshers : Alone(q)' => q = p /\ Alone(p)
      /\ \A q \in Refreshers : refresh'[q].at = "paths" /\ ~refresh'[q].overlaps => q = p
      /\ Alone(p) => \A q \in Refreshers : Active(q) => q = p
  BY <1>1, GoesOn DEF Active
<1>3. Required(p)' = Required(p) /\ Update(p)' = Update(p) /\ Delete(p)' = Delete(p)
  BY <1>1 DEF Required, Update, Delete
<1>4. ASSUME Alone(p), NEW c \in Files \ (Update(p) \cup untrue), Required(p)[c] # 0
      PROVE  schemas[c] = Required(p)[c]
  <2>1. Required(p)[c] = refresh[p].current[c]
    BY <1>4 DEF Update
  <2>2. refresh[p].current = [d \in Files |-> IF d \in Schemas THEN stateFile[d] ELSE 0]
    BY <1>1, <1>4 DEF IInv, PlanInv
  <2>3. c \in Schemas /\ stateFile[c] = Required(p)[c]
    BY <1>4, <2>1, <2>2
  <2>4. \A q \in Refreshers : refresh[q].at # "execute"
    BY <1>1, <1>2, <1>4 DEF Active
  <2>5. Torn \subseteq untrue
    BY <2>4 DEF IInv, TornInv
  <2> QED
    BY <1>4, <2>3, <2>5 DEF Torn, Schemas
<1>5. TornInv'
  BY <1>1 DEF IInv, TornInv, Others, Torn
<1>6. PlanInv'
  BY <1>1, <1>2 DEF PlanInv
<1>7. ExecuteInv'
  <2> SUFFICES ASSUME Alone(p), refresh'[p].at = "execute" PROVE Underway(p)'
    BY <1>2 DEF ExecuteInv
  <2>1. refresh[p].dropped = {}
    BY <1>1 DEF IInv, PlanInv
  <2> QED
    BY <1>1, <1>3, <1>4, <2>1 DEF Underway
<1>8. RefreshApplied'
  <2> SUFFICES ASSUME refresh'[p].at = "paths", ~refresh'[p].overlaps
               PROVE  /\ \A c \in Files \ (refresh'[p].failed \cup untrue') :
                           Required(p)'[c] # 0 => schemas'[c] = Required(p)'[c]
                      /\ \A c \in Files :
                           Required(p)'[c] = 0 /\ refresh'[p].current[c] # 0 => schemas'[c] = 0
    BY <1>2 DEF RefreshApplied
  <2>1. Alone(p) /\ Update(p) \subseteq refresh'[p].failed /\ Delete(p) = {}
    BY <1>1 DEF Alone, Active
  <2> QED
    BY <1>1, <1>3, <1>4, <2>1 DEF Delete
<1> QED
  BY <1>2, <1>5, <1>6, <1>7, <1>8 DEF SafeInv

LEMMA DropSchemaKeeps ==
  ASSUME IInv, NEW p \in Refreshers, NEW c \in Files, DropSchema(p, c)
  PROVE  SafeInv'
<1>1. /\ Others(p) /\ refresh'[p].at = "execute" /\ refresh'[p].overlaps = refresh[p].overlaps
      /\ refresh'[p].current = refresh[p].current /\ refresh'[p].failed = refresh[p].failed
      /\ refresh'[p].todo = refresh[p].todo \ {c}
      /\ refresh'[p].dropped = IF c \in Delete(p) THEN {} ELSE {c}
      /\ schemas'[c] = 0 /\ \A d \in Files : d # c => schemas'[d] = schemas[d]
      /\ refresh[p].at = "execute" /\ refresh[p].dropped = {} /\ c \in refresh[p].todo
      /\ manager' = manager /\ globalConfig' = globalConfig
      /\ stateFile' = stateFile /\ untrue' = untrue
  <2>1. TypeOK
    BY DEF IInv
  <2>2. /\ refresh[p].at = "execute" /\ refresh[p].dropped = {} /\ c \in refresh[p].todo
        /\ manager' = manager /\ globalConfig' = globalConfig
        /\ stateFile' = stateFile /\ untrue' = untrue
    BY DEF DropSchema, processVars
  <2> QED
    BY <2>1, <2>2, DropSchemaEffect
<1>2. /\ AloneInv' /\ ManagerInv'
      /\ \A q \in Refreshers : Alone(q)' => q = p /\ Alone(p)
      /\ \A q \in Refreshers : refresh'[q].at = "paths" /\ ~refresh'[q].overlaps => q = p
  BY <1>1, GoesOn DEF Active
<1>3. Required(p)' = Required(p) /\ Update(p)' = Update(p) /\ Delete(p)' = Delete(p)
  BY <1>1 DEF Required, Update, Delete
<1>4. TornInv' /\ PlanInv' /\ RefreshApplied'
  BY <1>1, <1>2 DEF TornInv, PlanInv, RefreshApplied
<1>5. ExecuteInv'
  <2> SUFFICES ASSUME Alone(p) PROVE Underway(p)'
    BY <1>2 DEF ExecuteInv
  <2>1. Underway(p)
    BY <1>1 DEF IInv, ExecuteInv
  <2>2. c \in (Update(p) \ refresh[p].failed) \cup Delete(p)
    BY <1>1, <2>1 DEF Underway
  <2>3. \A d \in Files \ (Update(p) \cup Delete(p) \cup untrue) :
          Required(p)[d] # 0 => schemas'[d] = Required(p)[d]
    BY <1>1, <2>1, <2>2 DEF Underway
  <2>4. \A d \in Update(p) \ (refresh'[p].failed \cup refresh'[p].todo \cup refresh'[p].dropped) :
          schemas'[d] = Required(p)[d]
    BY <1>1, <2>1 DEF Underway, Update, Delete
  <2>5. \A d \in Delete(p) \ refresh'[p].todo : schemas'[d] = 0
    BY <1>1, <2>1 DEF Underway, Delete
  <2>6. /\ refresh'[p].todo \subseteq (Update(p) \ refresh'[p].failed) \cup Delete(p)
        /\ refresh'[p].dropped \subseteq Update(p) \ refresh'[p].failed
        /\ \A d, e \in refresh'[p].dropped : d = e
    BY <1>1, <2>1, <2>2 DEF Underway
  <2> QED
    BY <1>1, <1>3, <2>3, <2>4, <2>5, <2>6 DEF Underway
<1> QED
  BY <1>2, <1>4, <1>5 DEF SafeInv

LEMMA ImportSchemaKeeps ==
  ASSUME IInv, NEW p \in Refreshers, NEW c \in Files, ImportSchema(p, c)
  PROVE  SafeInv'
<1>1. /\ Others(p) /\ refresh'[p].at = "execute" /\ refresh'[p].overlaps = refresh[p].overlaps
      /\ refresh'[p].current = refresh[p].current /\ refresh'[p].failed = refresh[p].failed
      /\ refresh'[p].todo = refresh[p].todo /\ refresh'[p].dropped = {}
      /\ c \in refresh[p].dropped /\ schemas'[c] = Required(p)[c]
      /\ \A d \in Files : d # c => schemas'[d] = schemas[d]
      /\ refresh[p].at = "execute" /\ manager' = manager /\ globalConfig' = globalConfig
      /\ stateFile' = stateFile /\ untrue' = untrue
  <2>1. TypeOK
    BY DEF IInv
  <2>2. /\ refresh[p].at = "execute" /\ manager' = manager /\ globalConfig' = globalConfig
        /\ stateFile' = stateFile /\ untrue' = untrue
    BY DEF ImportSchema, processVars
  <2> QED
    BY <2>1, <2>2, ImportSchemaEffect
<1>2. /\ AloneInv' /\ ManagerInv'
      /\ \A q \in Refreshers : Alone(q)' => q = p /\ Alone(p)
      /\ \A q \in Refreshers : refresh'[q].at = "paths" /\ ~refresh'[q].overlaps => q = p
  BY <1>1, GoesOn DEF Active
<1>3. Required(p)' = Required(p) /\ Update(p)' = Update(p) /\ Delete(p)' = Delete(p)
  BY <1>1 DEF Required, Update, Delete
<1>4. TornInv' /\ PlanInv' /\ RefreshApplied'
  BY <1>1, <1>2 DEF TornInv, PlanInv, RefreshApplied
<1>5. ExecuteInv'
  <2> SUFFICES ASSUME Alone(p) PROVE Underway(p)'
    BY <1>2 DEF ExecuteInv
  <2>1. Underway(p)
    BY <1>1 DEF IInv, ExecuteInv
  <2>2. c \in Update(p) \ Delete(p)
    BY <1>1, <2>1 DEF Underway, Update, Delete
  <2>3. \A d \in Update(p) \ (refresh[p].failed \cup refresh[p].todo) : schemas'[d] = Required(p)[d]
    <3> SUFFICES ASSUME NEW d \in Update(p) \ (refresh[p].failed \cup refresh[p].todo), d # c
                 PROVE  schemas'[d] = Required(p)[d]
      BY <1>1
    <3>1. d \in Files /\ d \notin refresh[p].dropped
      BY <1>1, <2>1 DEF Underway, Update
    <3> QED
      BY <1>1, <2>1, <3>1 DEF Underway
  <2>4. /\ \A d \in Files \ (Update(p) \cup Delete(p) \cup untrue) :
             Required(p)[d] # 0 => schemas'[d] = Required(p)[d]
        /\ \A d \in Delete(p) \ refresh[p].todo : schemas'[d] = 0
    BY <1>1, <2>1, <2>2 DEF Underway, Delete
  <2> QED
    BY <1>1, <1>3, <2>1, <2>3, <2>4 DEF Underway
<1> QED
  BY <1>2, <1>4, <1>5 DEF SafeInv

LEMMA SaveKeeps ==
  ASSUME IInv, NEW p \in Refreshers, SaveConnectionState(p)
  PROVE  SafeInv'
<1>1. /\ Others(p) /\ refresh'[p].at = "paths" /\ refresh'[p].overlaps = refresh[p].overlaps
      /\ refresh'[p].current = refresh[p].current /\ refresh'[p].failed = refresh[p].failed
      /\ refresh[p].at = "execute" /\ refresh[p].todo = {} /\ refresh[p].dropped = {}
      /\ manager' = manager /\ globalConfig' = globalConfig
      /\ schemas' = schemas /\ stateFile' = Required(p)
      /\ untrue' = IF refresh[p].overlaps THEN Files
                   ELSE (untrue \ Update(p)) \cup (refresh[p].failed \cap Schemas)
  <2>1. TypeOK
    BY DEF IInv
  <2>2. /\ refresh[p].at = "execute" /\ refresh[p].todo = {} /\ refresh[p].dropped = {}
        /\ manager' = manager /\ globalConfig' = globalConfig
        /\ schemas' = schemas /\ stateFile' = Required(p)
        /\ untrue' = IF refresh[p].overlaps THEN Files
                     ELSE (untrue \ Update(p)) \cup (refresh[p].failed \cap Schemas)
    BY DEF SaveConnectionState, processVars
  <2> QED
    BY <2>1, <2>2, SaveEffect
<1>2. /\ AloneInv' /\ ManagerInv'
      /\ \A q \in Refreshers : Alone(q)' => q = p /\ Alone(p)
      /\ \A q \in Refreshers : refresh'[q].at = "paths" /\ ~refresh'[q].overlaps => q = p
  BY <1>1, GoesOn DEF Active
<1>3. Required(p)' = Required(p) /\ Update(p)' = Update(p) /\ Delete(p)' = Delete(p)
  BY <1>1 DEF Required, Update, Delete
<1>4. ~refresh[p].overlaps => Underway(p)
  BY <1>1 DEF IInv, ExecuteInv, Alone, Active
<1>5. ASSUME ~refresh[p].overlaps, NEW c \in Files, c \notin untrue', schemas[c] # 0,
             Required(p)[c] # 0
      PROVE  schemas[c] = Required(p)[c]
  <2>1. c \notin Delete(p)
    BY <1>5 DEF Delete
  <2>2. CASE c \in Update(p)
    BY <1>1, <1>4, <1>5, <2>2 DEF Underway, Schemas
  <2>3. CASE c \notin Update(p)
    BY <1>1, <1>4, <1>5, <2>1, <2>3 DEF Underway
  <2> QED
    BY <2>2, <2>3
<1>6. TornInv'
  BY <1>1, <1>5 DEF TornInv, Torn
<1>7. PlanInv' /\ ExecuteInv'
  BY <1>1, <1>2 DEF PlanInv, ExecuteInv
<1>8. RefreshApplied'
  <2> SUFFICES ASSUME ~refresh[p].overlaps
               PROVE  /\ \A c \in Files \ (refresh[p].failed \cup untrue') :
                           Required(p)[c] # 0 => schemas[c] = Required(p)[c]
                      /\ \A c \in Files :
                           Required(p)[c] = 0 /\ refresh[p].current[c] # 0 => schemas[c] = 0
    BY <1>1, <1>2, <1>3 DEF RefreshApplied
  <2>1. Underway(p)
    BY <1>4
  <2>2. ASSUME NEW c \in Files \ (refresh[p].failed \cup untrue'), Required(p)[c] # 0
        PROVE  schemas[c] = Required(p)[c]
    <3>1. CASE c \in Update(p)
      BY <1>1, <2>1, <2>2, <3>1 DEF Underway
    <3>2. CASE c \notin Update(p)
      BY <1>1, <2>1, <2>2, <3>2 DEF Underway, Delete
    <3> QED
      BY <3>1, <3>2
  <2>3. \A c \in Files : Required(p)[c] = 0 /\ refresh[p].current[c] # 0 => schemas[c] = 0
    BY <1>1, <2>1 DEF Underway, Delete
  <2> QED
    BY <2>2, <2>3
<1> QED
  BY <1>2, <1>6, <1>7, <1>8 DEF SafeInv

LEMMA SafeStep ==
  ASSUME IInv, [Next]_vars
  PROVE  SafeInv'
<1>u. untrue \subseteq Files /\ Torn \subseteq Files
  BY Typed DEF IInv, Torn
<1>m. ASSUME UNCHANGED <<manager, globalConfig, refresh>>, UNCHANGED dbVars PROVE SafeInv'
  BY <1>m, CalmKeeps DEF dbVars, IInv, ManagerInv, Active
<1>1. CASE ChangeConfig
  BY <1>1, <1>m DEF ChangeConfig
<1>2. CASE (Watch \/ HandlerStarts) /\ UNCHANGED <<processVars, dbVars, refresh>>
  BY <1>2, <1>m DEF processVars
<1>3. CASE IgnoreFirstEvent
  BY <1>3, <1>m DEF IgnoreFirstEvent
<1>4. CASE manager.up /\ WatcherRefreshes
  <2>1. manager'.up
    BY <1>4, Typed DEF WatcherRefreshes, IInv
  <2> QED
    BY <1>4, <2>1, BeginKeeps DEF WatcherRefreshes, Refreshers
<1>5. CASE WatcherHasNoClient
  <2>1. \A p \in Refreshers : Active(p)' => p # "watcher" /\ globalConfig'[p] = globalConfig[p]
    BY <1>5, Typed DEF WatcherHasNoClient, IInv, Active
  <2> QED
    BY <1>5, <2>1, CalmKeeps DEF WatcherHasNoClient, dbVars, Refreshers, Active
<1>6. CASE CommandRefreshes
  <2>1. ASSUME Active("watcher") PROVE manager'.up
    BY <1>6, <2>1 DEF CommandRefreshes, IInv, ManagerInv
  <2> QED
    BY <1>6, <2>1, BeginKeeps DEF CommandRefreshes, Refreshers
<1>7. ASSUME NEW p \in Refreshers, NoPlugins(p) PROVE SafeInv'
  <2>1. /\ schemas' = schemas /\ stateFile' = stateFile /\ globalConfig' = globalConfig
        /\ refresh[p].at = "plugins"
    BY <1>7 DEF NoPlugins
  <2>2. /\ \A q \in Refreshers : refresh'[q] = refresh[q] \/ refresh'[q].at = "idle"
        /\ refresh'[p].at = "idle"
        /\ \/ Others(p) /\ untrue' = untrue /\ manager'.up = manager.up
           \/ /\ \A q \in Refreshers \ {"watcher", p} : refresh'[q] = refresh[q]
              /\ refresh'["watcher"].at = "idle"
              /\ untrue' = IF Active("watcher") THEN Files ELSE untrue
    BY <1>7, NoPluginsEffect DEF IInv
  <2>3. untrue \subseteq untrue'
    BY <1>u, <2>2
  <2>4. Active("watcher")' => manager'.up
    BY <2>2 DEF IInv, ManagerInv, Others, Active, Refreshers
  <2>5. (\E q \in Refreshers : refresh[q].at = "execute" /\ ~Active(q)') => Torn \subseteq untrue'
    BY <1>u, <2>1, <2>2 DEF Others, Active
  <2>6. \A q \in Refreshers : Active(q)' => refresh'[q] = refresh[q] /\ globalConfig'[q] = globalConfig[q]
    BY <2>1, <2>2 DEF Active
  <2> QED
    BY <2>1, <2>3, <2>4, <2>5, <2>6, CalmKeeps
<1>8. ASSUME NEW p \in Refreshers, SetSearchPath(p) \/ StatementFails(p) PROVE SafeInv'
  <2>1. /\ End(p) /\ schemas' = schemas /\ stateFile' = stateFile /\ globalConfig' = globalConfig
        /\ manager' = manager /\ refresh[p].at \in {"paths", "execute"}
    BY <1>8 DEF SetSearchPath, StatementFails, processVars
  <2>2. refresh'[p].at = "idle" /\ Others(p)
    BY <2>1, EndEffect DEF IInv
  <2>3. untrue \subseteq untrue' /\ (refresh[p].at = "execute" => Torn \subseteq untrue')
    BY <1>8, <1>u DEF SetSearchPath, StatementFails
  <2>4. Active("watcher")' => manager'.up
    BY <2>1, <2>2 DEF IInv, ManagerInv, Others, Active, Refreshers
  <2>5. (\E q \in Refreshers : refresh[q].at = "execute" /\ ~Active(q)') => Torn \subseteq untrue'
    BY <2>2, <2>3 DEF Others, Active
  <2>6. \A q \in Refreshers : Active(q)' => refresh'[q] = refresh[q] /\ globalConfig'[q] = globalConfig[q]
    BY <2>1, <2>2 DEF Active, Others
  <2> QED
    BY <2>1, <2>3, <2>4, <2>5, <2>6, CalmKeeps
<1>9. CASE UNCHANGED vars
  BY <1>9, <1>m DEF vars, processVars
<1> QED
  BY StepCases, <1>1, <1>2, <1>3, <1>4, <1>5, <1>6, <1>7, <1>8, <1>9, LoadStateKeeps,
     CreatePluginsKeeps, DropSchemaKeeps, ImportSchemaKeeps, SaveKeeps

LEMMA InitInv == Init => IInv
<1> SUFFICES ASSUME Init PROVE IInv
  OBVIOUS
<1>1. \A p \in Refreshers : refresh[p] = NoRefresh /\ refresh[p].at = "idle"
  BY NoRefreshType DEF Init
<1>2. Torn = {}
  BY DEF Init, Torn
<1> QED
  BY <1>1, <1>2, InitTyped
     DEF IInv, AloneInv, ManagerInv, TornInv, PlanInv, ExecuteInv, RefreshApplied, Alone, Active, Refreshers

LEMMA InvCorrect == Spec => []IInv
<1>1. IInv /\ [Next]_vars => IInv'
  BY TypeStep, SafeStep DEF IInv, SafeInv
<1> QED
  BY InitInv, <1>1, PTL DEF Spec

(* StateFileTrueCorrect: while no process refreshes the connections, a     *)
(* schema that is not the one the state file names is one that a recorded  *)
(* accident has left behind.                                               *)
THEOREM StateFileTrueCorrect == Spec => []StateFileTrue
<1>1. IInv => StateFileTrue
  BY DEF IInv, TornInv, StateFileTrue, Active
<1> QED
  BY InvCorrect, <1>1, PTL

(* RefreshAppliedCorrect: a refresh that nobody overlaps with leaves the   *)
(* schemas its config asks for, whatever the config files become meanwhile.*)
THEOREM RefreshAppliedCorrect == Spec => []RefreshApplied
<1>1. IInv => RefreshApplied
  BY DEF IInv
<1> QED
  BY InvCorrect, <1>1, PTL
=============================================================================
