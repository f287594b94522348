------------------------------ MODULE FileWatcher ------------------------------
(***************************************************************************)
(* The file watcher (utils/file_watcher.go): a goroutine takes the events  *)
(* of the files it watches and looks every few seconds for files it does   *)
(* not watch yet; an event schedules a handler, which runs in a goroutine  *)
(* of its own after a short pause and handles every event that came before *)
(* it ran.  What the handler does is left to the module that extends this  *)
(* one: the reload of the connection config is that of ConnectionRefresh.  *)
(*                                                                         *)
(* Timing: the pause before the handler runs (handlerDelay) is longer than *)
(* the time addWatch takes to add the watch it has announced.              *)
(***************************************************************************)
EXTENDS Integers, FiniteSets

CONSTANTS
  Files,        \* the files that meet the inclusions and exclusions
  FirstFiles,   \* those that exist when the watcher starts
  MaxChanges    \* bound: changes of the files

ASSUME FileWatcherAssumption == FirstFiles \subseteq Files /\ MaxChanges \in Nat

VARIABLES
  disk,     \* the version of each file, 0 when there is none
  changes,  \* how many changes the files have seen
  watches,  \* w.watches: the files the watcher takes to be watched
  inotify,  \* the files the kernel watches
  queue,    \* the events of the kernel
  loop,     \* where the goroutine of the watcher is
  event,    \* the event it is at
  handler   \* the handler: not scheduled, scheduled, or running

diskVars == <<disk, changes>>
watcherVars == <<watches, inotify, queue, loop, event, handler>>
fileWatcherVars == <<diskVars, watcherVars>>

NoEvent == [file |-> "none", op |-> "none"]
Event(f, op) == [file |-> f, op |-> op]

Existing == {f \in Files : disk[f] # 0}

FileWatcherInit ==
  /\ disk = [f \in Files |-> IF f \in FirstFiles THEN 1 ELSE 0]
  /\ changes = 0
  /\ watches = Existing
  /\ inotify = watches
  /\ queue = {}
  /\ loop = "idle"
  /\ event = NoEvent
  /\ handler = IF watches = {} THEN "none" ELSE "scheduled"

-----------------------------------------------------------------------------
(* The files.                                                              *)

\* A file is written in place, ...
Write(f) ==
  /\ disk[f] # 0
  /\ disk' = [disk EXCEPT ![f] = changes + 2]
  /\ queue' = IF f \in inotify THEN queue \cup {Event(f, "Write")} ELSE queue
  /\ UNCHANGED inotify

\* ... replaced by another one of that name, as editors do, ...
Replace(f) ==
  /\ disk[f] # 0
  /\ disk' = [disk EXCEPT ![f] = changes + 2]
  /\ queue' = IF f \in inotify THEN queue \cup {Event(f, "Remove")} ELSE queue
  /\ inotify' = inotify \ {f}

\* ... removed, ...
Remove(f) ==
  /\ disk[f] # 0
  /\ disk' = [disk EXCEPT ![f] = 0]
  /\ queue' = IF f \in inotify THEN queue \cup {Event(f, "Remove")} ELSE queue
  /\ inotify' = inotify \ {f}

\* ... or created, of which the kernel says nothing: directories are not watched.
Create(f) ==
  /\ disk[f] = 0
  /\ disk' = [disk EXCEPT ![f] = changes + 2]
  /\ UNCHANGED <<queue, inotify>>

ChangeFile ==
  /\ changes < MaxChanges
  /\ changes' = changes + 1
  /\ \E f \in Files : Write(f) \/ Replace(f) \/ Remove(f) \/ Create(f)
  /\ UNCHANGED <<watches, loop, event, handler>>

-----------------------------------------------------------------------------
(* Start: addWatches has announced the files that exist, and watches them. *)
StartWatcher ==
  /\ watches' = Existing
  /\ inotify' = Existing
  /\ queue' = {}
  /\ loop' = "idle"
  /\ event' = NoEvent
  /\ handler' = IF Existing = {} THEN "none" ELSE "scheduled"

(* The goroutine of the watcher.                                           *)

(* addWatches, every pollInterval: a file that is not watched is announced *)
(* as created ...                                                          *)
Poll ==
  /\ loop = "idle"
  /\ \E f \in Files \ watches :
       /\ disk[f] # 0
       /\ event' = Event(f, "Create")
  /\ loop' = "schedule"
  /\ UNCHANGED <<diskVars, watches, inotify, queue, handler>>

TakeEvent ==
  /\ loop = "idle"
  /\ \E e \in queue :
       /\ event' = e
       /\ queue' = queue \ {e}
  /\ loop' = "schedule"
  /\ UNCHANGED <<diskVars, watches, inotify, handler>>

\* Mutant: a handler that runs is taken for one that is scheduled.
MutScheduleHandler ==
  /\ loop = "schedule"
  /\ handler' = IF handler = "none" THEN "scheduled" ELSE handler
  /\ IF event.op = "Create"
     THEN loop' = "add" /\ UNCHANGED <<watches, event>>
     ELSE /\ loop' = "idle"
          /\ event' = NoEvent
          /\ watches' = IF event.op = "Remove" THEN watches \ {event.file} ELSE watches
  /\ UNCHANGED <<diskVars, inotify, queue>>

(* scheduleHandler waits for the handlerLock, which a running handler      *)
(* holds.  A file that was removed is not watched any more.                *)
ScheduleHandler ==
  /\ loop = "schedule"
  /\ handler # "running"
  /\ handler' = "scheduled"
  /\ IF event.op = "Create"
     THEN loop' = "add" /\ UNCHANGED <<watches, event>>
     ELSE /\ loop' = "idle"
          /\ event' = NoEvent
          /\ watches' = IF event.op = "Remove" THEN watches \ {event.file} ELSE watches
  /\ UNCHANGED <<diskVars, inotify, queue>>

\* Mutant: the goroutine keeps the event it has handled.
MutAddWatch ==
  /\ loop = "add"
  /\ IF disk[event.file] # 0
     THEN /\ inotify' = inotify \cup {event.file}
          /\ watches' = watches \cup {event.file}
     ELSE UNCHANGED <<inotify, watches>>
  /\ loop' = "idle"
  /\ UNCHANGED <<diskVars, event, queue, handler>>

(* ... and then watched, if it still exists.                               *)
AddWatch ==
  /\ loop = "add"
  /\ IF disk[event.file] # 0
     THEN /\ inotify' = inotify \cup {event.file}
          /\ watches' = watches \cup {event.file}
     ELSE UNCHANGED <<inotify, watches>>
  /\ loop' = "idle"
  /\ event' = NoEvent
  /\ UNCHANGED <<diskVars, queue, handler>>

-----------------------------------------------------------------------------
(* The goroutine of the handler, which holds the handlerLock to its end.   *)

HandlerStarts ==
  /\ handler = "scheduled"
  /\ loop # "add"
  /\ handler' = "running"
  /\ UNCHANGED <<diskVars, watches, inotify, queue, loop, event>>

HandlerEnds ==
  /\ handler = "running"
  /\ handler' = "none"
  /\ UNCHANGED <<diskVars, watches, inotify, queue, loop, event>>

Watch == Poll \/ TakeEvent \/ ScheduleHandler \/ AddWatch

-----------------------------------------------------------------------------

FileWatcherTypeOK ==
  /\ disk \in [Files -> 0..MaxChanges + 2]
  /\ changes \in 0..MaxChanges
  /\ inotify \cup watches \subseteq Files
  /\ queue \subseteq [file : Files, op : {"Write", "Remove"}]
  /\ loop \in {"idle", "schedule", "add"}
  /\ event \in {NoEvent} \cup [file : Files, op : {"Create", "Write", "Remove"}]
  /\ loop = "idle" <=> event = NoEvent
  /\ handler \in {"none", "scheduled", "running"}
=============================================================================
