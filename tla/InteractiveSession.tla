--------------------------- MODULE InteractiveSession ---------------------------
(***************************************************************************)
(* `steampipe query` with its prompt: the initialisation in the background *)
(* (query.InitData), the prompt and the goroutines around it (interactive),*)
(* the execution of a query and the reading of its rows in a session of    *)
(* the database client (db_client), and the display of the result          *)
(* (queryexecute, queryresult, display).                                   *)
(*                                                                         *)
(* The client of this command has one connection (max-parallel is set to   *)
(* 1), so that whoever does not give it back stops everybody else.  What a *)
(* line asks for is abstracted to its kind.                                *)
(***************************************************************************)
EXTENDS Integers

CONSTANTS
  Lines,      \* the kinds of lines the user may enter
  MaxLines,   \* bound: lines entered
  MaxRows     \* bound: rows of a result

ASSUME SessionAssumption ==
  /\ Lines \subseteq {"empty", "partial", "exit", "setting", "searchPath", "query"}
  /\ MaxLines \in Nat /\ MaxRows \in Nat

VARIABLES
  init,          \* the goroutine of InitData.init; "loaded": Loaded is closed
  cancelInit,    \* its context is cancelled
  initError,     \* Result.Error is set
  client,        \* the database client
  stream,        \* the goroutine of readInitDataStream
  initResult,    \* initResultChan holds the result
  schema,        \* the goroutine of LoadSchema; "loaded": schemaMetadata is set
  main,          \* the goroutine of InteractivePrompt
  prompt,        \* the goroutine of runInteractivePrompt and its executor
  line,          \* the line it executes
  lines,         \* how many lines were entered
  cancelPrompt,  \* the context of the prompt is cancelled
  afterClose,    \* c.afterClose
  executionLock, \* the executor holds it
  cancelActive,  \* c.cancelActiveQuery is set
  cancelled,     \* the context of the last query is cancelled
  interrupt,     \* the goroutine that waits for SIGINT
  conn,          \* who holds the connection
  rows,          \* the goroutine of readRows, and the rows it has still to read
  duration,      \* result.Duration holds a duration
  timing,        \* durations are shown
  results,       \* the channel of results holds one
  display,       \* the goroutine that shows results
  crashed        \* a panic has ended the process

initVars == <<init, cancelInit, initError, client>>
streamVars == <<stream, initResult, schema>>
promptVars == <<prompt, line, lines, cancelPrompt, afterClose, executionLock>>
cancelVars == <<cancelActive, cancelled, interrupt>>
resultVars == <<conn, rows, duration, timing, results, display>>
vars == <<initVars, streamVars, main, promptVars, cancelVars, resultVars, crashed>>

NoRows == [at |-> "none", left |-> 0, failed |-> FALSE]

Initialised == client # "none" /\ schema = "loaded"

Init ==
  /\ init = "client"
  /\ cancelInit = FALSE
  /\ initError = FALSE
  /\ client = "none"
  /\ stream = "wait"
  /\ initResult = FALSE
  /\ schema = "none"
  /\ main = "select"
  /\ prompt = "read"
  /\ line = "none"
  /\ lines = 0
  /\ cancelPrompt = FALSE
  /\ afterClose = "exit"
  /\ executionLock = FALSE
  /\ cancelActive = FALSE
  /\ cancelled = FALSE
  /\ interrupt = "wait"
  /\ conn = "none"
  /\ rows = NoRows
  /\ duration = FALSE
  /\ timing \in BOOLEAN
  /\ results = FALSE
  /\ display = "idle"
  /\ crashed = FALSE

-----------------------------------------------------------------------------
(* The initialisation.                                                     *)

(* init: a client; then the plugins, the queries of the arguments, the     *)
(* connections and a first session.  Any of it may fail.                   *)
InitClient ==
  /\ init = "client"
  /\ \/ /\ init' = "prepare" /\ client' = "open"
        /\ UNCHANGED initError
     \/ /\ init' = "loaded" /\ initError' = TRUE
        /\ UNCHANGED client
  /\ UNCHANGED <<cancelInit, streamVars, main, promptVars, cancelVars, resultVars, crashed>>

InitPrepare ==
  /\ init = "prepare"
  /\ init' = "loaded"
  /\ initError' \in {TRUE, cancelInit}
  /\ UNCHANGED <<cancelInit, client, streamVars, main, promptVars, cancelVars, resultVars, crashed>>

(* readInitDataStream *)
StreamInit ==
  /\ stream = "wait"
  /\ init = "loaded"
  /\ IF initError
     THEN stream' = "sent" /\ initResult' = TRUE /\ UNCHANGED schema
     ELSE stream' = "watch" /\ schema' = "connect" /\ UNCHANGED initResult
  /\ UNCHANGED <<initVars, main, promptVars, cancelVars, resultVars, crashed>>

(* The watcher of the workspace, if one is wanted, may fail as well. *)
SetupWatcher ==
  /\ stream = "watch"
  /\ stream' = "sent"
  /\ initError' \in BOOLEAN
  /\ initResult' = TRUE
  /\ UNCHANGED <<init, cancelInit, client, schema, main, promptVars, cancelVars, resultVars, crashed>>

(* LoadSchema, which nobody asks for its error.  GetSchemaFromDB fails     *)
(* without a connection by a panic, and keeps the connection when its      *)
(* query fails.                                                            *)
SchemaConnect ==
  /\ schema = "connect"
  /\ IF client = "open"
     THEN /\ conn = "none"
          /\ conn' = "schema" /\ schema' = "query"
          /\ UNCHANGED crashed
     ELSE /\ client = "closed"
          /\ crashed' = TRUE
          /\ UNCHANGED <<conn, schema>>
  /\ UNCHANGED <<initVars, stream, initResult, main, promptVars, cancelVars, rows, duration, timing,
                 results, display>>

SchemaQuery ==
  /\ schema = "query"
  /\ \/ schema' = "searchPath" /\ conn' = "none"
     \/ schema' = "failed" /\ UNCHANGED conn
  /\ UNCHANGED <<initVars, stream, initResult, main, promptVars, cancelVars, rows, duration, timing,
                 results, display, crashed>>

(* A session for the search path: writing it to the map of sessions panics *)
(* when Close has cleared the map.                                         *)
SchemaSearchPath ==
  /\ schema = "searchPath"
  /\ \/ /\ client = "open" /\ conn = "none"
        /\ schema' \in {"loaded", "failed"}
        /\ UNCHANGED crashed
     \/ /\ client = "closing"
        /\ crashed' = TRUE
        /\ UNCHANGED schema
     \/ /\ client = "closed"
        /\ schema' = "failed"
        /\ UNCHANGED crashed
  /\ UNCHANGED <<initVars, stream, initResult, main, promptVars, cancelVars, resultVars>>

-----------------------------------------------------------------------------
(* The user.                                                               *)

Enter ==
  /\ prompt = "read"
  /\ lines < MaxLines
  /\ lines' = lines + 1
  /\ line' \in Lines
  /\ prompt' = "lock"
  /\ UNCHANGED <<initVars, streamVars, main, cancelPrompt, afterClose, executionLock,
                 cancelVars, resultVars, crashed>>

CtrlD ==
  /\ prompt = "read"
  /\ afterClose' = "exit"
  /\ prompt' = "returned"
  /\ UNCHANGED <<initVars, streamVars, main, line, lines, cancelPrompt, executionLock,
                 cancelVars, resultVars, crashed>>

(* An interrupt, while a line is executed.  The handler waits for one      *)
(* interrupt only: "any subsequent interrupts hits will be ignored".       *)
CtrlC ==
  /\ prompt \notin {"read", "returned"}
  /\ interrupt = "wait"
  /\ interrupt' = IF cancelActive THEN "cancel" ELSE "over"
  /\ UNCHANGED <<initVars, streamVars, main, promptVars, cancelActive, cancelled, resultVars,
                 crashed>>

(* cancelActiveQueryIfAny has seen a function to call; by now the executor *)
(* may have called and reset it.                                           *)
CancelActiveQuery ==
  /\ interrupt = "cancel"
  /\ interrupt' = "over"
  /\ IF cancelActive
     THEN cancelActive' = FALSE /\ cancelled' = TRUE /\ UNCHANGED crashed
     ELSE crashed' = TRUE /\ UNCHANGED <<cancelActive, cancelled>>
  /\ UNCHANGED <<initVars, streamVars, main, promptVars, resultVars>>

-----------------------------------------------------------------------------
(* The executor, which holds the executionLock until the prompt restarts.  *)

Step(from, to) ==
  /\ prompt = from
  /\ prompt' = to

TakeLock ==
  /\ Step("lock", "getQuery")
  /\ ~executionLock
  /\ executionLock' = TRUE
  /\ afterClose' = "restart"
  /\ UNCHANGED <<initVars, streamVars, main, line, lines, cancelPrompt, cancelVars, resultVars,
                 crashed>>

\* Mutant: an empty line ends the executor without the restart.
MutEmptyLine ==
  /\ Step("getQuery", "read")
  /\ line = "empty"
  /\ UNCHANGED <<initVars, streamVars, main, line, lines, cancelPrompt, afterClose, executionLock,
                 cancelVars, resultVars, crashed>>

(* getQuery *)
EmptyLine ==
  /\ Step("getQuery", "restart")
  /\ line = "empty"
  /\ UNCHANGED <<initVars, streamVars, main, line, lines, cancelPrompt, afterClose, executionLock,
                 cancelVars, resultVars, crashed>>

GetQuery ==
  /\ line # "empty"
  /\ IF Initialised
     THEN Step("getQuery", "resolve") /\ UNCHANGED <<cancelActive, cancelled>>
     ELSE Step("getQuery", "init") /\ cancelActive' = TRUE /\ cancelled' = FALSE
  /\ UNCHANGED <<initVars, streamVars, main, line, lines, cancelPrompt, afterClose, executionLock,
                 interrupt, resultVars, crashed>>

(* waitForInitData: its timeout starts again with every tick of its ticker *)
(* and never passes.                                                       *)
InitArrives ==
  /\ Initialised
  /\ Step("init", IF initError THEN "restart" ELSE "resolve")
  /\ cancelActive' = FALSE
  /\ UNCHANGED <<initVars, streamVars, main, line, lines, cancelPrompt, afterClose, executionLock,
                 cancelled, interrupt, resultVars, crashed>>

InitWaitCancelled ==
  /\ Step("init", "restart")
  /\ cancelled \/ cancelPrompt
  /\ cancelActive' = FALSE
  /\ UNCHANGED <<initVars, streamVars, main, line, lines, cancelPrompt, afterClose, executionLock,
                 cancelled, interrupt, resultVars, crashed>>

(* A line that is not a whole query restarts the prompt, and with it the   *)
(* buffer of the lines so far: a query never has more than one line.       *)
Resolve ==
  /\ IF line = "partial"
     THEN Step("resolve", "restart") /\ UNCHANGED <<cancelActive, cancelled>>
     ELSE Step("resolve", "execute") /\ cancelActive' = TRUE /\ cancelled' = cancelPrompt
  /\ UNCHANGED <<initVars, streamVars, main, line, lines, cancelPrompt, afterClose, executionLock,
                 interrupt, resultVars, crashed>>

(* executeMetaquery: what only changes a setting, and .exit ... *)
ExecuteSetting ==
  /\ Step("execute", "restart")
  /\ line \in {"setting", "exit"}
  /\ afterClose' = IF line = "exit" THEN "exit" ELSE afterClose
  /\ cancelActive' = FALSE
  /\ UNCHANGED <<initVars, streamVars, main, line, lines, cancelPrompt, executionLock, cancelled,
                 interrupt, resultVars, crashed>>

(* ... and what runs a query of its own and waits for all of it.  When the *)
(* rows are cancelled before they are read there is no duration to receive.*)
ExecuteSync ==
  /\ line = "searchPath"
  /\ \/ Step("execute", "restart") /\ (conn = "none" \/ cancelled)
     \/ Step("execute", "hung") /\ conn = "none" /\ cancelled
  /\ cancelActive' = IF prompt' = "hung" THEN cancelActive ELSE FALSE
  /\ UNCHANGED <<initVars, streamVars, main, line, lines, cancelPrompt, afterClose, executionLock,
                 cancelled, interrupt, resultVars, crashed>>

(* Execute: a session, once the connection is free ... *)
AcquireSession ==
  /\ line = "query"
  /\ \/ Step("execute", "start") /\ conn = "none" /\ conn' = "query"
     \/ Step("execute", "restart") /\ (conn = "none" \/ cancelled) /\ UNCHANGED conn
  /\ UNCHANGED <<initVars, streamVars, main, line, lines, cancelPrompt, afterClose, executionLock,
                 cancelVars, rows, duration, timing, results, display, crashed>>

(* ... the query in it, whose rows another goroutine reads; the session of *)
(* a query that fails is closed.                                           *)
StartQuery ==
  /\ \/ /\ Step("start", "stream")
        /\ \E n \in 0..MaxRows : rows' = [at |-> "columns", left |-> n, failed |-> FALSE]
        /\ duration' = FALSE
        /\ UNCHANGED conn
     \/ /\ Step("start", "restart")
        /\ conn' = "none"
        /\ UNCHANGED <<rows, duration>>
  /\ UNCHANGED <<initVars, streamVars, main, line, lines, cancelPrompt, afterClose, executionLock,
                 cancelVars, timing, results, display, crashed>>

(* StreamResult: the result is sent, and all of it read. *)
SendResult ==
  /\ Step("stream", "wait")
  /\ ~results
  /\ results' = TRUE
  /\ UNCHANGED <<initVars, streamVars, main, line, lines, cancelPrompt, afterClose, executionLock,
                 cancelVars, conn, rows, duration, timing, display, crashed>>

\* Mutant: the executor goes on when the result has been taken.
MutResultRead ==
  /\ Step("wait", "restart")
  /\ ~results
  /\ display' = IF display = "received" THEN "idle" ELSE display
  /\ UNCHANGED <<initVars, streamVars, main, line, lines, cancelPrompt, afterClose, executionLock,
                 cancelVars, conn, rows, duration, timing, results, crashed>>

ResultRead ==
  /\ Step("wait", "restart")
  /\ display = "received"
  /\ display' = "idle"
  /\ UNCHANGED <<initVars, streamVars, main, line, lines, cancelPrompt, afterClose, executionLock,
                 cancelVars, conn, rows, duration, timing, results, crashed>>

\* Mutant: the lock is not released.
MutRestart ==
  /\ Step("restart", "closing")
  /\ cancelPrompt' = TRUE
  /\ UNCHANGED <<initVars, streamVars, main, line, lines, afterClose, executionLock, cancelVars,
                 resultVars, crashed>>

(* restartInteractiveSession *)
Restart ==
  /\ Step("restart", "closing")
  /\ cancelPrompt' = TRUE
  /\ executionLock' = FALSE
  /\ UNCHANGED <<initVars, streamVars, main, line, lines, afterClose, cancelVars, resultVars,
                 crashed>>

(* The prompt returns when its context is cancelled and it executes nothing. *)
PromptReturns ==
  /\ prompt \in {"read", "closing"}
  /\ cancelPrompt
  /\ prompt' = "returned"
  /\ UNCHANGED <<initVars, streamVars, main, line, lines, cancelPrompt, afterClose, executionLock,
                 cancelVars, resultVars, crashed>>

-----------------------------------------------------------------------------
(* readRows: a row, or an error, is sent to a channel without a buffer.    *)

Reading == <<initVars, streamVars, main, promptVars, cancelVars, timing, results, crashed>>

(* The columns of rows that are closed already are an error ... *)
ReadColumns ==
  /\ rows.at = "columns"
  /\ \/ rows' = [rows EXCEPT !.at = "next"]
     \/ cancelled /\ \E failed \in BOOLEAN : rows' = [rows EXCEPT !.at = "defer", !.failed = failed]
  /\ UNCHANGED <<Reading, conn, duration, display>>

StreamRow ==
  /\ rows.at = "next"
  /\ rows.left > 0
  /\ display = "show"
  /\ rows' = [rows EXCEPT !.left = @ - 1]
  /\ UNCHANGED <<Reading, conn, duration, display>>

(* ... as is a row that cannot be read; the display stops at an error.     *)
(* Rows that are cancelled while one is read have an error of their own.   *)
StreamError ==
  /\ rows.at = "next"
  /\ rows.left > 0
  /\ display = "show"
  /\ display' = "shown"
  /\ \E failed \in {FALSE, cancelled} : rows' = [rows EXCEPT !.at = "defer", !.failed = failed]
  /\ duration' = TRUE
  /\ UNCHANGED <<Reading, conn>>

(* No more rows, of a result that is complete, failed or is cancelled. *)
LastRow ==
  /\ rows.at = "next"
  /\ \E failed \in BOOLEAN :
       /\ ~failed => rows.left = 0 \/ cancelled
       /\ rows' = [rows EXCEPT !.at = "defer", !.failed = failed]
  /\ duration' = TRUE
  /\ UNCHANGED <<Reading, conn, display>>

(* The deferred function sends the error of the rows, and closes the       *)
(* channel.                                                                *)
CloseRows ==
  /\ rows.at = "defer"
  /\ IF rows.failed
     THEN display = "show" /\ display' = "shown"
     ELSE UNCHANGED display
  /\ rows' = [rows EXCEPT !.at = "close"]
  /\ UNCHANGED <<Reading, conn, duration>>

CloseSession ==
  /\ rows.at = "close"
  /\ rows' = NoRows
  /\ conn' = "none"
  /\ UNCHANGED <<Reading, duration, display>>

(* RunInteractiveSession *)
ShowResult ==
  /\ display = "idle"
  /\ results
  /\ display' = "show"
  /\ results' = FALSE
  /\ UNCHANGED <<initVars, streamVars, main, promptVars, cancelVars, conn, rows, duration, timing,
                 crashed>>

ShowEnd ==
  /\ display = "show"
  /\ rows.at \in {"close", "none"}
  /\ display' = "shown"
  /\ UNCHANGED <<Reading, conn, rows, duration>>

AllResultsRead ==
  /\ display = "shown"
  /\ timing => duration
  /\ display' = "received"
  /\ duration' = IF timing THEN FALSE ELSE duration
  /\ UNCHANGED <<Reading, conn, rows>>

-----------------------------------------------------------------------------
(* InteractivePrompt: its loop, and what it defers.                        *)

ReceiveInitResult ==
  /\ main = "select"
  /\ initResult
  /\ initResult' = FALSE
  /\ main' = "handle"
  /\ UNCHANGED <<initVars, stream, schema, promptVars, cancelVars, resultVars, crashed>>

(* handleInitResult waits for the executor; a prompt that has restarted in *)
(* the meantime is told nothing.                                           *)
HandleInitResult ==
  /\ main = "handle"
  /\ ~executionLock
  /\ main' = "select"
  /\ IF initError /\ ~cancelPrompt
     THEN afterClose' = "exit" /\ cancelPrompt' = TRUE
     ELSE UNCHANGED <<afterClose, cancelPrompt>>
  /\ UNCHANGED <<initVars, streamVars, prompt, line, lines, executionLock, cancelVars, resultVars,
                 crashed>>

RestartOrExit ==
  /\ main = "select"
  /\ prompt = "returned"
  /\ IF afterClose = "exit"
     THEN main' = "cleanup" /\ UNCHANGED <<prompt, cancelPrompt>>
     ELSE prompt' = "read" /\ cancelPrompt' = FALSE /\ UNCHANGED main
  /\ UNCHANGED <<initVars, streamVars, line, lines, afterClose, executionLock, cancelVars,
                 resultVars, crashed>>

Finishing == <<streamVars, promptVars, cancelVars, resultVars>>

(* Cleanup: an initialisation under way is cancelled.  By the time its     *)
(* cancel function is called it may have been reset.                       *)
Cleanup ==
  /\ main = "cleanup"
  /\ main' = IF init = "loaded" THEN "wait" ELSE "cancel"
  /\ UNCHANGED <<Finishing, initVars, crashed>>

CancelInit ==
  /\ main = "cancel"
  /\ IF init = "loaded"
     THEN crashed' = TRUE /\ UNCHANGED <<main, cancelInit>>
     ELSE cancelInit' = TRUE /\ main' = "wait" /\ UNCHANGED crashed
  /\ UNCHANGED <<Finishing, init, initError, client>>

\* Mutant: Cleanup does not wait for the initialisation it has cancelled.
MutWaitLoaded ==
  /\ main = "wait"
  /\ main' = IF client = "none" THEN "closed" ELSE "close"
  /\ UNCHANGED <<Finishing, initVars, crashed>>

WaitLoaded ==
  /\ main = "wait"
  /\ init = "loaded"
  /\ main' = IF client = "none" THEN "closed" ELSE "close"
  /\ UNCHANGED <<Finishing, initVars, crashed>>

(* The client clears its sessions and then closes its connections. *)
CloseClient ==
  /\ main = "close"
  /\ IF client = "open"
     THEN client' = "closing" /\ UNCHANGED main
     ELSE client' = "closed" /\ main' = "closed"
  /\ UNCHANGED <<Finishing, init, cancelInit, initError, crashed>>

-----------------------------------------------------------------------------

Initialise ==
  \/ InitClient \/ InitPrepare
  \/ StreamInit \/ SetupWatcher
LoadSchema == SchemaConnect \/ SchemaQuery \/ SchemaSearchPath
Executor ==
  \/ TakeLock \/ EmptyLine \/ GetQuery \/ InitArrives \/ InitWaitCancelled \/ Resolve
  \/ ExecuteSetting \/ ExecuteSync \/ AcquireSession \/ StartQuery \/ SendResult \/ ResultRead
  \/ Restart \/ PromptReturns
ReadRows ==
  \/ ReadColumns \/ StreamRow \/ StreamError \/ LastRow \/ CloseRows \/ CloseSession
Show == ShowResult \/ ShowEnd \/ AllResultsRead
Main ==
  \/ ReceiveInitResult \/ HandleInitResult \/ RestartOrExit
  \/ Cleanup \/ CancelInit \/ WaitLoaded \/ CloseClient
User == Enter \/ CtrlD \/ CtrlC

Next ==
  /\ ~crashed
  /\ \/ User \/ CancelActiveQuery
     \/ Initialise \/ LoadSchema \/ Executor \/ ReadRows \/ Show \/ Main

Spec == Init /\ [][Next]_vars

(* Every goroutine goes on while it can; the user may do nothing. *)
FairSpec ==
  /\ Spec
  /\ WF_vars(~crashed /\ CancelActiveQuery)
  /\ WF_vars(~crashed /\ Initialise)
  /\ WF_vars(~crashed /\ LoadSchema)
  /\ WF_vars(~crashed /\ Executor)
  /\ WF_vars(~crashed /\ ReadRows)
  /\ WF_vars(~crashed /\ Show)
  /\ WF_vars(~crashed /\ Main)

-----------------------------------------------------------------------------
(* Properties                                                              *)

TypeOK ==
  /\ init \in {"client", "prepare", "loaded"}
  /\ client \in {"none", "open", "closing", "closed"}
  /\ stream \in {"wait", "watch", "sent"}
  /\ schema \in {"none", "connect", "query", "searchPath", "loaded", "failed"}
  /\ main \in {"select", "handle", "cleanup", "cancel", "wait", "close", "closed"}
  /\ prompt \in {"read", "lock", "closing", "returned", "getQuery", "init", "resolve", "execute",
                 "start", "stream", "wait", "restart", "hung"}
  /\ executionLock <=> prompt \notin {"read", "lock", "closing", "returned"}
  /\ line \in Lines \cup {"none"}
  /\ lines \in 0..MaxLines
  /\ afterClose \in {"exit", "restart"}
  /\ interrupt \in {"wait", "cancel", "over"}
  /\ conn \in {"none", "schema", "query"}
  /\ rows \in [at : {"none", "columns", "next", "defer", "close"}, left : 0..MaxRows,
               failed : BOOLEAN]
  /\ display \in {"idle", "show", "shown", "received"}
  /\ {cancelInit, initError, initResult, cancelPrompt, cancelActive, cancelled, duration, timing,
      results, crashed} \subseteq BOOLEAN

\* The prompt does not come back while a result is being shown: the results
\* of one query are never mixed with the next line or its results.
PromptAfterResults ==
  prompt = "read" => ~results /\ display = "idle"

\* When the prompt has been left, the initialisation is over and its client
\* is closed: nothing of this session keeps the service running.
CleanExit ==
  main = "closed" => init = "loaded" /\ client \in {"none", "closed"}

\* The prompt is stuck: the initialisation failed under a line that waits
\* for it, ...
NeverInitialised ==
  init = "loaded" /\ schema \in {"none", "failed"} /\ prompt = "init"
\* ... the session of a line is that of an earlier result whose second
\* error nobody reads, or the one in which the schema could not be loaded, ...
NoConnection == prompt = "execute" /\ conn # "none"
\* ... or somebody waits for a duration that is never sent.
NoDuration == prompt = "hung" \/ (display = "shown" /\ timing /\ ~duration)

(* LinesAndExitEnd: every line that is entered is answered and the prompt  *)
(* comes back, unless it is stuck in one of the ways named above, or the   *)
(* process has crashed; and leaving the prompt always ends the session.    *)
LinesAndExitEnd ==
  /\ prompt = "lock" ~> \/ prompt = "returned"
                        \/ crashed
                        \/ [](NeverInitialised \/ NoConnection \/ NoDuration)
  /\ main = "cleanup" ~> main = "closed" \/ crashed

=============================================================================
