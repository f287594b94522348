----------------------- MODULE InteractiveSessionProofs -----------------------
(***************************************************************************)
(* Proofs about InteractiveSession for any lines and results: its types,   *)
(* the prompt that waits for the result of a line, and what is left of the *)
(* initialisation and the client when the prompt has been left.            *)
(***************************************************************************)
EXTENDS InteractiveSession, TLAPS

(* A result is on its way, or shown, exactly while the executor waits for  *)
(* all of it to be read.                                                   *)
ResultInv ==
  IF prompt = "wait" THEN results <=> display = "idle" ELSE ~results /\ display = "idle"

(* The client is closed after the initialisation, which alone opens it.    *)
CloseInv ==
  /\ main \in {"close", "closed"} => init = "loaded"
  /\ main = "closed" => client \in {"none", "closed"}

IInv == TypeOK /\ ResultInv /\ CloseInv
-----------------------------------------------------------------------------
(* The types.                                                              *)

(* The variables of one part of the session.                               *)
InitOK ==
  /\ init \in {"client", "prepare", "loaded"}
  /\ cancelInit \in BOOLEAN /\ initError \in BOOLEAN
  /\ client \in {"none", "open", "closing", "closed"}
StreamOK ==
  /\ stream \in {"wait", "watch", "sent"} /\ initResult \in BOOLEAN
  /\ schema \in {"none", "connect", "query", "searchPath", "loaded", "failed"}
MainOK ==
  /\ main \in {"select", "handle", "cleanup", "cancel", "wait", "close", "closed"}
  /\ crashed \in BOOLEAN
PromptOK ==
  /\ prompt \in {"read", "lock", "closing", "returned", "getQuery", "init", "resolve", "execute",
                 "start", "stream", "wait", "restart", "hung"}
  /\ executionLock <=> prompt \notin {"read", "lock", "closing", "returned"}
  /\ line \in Lines \cup {"none"} /\ lines \in 0..MaxLines
  /\ afterClose \in {"exit", "restart"} /\ cancelPrompt \in BOOLEAN
CancelOK ==
  /\ cancelActive \in BOOLEAN /\ cancelled \in BOOLEAN
  /\ interrupt \in {"wait", "cancel", "over"}
ResultOK ==
  /\ conn \in {"none", "schema", "query"}
  /\ rows \in [at : {"none", "columns", "next", "defer", "close"}, left : 0..MaxRows, failed : BOOLEAN]
  /\ duration \in BOOLEAN /\ timing \in BOOLEAN /\ results \in BOOLEAN
  /\ display \in {"idle", "show", "shown", "received"}

LEMMA TypeParts == TypeOK <=> InitOK /\ StreamOK /\ MainOK /\ PromptOK /\ CancelOK /\ ResultOK
<1>1. TypeOK => InitOK /\ StreamOK /\ MainOK /\ PromptOK /\ CancelOK /\ ResultOK
  BY DEF TypeOK, InitOK, StreamOK, MainOK, PromptOK, CancelOK, ResultOK
<1>2. ASSUME InitOK, StreamOK, MainOK, PromptOK, CancelOK, ResultOK PROVE TypeOK
  <2>1. /\ cancelInit \in BOOLEAN /\ initError \in BOOLEAN /\ initResult \in BOOLEAN
        /\ cancelPrompt \in BOOLEAN /\ cancelActive \in BOOLEAN /\ cancelled \in BOOLEAN
        /\ duration \in BOOLEAN /\ timing \in BOOLEAN /\ results \in BOOLEAN /\ crashed \in BOOLEAN
    BY <1>2 DEF InitOK, StreamOK, MainOK, PromptOK, CancelOK, ResultOK
  <2>2. {cancelInit, initError, initResult, cancelPrompt, cancelActive, cancelled, duration, timing,
         results, crashed} \subseteq BOOLEAN
    BY <2>1
  <2> QED
    BY <1>2, <2>2 DEF TypeOK, InitOK, StreamOK, MainOK, PromptOK, CancelOK, ResultOK
<1> QED
  BY <1>1, <1>2

LEMMA TypesNext ==
  ASSUME InitOK', StreamOK', MainOK', PromptOK', CancelOK', ResultOK'
  PROVE  TypeOK'
<1>1. /\ cancelInit' \in BOOLEAN /\ initError' \in BOOLEAN /\ initResult' \in BOOLEAN
      /\ cancelPrompt' \in BOOLEAN /\ cancelActive' \in BOOLEAN /\ cancelled' \in BOOLEAN
      /\ duration' \in BOOLEAN /\ timing' \in BOOLEAN /\ results' \in BOOLEAN /\ crashed' \in BOOLEAN
  BY DEF InitOK, StreamOK, MainOK, PromptOK, CancelOK, ResultOK
<1>2. {cancelInit', initError', initResult', cancelPrompt', cancelActive', cancelled', duration',
       timing', results', crashed'} \subseteq BOOLEAN
  BY <1>1
<1> QED
  BY <1>2 DEF TypeOK, InitOK, StreamOK, MainOK, PromptOK, CancelOK, ResultOK

(* What a step leaves alone keeps its type.                                *)
LEMMA PartsSame ==
  /\ InitOK /\ UNCHANGED initVars => InitOK'
  /\ StreamOK /\ UNCHANGED streamVars => StreamOK'
  /\ MainOK /\ UNCHANGED <<main, crashed>> => MainOK'
  /\ PromptOK /\ UNCHANGED promptVars => PromptOK'
  /\ CancelOK /\ UNCHANGED cancelVars => CancelOK'
  /\ ResultOK /\ UNCHANGED resultVars => ResultOK'
<1>1. InitOK /\ UNCHANGED initVars => InitOK'
  BY DEF InitOK, initVars
<1>2. StreamOK /\ UNCHANGED streamVars => StreamOK'
  BY DEF StreamOK, streamVars
<1>3. MainOK /\ UNCHANGED <<main, crashed>> => MainOK'
  BY DEF MainOK
<1>4. PromptOK /\ UNCHANGED promptVars => PromptOK'
  BY DEF PromptOK, promptVars
<1>5. CancelOK /\ UNCHANGED cancelVars => CancelOK'
  BY DEF CancelOK, cancelVars
<1>6. ResultOK /\ UNCHANGED resultVars => ResultOK'
  BY DEF ResultOK, resultVars
<1> QED
  BY <1>1, <1>2, <1>3, <1>4, <1>5, <1>6

LEMMA TypeOfInitialise ==
  ASSUME TypeOK, Initialise
  PROVE  TypeOK'
<1> USE SessionAssumption
<1>1. InitOK /\ StreamOK /\ MainOK /\ PromptOK /\ CancelOK /\ ResultOK
  BY TypeParts
<1>2. UNCHANGED <<main, crashed, promptVars, cancelVars, resultVars>>
  BY DEF Initialise, InitClient, InitPrepare, StreamInit, SetupWatcher
<1>3. InitOK'
  BY <1>1 DEF Initialise, InitClient, InitPrepare, StreamInit, SetupWatcher, InitOK, initVars
<1>4. StreamOK'
  BY <1>1 DEF Initialise, InitClient, InitPrepare, StreamInit, SetupWatcher, StreamOK, streamVars
<1> QED
  BY <1>1, <1>2, <1>3, <1>4, PartsSame, TypesNext

LEMMA TypeOfLoadSchema ==
  ASSUME TypeOK, LoadSchema
  PROVE  TypeOK'
<1> USE SessionAssumption
<1>1. InitOK /\ StreamOK /\ MainOK /\ PromptOK /\ CancelOK /\ ResultOK
  BY TypeParts
<1>2. UNCHANGED <<initVars, promptVars, cancelVars>>
  BY DEF LoadSchema, SchemaConnect, SchemaQuery, SchemaSearchPath
<1>3. StreamOK'
  BY <1>1 DEF LoadSchema, SchemaConnect, SchemaQuery, SchemaSearchPath, StreamOK, streamVars
<1>4. MainOK'
  BY <1>1 DEF LoadSchema, SchemaConnect, SchemaQuery, SchemaSearchPath, MainOK
<1>5. ResultOK'
  BY <1>1 DEF LoadSchema, SchemaConnect, SchemaQuery, SchemaSearchPath, ResultOK, resultVars
<1> QED
  BY <1>1, <1>2, <1>3, <1>4, <1>5, PartsSame, TypesNext

LEMMA TypeOfUser ==
  ASSUME TypeOK, User
  PROVE  TypeOK'
<1> USE SessionAssumption
<1>1. InitOK /\ StreamOK /\ MainOK /\ PromptOK /\ CancelOK /\ ResultOK
  BY TypeParts
<1>2. UNCHANGED <<initVars, streamVars, main, crashed, resultVars>>
  BY DEF User, Enter, CtrlD, CtrlC
<1>3. PromptOK'
  BY <1>1 DEF User, Enter, CtrlD, CtrlC, PromptOK, promptVars
<1>4. CancelOK'
  BY <1>1 DEF User, Enter, CtrlD, CtrlC, CancelOK, cancelVars, PromptOK
<1> QED
  BY <1>1, <1>2, <1>3, <1>4, PartsSame, TypesNext

LEMMA TypeOfExecutor ==
  ASSUME TypeOK, Executor
  PROVE  TypeOK'
<1> USE SessionAssumption
<1>1. InitOK /\ StreamOK /\ MainOK /\ PromptOK /\ CancelOK /\ ResultOK
  BY TypeParts
<1>2. UNCHANGED <<initVars, streamVars, main, crashed>>
  BY DEF Executor, TakeLock, EmptyLine, GetQuery, InitArrives, InitWaitCancelled, Resolve,
     ExecuteSetting, ExecuteSync, AcquireSession, StartQuery, SendResult, ResultRead, Restart,
     PromptReturns, Step
<1>3. rows' \in [at : {"none", "columns", "next", "defer", "close"}, left : 0..MaxRows, failed : BOOLEAN]
  <2>1. \A n \in 0..MaxRows : [at |-> "columns", left |-> n, failed |-> FALSE] \in
                                [at : {"none", "columns", "next", "defer", "close"}, left : 0..MaxRows, failed : BOOLEAN]
    OBVIOUS
  <2>2. CASE StartQuery
    BY <1>1, <2>1, <2>2 DEF StartQuery, ResultOK
  <2>3. CASE ~StartQuery
    <3>1. rows' = rows
      BY <2>3 DEF Executor, TakeLock, EmptyLine, GetQuery, InitArrives, InitWaitCancelled, Resolve,
         ExecuteSetting, ExecuteSync, AcquireSession, SendResult, ResultRead, Restart,
         PromptReturns, Step, resultVars
    <3> QED
      BY <1>1, <3>1 DEF ResultOK
  <2> QED
    BY <2>2, <2>3
<1>4. PromptOK'
  <2>1. CASE TakeLock \/ EmptyLine \/ GetQuery \/ InitArrives \/ InitWaitCancelled
    BY <1>1, <2>1 DEF TakeLock, EmptyLine, GetQuery, InitArrives, InitWaitCancelled, Step, PromptOK
  <2>2. CASE Resolve \/ ExecuteSetting \/ ExecuteSync
    BY <1>1, <2>2 DEF Resolve, ExecuteSetting, ExecuteSync, Step, PromptOK
  <2>3. CASE AcquireSession \/ StartQuery \/ SendResult
    BY <1>1, <2>3 DEF AcquireSession, StartQuery, SendResult, Step, PromptOK
  <2>4. CASE ResultRead
    BY <1>1, <2>4 DEF ResultRead, Step, PromptOK
  <2>5. CASE Restart
    <3>1. cancelPrompt' \in BOOLEAN
      BY <2>5 DEF Restart
    <3> QED
      BY <1>1, <2>5, <3>1 DEF Restart, Step, PromptOK
  <2>6. CASE PromptReturns
    BY <1>1, <2>6 DEF PromptReturns, PromptOK
  <2> QED
    BY <2>1, <2>2, <2>3, <2>4, <2>5, <2>6 DEF Executor
<1>5. CancelOK'
  BY <1>1 DEF Executor, TakeLock, EmptyLine, GetQuery, InitArrives, InitWaitCancelled, Resolve,
     ExecuteSetting, ExecuteSync, AcquireSession, StartQuery, SendResult, ResultRead, Restart,
     PromptReturns, Step, CancelOK, cancelVars, PromptOK
<1>6. ResultOK'
  BY <1>1, <1>3 DEF Executor, TakeLock, EmptyLine, GetQuery, InitArrives, InitWaitCancelled,
     Resolve, ExecuteSetting, ExecuteSync, AcquireSession, StartQuery, SendResult, ResultRead,
     Restart, PromptReturns, Step, ResultOK, resultVars
<1> QED
  BY <1>1, <1>2, <1>4, <1>5, <1>6, PartsSame, TypesNext

LEMMA TypeOfReadRows ==
  ASSUME TypeOK, ReadRows
  PROVE  TypeOK'
<1> USE SessionAssumption
<1>1. InitOK /\ StreamOK /\ MainOK /\ PromptOK /\ CancelOK /\ ResultOK
  BY TypeParts
<1>2. UNCHANGED <<initVars, streamVars, main, crashed, promptVars, cancelVars>>
  BY DEF ReadRows, ReadColumns, StreamRow, StreamError, LastRow, CloseRows, CloseSession, Reading,
     NoRows, resultVars
<1>3. rows' \in [at : {"none", "columns", "next", "defer", "close"}, left : 0..MaxRows, failed : BOOLEAN]
  <2>1. PICK r \in [at : {"none", "columns", "next", "defer", "close"}, left : 0..MaxRows, failed : BOOLEAN] :
          r = rows
    BY <1>1 DEF ResultOK
  <2>2. ASSUME NEW at \in {"next", "defer", "close"}, NEW failed \in BOOLEAN
        PROVE  /\ [r EXCEPT !.at = at] \in
                    [at : {"none", "columns", "next", "defer", "close"}, left : 0..MaxRows, failed : BOOLEAN]
               /\ [r EXCEPT !.at = at, !.failed = failed] \in
                    [at : {"none", "columns", "next", "defer", "close"}, left : 0..MaxRows, failed : BOOLEAN]
    OBVIOUS
  <2>3. r.left > 0 => [r EXCEPT !.left = r.left - 1] \in
                        [at : {"none", "columns", "next", "defer", "close"}, left : 0..MaxRows, failed : BOOLEAN]
    <3>1. r.left > 0 => r.left - 1 \in 0..MaxRows
      OBVIOUS
    <3> QED
      BY <3>1
  <2>4. NoRows \in [at : {"none", "columns", "next", "defer", "close"}, left : 0..MaxRows, failed : BOOLEAN]
    BY DEF NoRows
  <2>5. cancelled \in BOOLEAN
    BY <1>1 DEF CancelOK
  <2>6. CASE ReadColumns \/ StreamError \/ LastRow
    <3>1. \/ rows' = [r EXCEPT !.at = "next"]
          \/ \E failed \in BOOLEAN : rows' = [r EXCEPT !.at = "defer", !.failed = failed]
      BY <2>1, <2>5, <2>6 DEF ReadColumns, StreamError, LastRow
    <3> QED
      BY <2>2, <3>1
  <2>7. CASE StreamRow
    BY <2>1, <2>3, <2>7 DEF StreamRow
  <2>8. CASE CloseRows
    BY <2>1, <2>2, <2>8 DEF CloseRows
  <2>9. CASE CloseSession
    BY <2>4, <2>9 DEF CloseSession
  <2> QED
    BY <2>6, <2>7, <2>8, <2>9 DEF ReadRows
<1>4. ResultOK'
  BY <1>1, <1>3 DEF ReadRows, ReadColumns, StreamRow, StreamError, LastRow, CloseRows, CloseSession,
     Reading, NoRows, ResultOK, resultVars
<1> QED
  BY <1>1, <1>2, <1>4, PartsSame, TypesNext

LEMMA TypeOfShow ==
  ASSUME TypeOK, Show
  PROVE  TypeOK'
<1> USE SessionAssumption
<1>1. InitOK /\ StreamOK /\ MainOK /\ PromptOK /\ CancelOK /\ ResultOK
  BY TypeParts
<1>2. UNCHANGED <<initVars, streamVars, main, crashed, promptVars, cancelVars>>
  BY DEF Show, ShowResult, ShowEnd, AllResultsRead, Reading, resultVars
<1>3. ResultOK'
  BY <1>1 DEF Show, ShowResult, ShowEnd, AllResultsRead, Reading, ResultOK, resultVars
<1> QED
  BY <1>1, <1>2, <1>3, PartsSame, TypesNext

LEMMA TypeOfMain ==
  ASSUME TypeOK, Main
  PROVE  TypeOK'
<1> USE SessionAssumption
<1>1. InitOK /\ StreamOK /\ MainOK /\ PromptOK /\ CancelOK /\ ResultOK
  BY TypeParts
<1>2. UNCHANGED <<cancelVars, resultVars>>
  BY DEF Main, ReceiveInitResult, HandleInitResult, RestartOrExit, Cleanup, CancelInit, WaitLoaded,
     CloseClient, Finishing
<1>3. InitOK'
  BY <1>1 DEF Main, ReceiveInitResult, HandleInitResult, RestartOrExit, Cleanup, CancelInit,
     WaitLoaded, CloseClient, Finishing, InitOK, initVars
<1>4. StreamOK'
  BY <1>1 DEF Main, ReceiveInitResult, HandleInitResult, RestartOrExit, Cleanup, CancelInit,
     WaitLoaded, CloseClient, Finishing, StreamOK, streamVars
<1>5. MainOK'
  BY <1>1 DEF Main, ReceiveInitResult, HandleInitResult, RestartOrExit, Cleanup, CancelInit,
     WaitLoaded, CloseClient, Finishing, MainOK
<1>6. PromptOK'
  <2>1. CASE HandleInitResult
    BY <1>1, <2>1 DEF HandleInitResult, PromptOK
  <2>2. CASE RestartOrExit
    BY <1>1, <2>2 DEF RestartOrExit, PromptOK
  <2>3. CASE UNCHANGED promptVars
    BY <1>1, <2>3, PartsSame
  <2> QED
    BY <2>1, <2>2, <2>3 DEF Main, ReceiveInitResult, Cleanup, CancelInit, WaitLoaded, CloseClient,
       Finishing
<1> QED
  BY <1>1, <1>2, <1>3, <1>4, <1>5, <1>6, PartsSame, TypesNext

LEMMA TypeStep ==
  ASSUME TypeOK, [Next]_vars
  PROVE  TypeOK'
<1>1. CASE UNCHANGED vars
  BY <1>1, TypeParts, PartsSame, TypesNext DEF vars
<1>2. CASE CancelActiveQuery
  <2>1. InitOK /\ StreamOK /\ MainOK /\ PromptOK /\ CancelOK /\ ResultOK
    BY TypeParts
  <2>2. CancelOK' /\ MainOK'
    BY <1>2, <2>1 DEF CancelActiveQuery, CancelOK, MainOK
  <2> QED
    BY <1>2, <2>1, <2>2, PartsSame, TypesNext DEF CancelActiveQuery
<1> QED
  BY <1>1, <1>2, TypeOfInitialise, TypeOfLoadSchema, TypeOfUser, TypeOfExecutor, TypeOfReadRows, TypeOfShow,
     TypeOfMain DEF Next

-----------------------------------------------------------------------------
(* The result of a line, and the end of the session.                       *)

LEMMA ResultStep ==
  ASSUME TypeOK, ResultInv, [Next]_vars
  PROVE  ResultInv'
<1>1. CASE Executor
  <2>1. CASE SendResult \/ ResultRead
    BY <2>1 DEF ResultInv, SendResult, ResultRead, Step
  <2>2. CASE ~SendResult /\ ~ResultRead
    <3>1. prompt # "wait" /\ prompt' # "wait"
      BY <1>1, <2>2 DEF Executor, TakeLock, EmptyLine, GetQuery, InitArrives, InitWaitCancelled,
         Resolve, ExecuteSetting, ExecuteSync, AcquireSession, StartQuery, Restart, PromptReturns,
         Step
    <3>2. UNCHANGED <<results, display>>
      BY <1>1, <2>2 DEF Executor, TakeLock, EmptyLine, GetQuery, InitArrives, InitWaitCancelled,
         Resolve, ExecuteSetting, ExecuteSync, AcquireSession, StartQuery, Restart, PromptReturns,
         resultVars
    <3> QED
      BY <3>1, <3>2 DEF ResultInv
  <2> QED
    BY <2>1, <2>2
<1>2. CASE ReadRows \/ Show
  <2>1. prompt' = prompt
    BY <1>2 DEF ReadRows, ReadColumns, StreamRow, StreamError, LastRow, CloseRows, CloseSession,
       Show, ShowResult, ShowEnd, AllResultsRead, Reading, promptVars
  <2>2. CASE ShowResult
    BY <2>1, <2>2 DEF ResultInv, ShowResult
  <2>3. CASE ~ShowResult
    <3>1. results' = results
      BY <1>2, <2>3 DEF ReadRows, ReadColumns, StreamRow, StreamError, LastRow, CloseRows,
         CloseSession, Show, ShowEnd, AllResultsRead, Reading
    <3>2. \/ display' = display
          \/ display # "idle" /\ display' # "idle"
      BY <1>2, <2>3 DEF ReadRows, ReadColumns, StreamRow, StreamError, LastRow, CloseRows,
         CloseSession, Show, ShowEnd, AllResultsRead
    <3> QED
      BY <2>1, <3>1, <3>2 DEF ResultInv
  <2> QED
    BY <2>2, <2>3
<1>3. CASE User \/ CancelActiveQuery
  BY <1>3 DEF ResultInv, User, Enter, CtrlD, CtrlC, CancelActiveQuery, promptVars, resultVars
<1>4. CASE UNCHANGED vars \/ Initialise \/ LoadSchema
  <2>1. UNCHANGED <<prompt, results, display>>
    BY <1>4 DEF vars, Initialise, InitClient, InitPrepare, StreamInit, SetupWatcher, LoadSchema,
       SchemaConnect, SchemaQuery, SchemaSearchPath, promptVars, resultVars
  <2> QED
    BY <2>1 DEF ResultInv
<1>5. CASE Main
  BY <1>5 DEF ResultInv, Main, ReceiveInitResult, HandleInitResult, RestartOrExit, Cleanup,
     CancelInit, WaitLoaded, CloseClient, Finishing, promptVars, resultVars
<1> QED
  BY <1>1, <1>2, <1>3, <1>4, <1>5 DEF Next

LEMMA CloseStep ==
  ASSUME TypeOK, CloseInv, [Next]_vars
  PROVE  CloseInv'
<1>1. CASE Main
  BY <1>1 DEF CloseInv, TypeOK, Main, ReceiveInitResult, HandleInitResult, RestartOrExit, Cleanup,
     CancelInit, WaitLoaded, CloseClient, Finishing, initVars
<1>2. CASE Initialise
  BY <1>2 DEF CloseInv, Initialise, InitClient, InitPrepare, StreamInit, SetupWatcher, initVars
<1>3. CASE UNCHANGED vars \/ User \/ CancelActiveQuery \/ LoadSchema
  BY <1>3 DEF CloseInv, vars, User, Enter, CtrlD, CtrlC, CancelActiveQuery, LoadSchema,
     SchemaConnect, SchemaQuery, SchemaSearchPath, initVars
<1>4. CASE Executor
  BY <1>4 DEF CloseInv, Executor, TakeLock, EmptyLine, GetQuery, InitArrives, InitWaitCancelled,
     Resolve, ExecuteSetting, ExecuteSync, AcquireSession, StartQuery, SendResult, ResultRead,
     Restart, PromptReturns, initVars
<1>5. CASE ReadRows \/ Show
  BY <1>5 DEF CloseInv, ReadRows, ReadColumns, StreamRow, StreamError, LastRow, CloseRows,
     CloseSession, Show, ShowResult, ShowEnd, AllResultsRead, Reading, initVars
<1> QED
  BY <1>1, <1>2, <1>3, <1>4, <1>5 DEF Next

-----------------------------------------------------------------------------
(* The theorems.                                                           *)

LEMMA InitInv == Init => IInv
<1> SUFFICES ASSUME Init PROVE IInv
  OBVIOUS
<1>1. InitOK /\ StreamOK /\ MainOK /\ PromptOK /\ CancelOK
  <2>1. InitOK /\ StreamOK /\ MainOK
    BY DEF Init, InitOK, StreamOK, MainOK
  <2>2. lines \in 0..MaxLines
    BY SessionAssumption DEF Init
  <2>3. PromptOK /\ CancelOK
    BY <2>2 DEF Init, PromptOK, CancelOK
  <2> QED
    BY <2>1, <2>3
<1>2. ResultOK
  <2>1. NoRows \in [at : {"none", "columns", "next", "defer", "close"}, left : 0..MaxRows, failed : BOOLEAN]
    BY SessionAssumption DEF NoRows
  <2> QED
    BY <2>1 DEF Init, ResultOK
<1>3. ResultInv /\ CloseInv
  BY DEF Init, ResultInv, CloseInv
<1> QED
  BY <1>1, <1>2, <1>3, TypeParts DEF IInv

(* The inductive invariant holds in every reachable state.                 *)
THEOREM Invariance == Spec => []IInv
<1>1. Init => IInv
  BY InitInv
<1>2. IInv /\ [Next]_vars => IInv'
  BY TypeStep, ResultStep, CloseStep DEF IInv
<1> QED
  BY <1>1, <1>2, PTL DEF Spec

(* Every variable keeps its type, and the executor alone holds the         *)
(* executionLock.                                                          *)
THEOREM TypeCorrect == Spec => []TypeOK
<1>1. IInv => TypeOK
  BY DEF IInv
<1> QED
  BY <1>1, Invariance, PTL

(* The prompt does not come back while a result is being shown.            *)
THEOREM PromptAfterResultsCorrect == Spec => []PromptAfterResults
<1>1. IInv => PromptAfterResults
  BY DEF IInv, ResultInv, PromptAfterResults
<1> QED
  BY <1>1, Invariance, PTL

(* When the prompt has been left, the initialisation is over and its       *)
(* client is closed.                                                       *)
THEOREM CleanExitCorrect == Spec => []CleanExit
<1>1. IInv => CleanExit
  BY DEF IInv, CloseInv, CleanExit
<1> QED
  BY <1>1, Invariance, PTL
=============================================================================
