-------------------------- MODULE PluginManagerProofs --------------------------
(***************************************************************************)
(* Proofs about PluginManager for every set of connections, requests and   *)
(* calls.  The safety properties are not inductive: they speak of the time *)
(* before a plugin process exits or is started again, and rest on who owns *)
(* an object of the map and how far its owner has got.  IInv says so.      *)
(***************************************************************************)
EXTENDS PluginManager, TLAPS

Fresh(g) == pc[g] \in {"idle", "lookup"}

(* An object is in the map only under the connection of the call that      *)
(* created it, and only once that call has looked the connection up; it is *)
(* initialized exactly when it has a process.  Shutdown visits objects.    *)
ObjectInv ==
  /\ \A c \in killing : Plugins[c] # Nil
  /\ \A c \in Connections : Plugins[c] # Nil => Conn[Plugins[c]] = c /\ ~Fresh(Plugins[c])
  /\ \A e \in Calls : initialized[e] <=> reattach[e] # Nil
  /\ \A e \in Calls : Fresh(e) => ~initialized[e]

(* A process found through an object was started for the connection, and   *)
(* its starter has left storeClientToMap.                                  *)
Stored(q, c) == q \in Calls /\ Conn[q] = c /\ proc[q] # "none" /\ pc[q] # "store"

(* A waiting call holds an object of its own connection.                   *)
WaitInv == \A g \in Calls : pc[g] = "wait" => p[g] \in Calls /\ Conn[p[g]] = Conn[g]

(* What a call holds at each point: the process that waitForPluginLoad let *)
(* it find, and the process it has started.                                *)
CallInv ==
  /\ \A e \in Calls : reattach[e] # Nil => Stored(reattach[e], Conn[e])
  /\ \A g \in Calls : pc[g] \in {"checkPid", "gotPlugin"} => Stored(found[g], Conn[g])
  /\ \A g \in Calls : pc[g] \in {"idle", "lookup", "wait", "checkPid", "remove", "start"}
                        => proc[g] = "none"
  /\ \A g \in Calls : pc[g] = "store" => proc[g] # "none"

(* Before the first exit of a plugin of its connection no call has found   *)
(* its process gone; a starting call owns the map's entry, and a process   *)
(* that is not being stored is the one that entry has.                     *)
NoDeathInv ==
  \A g \in Calls : NoneDied(Conn[g]) =>
    /\ pc[g] # "remove"
    /\ Starting(g) => Plugins[Conn[g]] = g /\ ~initialized[g]
    /\ proc[g] = "alive" /\ pc[g] # "store" =>
         Plugins[Conn[g]] # Nil /\ reattach[Plugins[Conn[g]]] = g

(* A call that restarts a plugin has found a process of it dead.  Until    *)
(* then its start is shut out by the placeholder, and a process that has   *)
(* been started once is in the map; what Shutdown has visited is dead.     *)
OnceInv ==
  /\ \A g \in Calls : pc[g] = "remove" => Stored(found[g], Conn[g]) /\ proc[found[g]] = "dead"
  /\ \A g \in Calls : pc[g] = "start" =>
       \/ StartedFor(Conn[g]) # {}
       \/ Plugins[Conn[g]] = g /\ ~initialized[g]
  /\ \A g \in Calls : StartedOnce(Conn[g]) /\ pc[g] = "store" =>
       Plugins[Conn[g]] = g /\ ~initialized[g]
  /\ \A g \in Calls : StartedOnce(Conn[g]) /\ proc[g] = "alive" /\ pc[g] # "store" =>
       Plugins[Conn[g]] # Nil /\ reattach[Plugins[Conn[g]]] = g
  /\ \A c \in Connections \ killing : mut = "shutdown" /\ Plugins[c] # Nil =>
       reattach[Plugins[c]] # Nil /\ proc[reattach[Plugins[c]]] = "dead"

IInv == TypeOK /\ WaitInv /\ ObjectInv /\ CallInv /\ NoDeathInv /\ OnceInv

-----------------------------------------------------------------------------

(* Every step is one of the actions: the case split of the proofs below.   *)
LEMMA StepCases ==
  ASSUME [Next]_vars
  PROVE  \/ \E r \in Requests : Receive(r) \/ Respond(r)
         \/ \E g \in Calls : CallStep(g) \/ PluginExits(g)
         \/ \E m \in ConfigMaps : SetConnectionConfigMap(m)
         \/ ShutdownBegin \/ KillManager
         \/ \E c \in Connections : ShutdownKill(c) \/ ShutdownPanic(c)
         \/ ShutdownDone
         \/ UNCHANGED vars
  BY DEF Next, ShutdownStep

(* The variables keep their types; a waiting call never waits for nil,     *)
(* without which the object it reads would have no type.                   *)
LEMMA TypeStep ==
  ASSUME TypeOK, WaitInv, [Next]_vars
  PROVE  TypeOK'
<1> USE CallsAssumption DEF WaitInv, TypeOK, PCs, mapVars, lockVars, callVars, resultVars, Goto
<1>1. ASSUME NEW g \in Calls, CallStep(g) PROVE TypeOK'
  <2>1. CASE LookupHit(g)
    BY <2>1 DEF LookupHit
  <2>2. CASE LookupMiss(g)
    BY <2>2 DEF LookupMiss
  <2>3. CASE Loaded(g)
    BY <2>3 DEF Loaded
  <2>4. CASE LoadTimeout(g)
    BY <2>4 DEF LoadTimeout
  <2>5. CASE PidExists(g)
    BY <2>5 DEF PidExists
  <2>6. CASE PidGone(g)
    BY <2>6 DEF PidGone
  <2>7. CASE Remove(g)
    BY <2>7 DEF Remove
  <2>8. CASE StartPlugin(g)
    BY <2>8 DEF StartPlugin
  <2>9. CASE StartFails(g)
    BY <2>9 DEF StartFails
  <2>10. CASE Store(g)
    BY <2>10 DEF Store
  <2>11. CASE StoreTwice(g)
    BY <2>11 DEF StoreTwice
  <2>12. CASE StoreNowhere(g)
    BY <2>12 DEF StoreNowhere
  <2>13. CASE CollectPlugin(g)
    BY <2>13 DEF CollectPlugin
  <2>14. CASE CollectError(g)
    BY <2>14 DEF CollectError
  <2>15. CASE UnlockError(g)
    <3>1. manager' \in {"running", "crashed", "killed"}
      BY <2>15 DEF UnlockError, Unlock
    <3>2. resultLock' = [resultLock EXCEPT ![Req[g]] = FALSE] \/ resultLock' = resultLock
      BY <2>15 DEF UnlockError, Unlock
    <3>3. resultLock' \in [Requests -> BOOLEAN]
      BY <3>2
    <3>4. pc' \in [Calls -> PCs]
      BY <2>15 DEF UnlockError, Unlock
    <3> QED
      BY <3>1, <3>3, <3>4, <2>15 DEF UnlockError, Unlock
  <2>16. CASE UnlockResult(g)
    <3>1. manager' \in {"running", "crashed", "killed"}
      BY <2>16 DEF UnlockResult, Unlock
    <3>2. resultLock' = [resultLock EXCEPT ![Req[g]] = FALSE] \/ resultLock' = resultLock
      BY <2>16 DEF UnlockResult, Unlock
    <3>3. resultLock' \in [Requests -> BOOLEAN]
      BY <3>2
    <3>4. pc' \in [Calls -> PCs]
      BY <2>16 DEF UnlockResult, Unlock
    <3> QED
      BY <3>1, <3>3, <3>4, <2>16 DEF UnlockResult, Unlock
  <2> QED
    BY <1>1, <2>1, <2>2, <2>3, <2>4, <2>5, <2>6, <2>7, <2>8, <2>9, <2>10, <2>11, <2>12, <2>13, <2>14, <2>15, <2>16 DEF CallStep
<1>2. ASSUME NEW r \in Requests, Receive(r) PROVE TypeOK'
  BY <1>2 DEF Receive, CallsOf
<1>3. ASSUME NEW r \in Requests, Respond(r) PROVE TypeOK'
  BY <1>3 DEF Respond
<1>4. ASSUME NEW g \in Calls, PluginExits(g) PROVE TypeOK'
  BY <1>4 DEF PluginExits
<1>5. ASSUME NEW m \in ConfigMaps, SetConnectionConfigMap(m) PROVE TypeOK'
  BY <1>5 DEF SetConnectionConfigMap
<1>6. CASE ShutdownBegin
  BY <1>6 DEF ShutdownBegin
<1>7. CASE KillManager
  BY <1>7 DEF KillManager
<1>8. ASSUME NEW c \in Connections, ShutdownKill(c) PROVE TypeOK'
  BY <1>8 DEF ShutdownKill
<1>9. ASSUME NEW c \in Connections, ShutdownPanic(c) PROVE TypeOK'
  BY <1>9 DEF ShutdownPanic
<1>10. CASE ShutdownDone
  BY <1>10 DEF ShutdownDone
<1>11. CASE UNCHANGED vars
  BY <1>11 DEF vars
<1> QED
  BY <1>1, <1>2, <1>3, <1>4, <1>5, <1>6, <1>7, <1>8, <1>9, <1>10, <1>11, StepCases

(* Only a lookup that hits starts a wait, for an object of the connection. *)
LEMMA WaitStep ==
  ASSUME TypeOK, ObjectInv, WaitInv, [Next]_vars
  PROVE  WaitInv'
<1> USE CallsAssumption DEF WaitInv, ObjectInv, Fresh, TypeOK, PCs, mapVars, lockVars, callVars, resultVars, Goto
<1>1. ASSUME NEW g \in Calls, CallStep(g) PROVE WaitInv'
  <2>1. CASE LookupHit(g)
    BY <2>1 DEF LookupHit
  <2>2. CASE LookupMiss(g)
    BY <2>2 DEF LookupMiss
  <2>3. CASE Loaded(g)
    BY <2>3 DEF Loaded
  <2>4. CASE LoadTimeout(g)
    BY <2>4 DEF LoadTimeout
  <2>5. CASE PidExists(g)
    BY <2>5 DEF PidExists
  <2>6. CASE PidGone(g)
    BY <2>6 DEF PidGone
  <2>7. CASE Remove(g)
    BY <2>7 DEF Remove
  <2>8. CASE StartPlugin(g)
    BY <2>8 DEF StartPlugin
  <2>9. CASE StartFails(g)
    BY <2>9 DEF StartFails
  <2>10. CASE Store(g)
    BY <2>10 DEF Store
  <2>11. CASE StoreTwice(g)
    BY <2>11 DEF StoreTwice
  <2>12. CASE StoreNowhere(g)
    BY <2>12 DEF StoreNowhere
  <2>13. CASE CollectPlugin(g)
    BY <2>13 DEF CollectPlugin
  <2>14. CASE CollectError(g)
    BY <2>14 DEF CollectError
  <2>15. CASE UnlockError(g)
    BY <2>15 DEF UnlockError, Unlock
  <2>16. CASE UnlockResult(g)
    BY <2>16 DEF UnlockResult, Unlock
  <2> QED
    BY <1>1, <2>1, <2>2, <2>3, <2>4, <2>5, <2>6, <2>7, <2>8, <2>9, <2>10, <2>11, <2>12, <2>13, <2>14, <2>15, <2>16 DEF CallStep
<1>2. ASSUME NEW r \in Requests, Receive(r) PROVE WaitInv'
  BY <1>2 DEF Receive, CallsOf
<1>3. ASSUME NEW r \in Requests, Respond(r) PROVE WaitInv'
  BY <1>3 DEF Respond
<1>4. ASSUME NEW g \in Calls, PluginExits(g) PROVE WaitInv'
  BY <1>4 DEF PluginExits
<1>5. ASSUME NEW m \in ConfigMaps, SetConnectionConfigMap(m) PROVE WaitInv'
  BY <1>5 DEF SetConnectionConfigMap
<1>6. CASE ShutdownBegin
  BY <1>6 DEF ShutdownBegin
<1>7. CASE KillManager
  BY <1>7 DEF KillManager
<1>8. ASSUME NEW c \in Connections, ShutdownKill(c) PROVE WaitInv'
  BY <1>8 DEF ShutdownKill
<1>9. ASSUME NEW c \in Connections, ShutdownPanic(c) PROVE WaitInv'
  BY <1>9 DEF ShutdownPanic
<1>10. CASE ShutdownDone
  BY <1>10 DEF ShutdownDone
<1>11. CASE UNCHANGED vars
  BY <1>11 DEF vars
<1> QED
  BY <1>1, <1>2, <1>3, <1>4, <1>5, <1>6, <1>7, <1>8, <1>9, <1>10, <1>11, StepCases

(* Objects enter the map as placeholders and are initialized once, with    *)
(* their process.                                                          *)
LEMMA ObjectStep ==
  ASSUME TypeOK, ObjectInv, [Next]_vars
  PROVE  ObjectInv'
<1> USE CallsAssumption DEF ObjectInv, Fresh, TypeOK, PCs, mapVars, lockVars, callVars, resultVars, Goto
<1>1. ASSUME NEW g \in Calls, CallStep(g) PROVE ObjectInv'
  <2>1. CASE LookupHit(g)
    BY <2>1 DEF LookupHit
  <2>2. CASE LookupMiss(g)
    BY <2>2 DEF LookupMiss
  <2>3. CASE Loaded(g)
    BY <2>3 DEF Loaded
  <2>4. CASE LoadTimeout(g)
    BY <2>4 DEF LoadTimeout
  <2>5. CASE PidExists(g)
    BY <2>5 DEF PidExists
  <2>6. CASE PidGone(g)
    BY <2>6 DEF PidGone
  <2>7. CASE Remove(g)
    BY <2>7 DEF Remove
  <2>8. CASE StartPlugin(g)
    BY <2>8 DEF StartPlugin
  <2>9. CASE StartFails(g)
    BY <2>9 DEF StartFails
  <2>10. CASE Store(g)
    BY <2>10 DEF Store
  <2>11. CASE StoreTwice(g)
    BY <2>11 DEF StoreTwice
  <2>12. CASE StoreNowhere(g)
    BY <2>12 DEF StoreNowhere
  <2>13. CASE CollectPlugin(g)
    BY <2>13 DEF CollectPlugin
  <2>14. CASE CollectError(g)
    BY <2>14 DEF CollectError
  <2>15. CASE UnlockError(g)
    BY <2>15 DEF UnlockError, Unlock
  <2>16. CASE UnlockResult(g)
    BY <2>16 DEF UnlockResult, Unlock
  <2> QED
    BY <1>1, <2>1, <2>2, <2>3, <2>4, <2>5, <2>6, <2>7, <2>8, <2>9, <2>10, <2>11, <2>12, <2>13, <2>14, <2>15, <2>16 DEF CallStep
<1>2. ASSUME NEW r \in Requests, Receive(r) PROVE ObjectInv'
  BY <1>2 DEF Receive, CallsOf
<1>3. ASSUME NEW r \in Requests, Respond(r) PROVE ObjectInv'
  BY <1>3 DEF Respond
<1>4. ASSUME NEW g \in Calls, PluginExits(g) PROVE ObjectInv'
  BY <1>4 DEF PluginExits
<1>5. ASSUME NEW m \in ConfigMaps, SetConnectionConfigMap(m) PROVE ObjectInv'
  BY <1>5 DEF SetConnectionConfigMap
<1>6. CASE ShutdownBegin
  BY <1>6 DEF ShutdownBegin
<1>7. CASE KillManager
  BY <1>7 DEF KillManager
<1>8. ASSUME NEW c \in Connections, ShutdownKill(c) PROVE ObjectInv'
  BY <1>8 DEF ShutdownKill
<1>9. ASSUME NEW c \in Connections, ShutdownPanic(c) PROVE ObjectInv'
  BY <1>9 DEF ShutdownPanic
<1>10. CASE ShutdownDone
  BY <1>10 DEF ShutdownDone
<1>11. CASE UNCHANGED vars
  BY <1>11 DEF vars
<1> QED
  BY <1>1, <1>2, <1>3, <1>4, <1>5, <1>6, <1>7, <1>8, <1>9, <1>10, <1>11, StepCases

(* A stored process stays stored; a call that found one keeps it.          *)
LEMMA CallStepInv ==
  ASSUME TypeOK, WaitInv, ObjectInv, CallInv, [Next]_vars
  PROVE  CallInv'
<1> USE CallsAssumption DEF WaitInv, ObjectInv, Fresh, CallInv, Stored, TypeOK, PCs, mapVars, lockVars, callVars, resultVars, Goto
<1>1. ASSUME NEW g \in Calls, CallStep(g) PROVE CallInv'
  <2>1. CASE LookupHit(g)
    BY <2>1 DEF LookupHit
  <2>2. CASE LookupMiss(g)
    BY <2>2 DEF LookupMiss
  <2>3. CASE Loaded(g)
    BY <2>3 DEF Loaded
  <2>4. CASE LoadTimeout(g)
    BY <2>4 DEF LoadTimeout
  <2>5. CASE PidExists(g)
    BY <2>5 DEF PidExists
  <2>6. CASE PidGone(g)
    BY <2>6 DEF PidGone
  <2>7. CASE Remove(g)
    BY <2>7 DEF Remove
  <2>8. CASE StartPlugin(g)
    BY <2>8 DEF StartPlugin
  <2>9. CASE StartFails(g)
    BY <2>9 DEF StartFails
  <2>10. CASE Store(g)
    BY <2>10 DEF Store
  <2>11. CASE StoreTwice(g)
    BY <2>11 DEF StoreTwice
  <2>12. CASE StoreNowhere(g)
    BY <2>12 DEF StoreNowhere
  <2>13. CASE CollectPlugin(g)
    BY <2>13 DEF CollectPlugin
  <2>14. CASE CollectError(g)
    BY <2>14 DEF CollectError
  <2>15. CASE UnlockError(g)
    BY <2>15 DEF UnlockError, Unlock
  <2>16. CASE UnlockResult(g)
    BY <2>16 DEF UnlockResult, Unlock
  <2> QED
    BY <1>1, <2>1, <2>2, <2>3, <2>4, <2>5, <2>6, <2>7, <2>8, <2>9, <2>10, <2>11, <2>12, <2>13, <2>14, <2>15, <2>16 DEF CallStep
<1>2. ASSUME NEW r \in Requests, Receive(r) PROVE CallInv'
  BY <1>2 DEF Receive, CallsOf
<1>3. ASSUME NEW r \in Requests, Respond(r) PROVE CallInv'
  BY <1>3 DEF Respond
<1>4. ASSUME NEW g \in Calls, PluginExits(g) PROVE CallInv'
  BY <1>4 DEF PluginExits
<1>5. ASSUME NEW m \in ConfigMaps, SetConnectionConfigMap(m) PROVE CallInv'
  BY <1>5 DEF SetConnectionConfigMap
<1>6. CASE ShutdownBegin
  BY <1>6 DEF ShutdownBegin
<1>7. CASE KillManager
  BY <1>7 DEF KillManager
<1>8. ASSUME NEW c \in Connections, ShutdownKill(c) PROVE CallInv'
  BY <1>8 DEF ShutdownKill
<1>9. ASSUME NEW c \in Connections, ShutdownPanic(c) PROVE CallInv'
  BY <1>9 DEF ShutdownPanic
<1>10. CASE ShutdownDone
  BY <1>10 DEF ShutdownDone
<1>11. CASE UNCHANGED vars
  BY <1>11 DEF vars
<1> QED
  BY <1>1, <1>2, <1>3, <1>4, <1>5, <1>6, <1>7, <1>8, <1>9, <1>10, <1>11, StepCases

(* As long as no process exits, a placeholder shuts out every other start. *)
LEMMA NoDeathStep ==
  ASSUME TypeOK, ObjectInv, CallInv, NoDeathInv, [Next]_vars
  PROVE  NoDeathInv'
<1> USE CallsAssumption DEF ObjectInv, Fresh, CallInv, Stored, NoDeathInv, NoneDied, Starting, TypeOK, PCs, mapVars, lockVars, callVars, resultVars, Goto
<1>1. ASSUME NEW g \in Calls, CallStep(g) PROVE NoDeathInv'
  <2>1. CASE LookupHit(g)
    BY <2>1 DEF LookupHit
  <2>2. CASE LookupMiss(g)
    BY <2>2 DEF LookupMiss
  <2>3. CASE Loaded(g)
    BY <2>3 DEF Loaded
  <2>4. CASE LoadTimeout(g)
    BY <2>4 DEF LoadTimeout
  <2>5. CASE PidExists(g)
    BY <2>5 DEF PidExists
  <2>6. CASE PidGone(g)
    BY <2>6 DEF PidGone
  <2>7. CASE Remove(g)
    BY <2>7 DEF Remove
  <2>8. CASE StartPlugin(g)
    BY <2>8 DEF StartPlugin
  <2>9. CASE StartFails(g)
    BY <2>9 DEF StartFails
  <2>10. CASE Store(g)
    BY <2>10 DEF Store
  <2>11. CASE StoreTwice(g)
    BY <2>11 DEF StoreTwice
  <2>12. CASE StoreNowhere(g)
    BY <2>12 DEF StoreNowhere
  <2>13. CASE CollectPlugin(g)
    BY <2>13 DEF CollectPlugin
  <2>14. CASE CollectError(g)
    BY <2>14 DEF CollectError
  <2>15. CASE UnlockError(g)
    BY <2>15 DEF UnlockError, Unlock
  <2>16. CASE UnlockResult(g)
    BY <2>16 DEF UnlockResult, Unlock
  <2> QED
    BY <1>1, <2>1, <2>2, <2>3, <2>4, <2>5, <2>6, <2>7, <2>8, <2>9, <2>10, <2>11, <2>12, <2>13, <2>14, <2>15, <2>16 DEF CallStep
<1>2. ASSUME NEW r \in Requests, Receive(r) PROVE NoDeathInv'
  BY <1>2 DEF Receive, CallsOf
<1>3. ASSUME NEW r \in Requests, Respond(r) PROVE NoDeathInv'
  BY <1>3 DEF Respond
<1>4. ASSUME NEW g \in Calls, PluginExits(g) PROVE NoDeathInv'
  BY <1>4 DEF PluginExits
<1>5. ASSUME NEW m \in ConfigMaps, SetConnectionConfigMap(m) PROVE NoDeathInv'
  BY <1>5 DEF SetConnectionConfigMap
<1>6. CASE ShutdownBegin
  BY <1>6 DEF ShutdownBegin
<1>7. CASE KillManager
  BY <1>7 DEF KillManager
<1>8. ASSUME NEW c \in Connections, ShutdownKill(c) PROVE NoDeathInv'
  BY <1>8 DEF ShutdownKill
<1>9. ASSUME NEW c \in Connections, ShutdownPanic(c) PROVE NoDeathInv'
  BY <1>9 DEF ShutdownPanic
<1>10. CASE ShutdownDone
  BY <1>10 DEF ShutdownDone
<1>11. CASE UNCHANGED vars
  BY <1>11 DEF vars
<1> QED
  BY <1>1, <1>2, <1>3, <1>4, <1>5, <1>6, <1>7, <1>8, <1>9, <1>10, <1>11, StepCases

(* A plugin that has been started once stays in the map; Shutdown kills    *)
(* every entry it passes.                                                  *)
LEMMA OnceStep ==
  ASSUME TypeOK, ObjectInv, CallInv, OnceInv, [Next]_vars
  PROVE  OnceInv'
<1> USE CallsAssumption DEF ObjectInv, Fresh, CallInv, Stored, OnceInv, StartedFor, StartedOnce, TypeOK, PCs, mapVars, lockVars, callVars, resultVars, Goto
<1>1. ASSUME NEW g \in Calls, CallStep(g) PROVE OnceInv'
  <2>1. CASE LookupHit(g)
    BY <2>1 DEF LookupHit
  <2>2. CASE LookupMiss(g)
    BY <2>2 DEF LookupMiss
  <2>3. CASE Loaded(g)
    BY <2>3 DEF Loaded
  <2>4. CASE LoadTimeout(g)
    BY <2>4 DEF LoadTimeout
  <2>5. CASE PidExists(g)
    BY <2>5 DEF PidExists
  <2>6. CASE PidGone(g)
    BY <2>6 DEF PidGone
  <2>7. CASE Remove(g)
    <3> DEFINE q == found[g]
    <3>1. q \in StartedFor(Conn[g]) /\ proc[q] = "dead" /\ pc[q] # "store" /\ proc[g] = "none"
      BY <2>7 DEF Remove
    <3>2. /\ pc' = [pc EXCEPT ![g] = "start"] /\ mut' = mut /\ mut = "free"
          /\ Plugins' = [Plugins EXCEPT ![Conn[g]] = Nil]
          /\ reattach' = reattach /\ initialized' = initialized /\ found' = found /\ proc' = proc
      BY <2>7 DEF Remove
    <3>3. ASSUME NEW h \in Calls, Conn[h] = Conn[g], StartedOnce(Conn[h]), proc[h] # "none"
          PROVE  h = q
      BY <3>1, <3>3
    <3>4. \A h \in Calls : pc'[h] = "remove" =>
             Stored(found[h], Conn[h])' /\ proc'[found'[h]] = "dead"
      BY <3>1, <3>2
    <3>5. \A h \in Calls : pc'[h] = "start" =>
             \/ StartedFor(Conn[h])' # {}
             \/ Plugins'[Conn[h]] = h /\ ~initialized'[h]
      BY <3>1, <3>2
    <3>6. \A h \in Calls : StartedOnce(Conn[h])' /\ pc'[h] = "store" =>
             Plugins'[Conn[h]] = h /\ ~initialized'[h]
      BY <3>1, <3>2, <3>3
    <3>7. \A h \in Calls : StartedOnce(Conn[h])' /\ proc'[h] = "alive" /\ pc'[h] # "store" =>
             Plugins'[Conn[h]] # Nil /\ reattach'[Plugins'[Conn[h]]] = h
      BY <3>1, <3>2, <3>3
    <3> QED
      BY <3>2, <3>4, <3>5, <3>6, <3>7
  <2>8. CASE StartPlugin(g)
    BY <2>8 DEF StartPlugin
  <2>9. CASE StartFails(g)
    BY <2>9 DEF StartFails
  <2>10. CASE Store(g)
    BY <2>10 DEF Store
  <2>11. CASE StoreTwice(g)
    BY <2>11 DEF StoreTwice
  <2>12. CASE StoreNowhere(g)
    BY <2>12 DEF StoreNowhere
  <2>13. CASE CollectPlugin(g)
    BY <2>13 DEF CollectPlugin
  <2>14. CASE CollectError(g)
    BY <2>14 DEF CollectError
  <2>15. CASE UnlockError(g)
    BY <2>15 DEF UnlockError, Unlock
  <2>16. CASE UnlockResult(g)
    BY <2>16 DEF UnlockResult, Unlock
  <2> QED
    BY <1>1, <2>1, <2>2, <2>3, <2>4, <2>5, <2>6, <2>7, <2>8, <2>9, <2>10, <2>11, <2>12, <2>13, <2>14, <2>15, <2>16 DEF CallStep
<1>2. ASSUME NEW r \in Requests, Receive(r) PROVE OnceInv'
  BY <1>2 DEF Receive, CallsOf
<1>3. ASSUME NEW r \in Requests, Respond(r) PROVE OnceInv'
  BY <1>3 DEF Respond
<1>4. ASSUME NEW g \in Calls, PluginExits(g) PROVE OnceInv'
  BY <1>4 DEF PluginExits
<1>5. ASSUME NEW m \in ConfigMaps, SetConnectionConfigMap(m) PROVE OnceInv'
  BY <1>5 DEF SetConnectionConfigMap
<1>6. CASE ShutdownBegin
  BY <1>6 DEF ShutdownBegin
<1>7. CASE KillManager
  BY <1>7 DEF KillManager
<1>8. ASSUME NEW c \in Connections, ShutdownKill(c) PROVE OnceInv'
  BY <1>8 DEF ShutdownKill
<1>9. ASSUME NEW c \in Connections, ShutdownPanic(c) PROVE OnceInv'
  BY <1>9 DEF ShutdownPanic
<1>10. CASE ShutdownDone
  BY <1>10 DEF ShutdownDone
<1>11. CASE UNCHANGED vars
  BY <1>11 DEF vars
<1> QED
  BY <1>1, <1>2, <1>3, <1>4, <1>5, <1>6, <1>7, <1>8, <1>9, <1>10, <1>11, StepCases

LEMMA IInvInit == Init => IInv
  BY CallsAssumption DEF Init, IInv, TypeOK, PCs, WaitInv, ObjectInv, Fresh, CallInv, Stored,
     NoDeathInv, Starting, OnceInv, StartedOnce, StartedFor

LEMMA Inductive == Spec => []IInv
<1>1. IInv /\ [Next]_vars => IInv'
  BY TypeStep, WaitStep, ObjectStep, CallStepInv, NoDeathStep, OnceStep DEF IInv
<1> QED
  BY <1>1, IInvInit, PTL DEF Spec

(* The variables keep their types, and Shutdown leaves nothing to kill     *)
(* behind when it frees the mutex.                                         *)
THEOREM TypeCorrect == Spec => []TypeOK
  BY Inductive, PTL DEF IInv

(* Until a plugin process of the connection exits, two calls never start the plugin  *)
(* of one connection at the same time.                                     *)
THEOREM SoleStarterCorrect == Spec => []SoleStarter
<1>1. IInv => SoleStarter
  BY DEF IInv, NoDeathInv, SoleStarter
<1> QED
  BY <1>1, Inductive, PTL

(* Until a plugin process of the connection exits, every process is in the map or on *)
(* its way there.                                                          *)
THEOREM NoLostProcessCorrect == Spec => []NoLostProcess
<1>1. IInv => NoLostProcess
  BY CallsAssumption DEF IInv, NoDeathInv, NoLostProcess, Starting
<1> QED
  BY <1>1, Inductive, PTL

(* A call that has waited for its plugin finds a process of its own        *)
(* connection, even after crashes and concurrent restarts.                 *)
THEOREM LoadedHasProcessCorrect == Spec => []LoadedHasProcess
<1>1. IInv => LoadedHasProcess
  BY CallsAssumption DEF IInv, CallInv, Stored, LoadedHasProcess
<1> QED
  BY <1>1, Inductive, PTL

(* Until a plugin process of the connection exits, all callers are given the same    *)
(* process.                                                                *)
THEOREM CallersAgreeCorrect == Spec => []CallersAgree
<1>1. IInv => CallersAgree
  BY CallsAssumption DEF IInv, TypeOK, CallInv, Stored, NoDeathInv, NoneDied, CallersAgree
<1> QED
  BY <1>1, Inductive, PTL

(* A Shutdown without error has killed every plugin that was started once. *)
THEOREM ShutdownKillsAllCorrect == Spec => ShutdownKillsAll
<1>1. IInv /\ [Next]_vars =>
        [ShutdownDone => \A g \in Calls : StartedOnce(Conn[g]) => proc[g] # "alive"]_vars
  <2> SUFFICES ASSUME IInv, ShutdownDone, NEW g \in Calls, StartedOnce(Conn[g]), proc[g] = "alive"
               PROVE  FALSE
    OBVIOUS
  <2>1. Plugins[Conn[g]] # Nil => proc[reattach[Plugins[Conn[g]]]] = "dead"
                                  /\ reattach[Plugins[Conn[g]]] # Nil
    BY CallsAssumption DEF IInv, OnceInv, ShutdownDone
  <2>2. CASE pc[g] = "store"
    BY <2>1, <2>2, CallsAssumption DEF IInv, OnceInv, ObjectInv
  <2>3. CASE pc[g] # "store"
    BY <2>1, <2>3 DEF IInv, OnceInv
  <2> QED
    BY <2>2, <2>3
<1> QED
  BY <1>1, Inductive, PTL DEF Spec, ShutdownKillsAll
=============================================================================
