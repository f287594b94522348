-------------------------------- MODULE Commands --------------------------------
(***************************************************************************)
(* Seven components that work one after another in a command and share no  *)
(* state with each other, side by side. Only one of them leaves its        *)
(* initial state in a behaviour, so that their state spaces add; part says *)
(* which.                                                                  *)
(***************************************************************************)
EXTENDS PluginInstall, DatabaseInstall, ModInstall, ModParse, WorkspaceLoad, PreparedStatements,
        SearchPaths

VARIABLE part      \* the component that runs

Parts == {"plugin", "database", "mod", "parse", "workspace", "statements", "paths"}

Init ==
  /\ part \in Parts
  /\ PluginInit /\ DatabaseInit /\ ModInit /\ ParseInit /\ WorkspaceInit /\ StatementsInit /\ SearchInit

Next ==
  \/ part = "plugin" /\ PluginNext /\ UNCHANGED <<databaseVars, modVars, parseVars, workspaceVars, statementVars, searchVars, part>>
  \/ part = "database" /\ DatabaseNext /\ UNCHANGED <<pluginVars, modVars, parseVars, workspaceVars, statementVars, searchVars, part>>
  \/ part = "mod" /\ ModNext /\ UNCHANGED <<pluginVars, databaseVars, parseVars, workspaceVars, statementVars, searchVars, part>>
  \/ part = "parse" /\ ParseNext /\ UNCHANGED <<pluginVars, databaseVars, modVars, workspaceVars, statementVars, searchVars, part>>
  \/ part = "workspace" /\ WorkspaceNext /\ UNCHANGED <<pluginVars, databaseVars, modVars, parseVars, statementVars, searchVars, part>>
  \/ part = "statements" /\ StatementsNext /\ UNCHANGED <<pluginVars, databaseVars, modVars, parseVars, workspaceVars, searchVars, part>>
  \/ part = "paths" /\ SearchNext /\ UNCHANGED <<pluginVars, databaseVars, modVars, parseVars, workspaceVars, statementVars, part>>

commandsVars == <<pluginVars, databaseVars, modVars, parseVars, workspaceVars, statementVars, searchVars, part>>
Spec == Init /\ [][Next]_commandsVars

-----------------------------------------------------------------------------
(* The others are in their initial states: the variables of the component  *)
(* that runs are the state; and which of the terminals runs which plugin   *)
(* command makes no difference.                                            *)
View ==
  CASE part = "plugin"     -> <<part, releaseVars, fileVars, {command[t] : t \in Terminals}, countVars, disturbed>>
    [] part = "database"   -> <<part, databaseVars>>
    [] part = "mod"        -> <<part, modVars>>
    [] part = "parse"      -> <<part, parseVars>>
    [] part = "workspace"  -> <<part, workspaceVars>>
    [] part = "statements" -> <<part, statementVars>>
    [] part = "paths"      -> <<part, searchVars>>

\* TypeOK: every variable of the component that runs has its type.
TypeOK ==
  /\ part \in Parts
  /\ part = "plugin" => PluginTypeOK
  /\ part = "database" => DatabaseTypeOK
  /\ part = "mod" => ModTypeOK
  /\ part = "parse" => ParseTypeOK
  /\ part = "workspace" => WorkspaceTypeOK
  /\ part = "statements" => StatementsTypeOK
  /\ part = "paths" => SearchTypeOK
=============================================================================
