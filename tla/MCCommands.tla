---- MODULE MCCommands ----
(***************************************************************************)
(* The seven components of Commands, in one run. Those that do not run are *)
(* in one initial state only.                                              *)
(***************************************************************************)
EXTENDS Commands, MCModInstall

MCDefines == [locals |-> {"x", "y"}, query |-> {"q"}, control |-> {"c"}, dashboard |-> {"d"}, chart |-> {"k"}]
MCMayRefer == [locals |-> {"y", "q", "c"}, query |-> {"x", "c", "k", "nowhere"}, control |-> {"x", "q"},
               dashboard |-> {"x", "q", "c"}, chart |-> {"x", "y", "q"}]

Text(sql, via, params, defaults, args) == [sql |-> sql, via |-> via, params |-> params, defaults |-> defaults, args |-> args]
NoneGiven == [nil |-> FALSE, list |-> 0, names |-> {}]
OneGiven == [nil |-> FALSE, list |-> 1, names |-> {}]
MCPlaceholders == [zero |-> 0, one |-> 1, uno |-> 1]
OneParameter == Text("one", "own", 1, FALSE, OneGiven)
MCTexts == [
  query |-> {Text("zero", "own", 0, FALSE, NoArgs), Text("one", "own", 1, FALSE, NoArgs), Text("uno", "own", 1, TRUE, NoArgs)},
  control |-> {Text("none", "query", 0, FALSE, OneGiven), Text("none", "name", 0, FALSE, NoneGiven)},
  table |-> {OneParameter, Text("one", "own", 0, FALSE, OneGiven), Text("none", "query", 0, FALSE, NoArgs)},
  image |-> {Text("uno", "own", 1, TRUE, OneGiven)}]

Options(path, prefix) == [path |-> path, prefix |-> prefix]
MCConfig == [connections |-> {"aws"}, database |-> <<>>, terminal |-> NoOptions, workspace |-> NoOptions,
             parallel |-> 0, blocks |-> "ok"]
MCConfigs == {MCConfig,
  [MCConfig EXCEPT !.database = <<"gcp">>, !.blocks = "notPermitted"],
  [MCConfig EXCEPT !.connections = {"aws", "gcp"}, !.database = <<"aws", "gcp">>, !.parallel = 1,
                   !.terminal = Options(<<"gcp">>, <<"gcp">>), !.workspace = Options(<<"aws">>, <<>>)],
  [MCConfig EXCEPT !.blocks = "duplicate"]}
MCFlags == {[options |-> NoOptions, parallel |-> 0, env |-> 1],
            [options |-> Options(<<"aws">>, <<"gcp">>), parallel |-> 2, env |-> 0]}
MCSorted == [S \in SUBSET {"aws", "gcp"} |-> SelectSeq(<<"aws", "gcp">>, LAMBDA c : c \in S)]
MCLinePaths == {<<"gcp">>}
MCOwnPaths == {NoOptions, Options(<<"gcp">>, <<>>), Options(<<>>, <<"gcp">>)}

\* One text of the mod and one input are enough for the other components.
OneText == refs = [b \in AllBlocks |-> {}] /\ todo = <<"locals", "query", "control", "dashboard">>
OneInput == declared = "no" /\ refersTo = FALSE /\ given = [s \in Range(Sources) |-> "none"]
OneMod ==
  onDisk = [query |-> Text("one", "own", 1, FALSE, NoArgs), control |-> Text("none", "query", 0, FALSE, OneGiven),
            table |-> OneParameter, image |-> Text("uno", "own", 1, TRUE, OneGiven)]
MCInit ==
  /\ part \in Parts
  /\ part = "parse" \/ (part # "parse" /\ OneText)
  /\ part = "workspace" \/ (part # "workspace" /\ OneInput)
  \* a command with a watcher comes to the other texts by edits
  /\ \/ part = "statements" /\ mode = "batch"
     \/ part = "statements" /\ mode \in {"prompt", "dashboard"} /\ OneMod
     \/ part # "statements" /\ mode = "batch" /\ OneMod
  /\ part = "paths" \/ (part # "paths" /\ config = MCConfig)
  /\ PluginInit /\ DatabaseInit /\ ModInit /\ ParseInit /\ WorkspaceInit /\ StatementsInit /\ SearchInit
MCSpec == MCInit /\ [][Next]_commandsVars
====
