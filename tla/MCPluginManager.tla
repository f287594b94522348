---------------------------- MODULE MCPluginManager ----------------------------
(* Three overlapping Get requests: the first asks for both connections, so  *)
(* that its two goroutines share a result lock, and the other two ask for   *)
(* the first connection only: three calls for it are what it takes for two  *)
(* of them to restart a dead plugin while the third one puts in a           *)
(* placeholder.  In the runs with fewer calls the config may or may not     *)
(* hold the second connection.                                              *)
EXTENDS PluginManager, TLC

CONSTANTS r1, r2, r3

MCConnections == {"aws", "gcp"}
MCRequests == {r1, r2, r3}
MCCalls == {<<r1, "aws">>, <<r1, "gcp">>, <<r2, "aws">>, <<r3, "aws">>}
MCTwoRequests == {r1, r2}
MCFewCalls == {<<r1, "aws">>, <<r1, "gcp">>, <<r2, "aws">>}
MCReq == [g \in Calls |-> g[1]]
MCConn == [g \in Calls |-> g[2]]
MCConfigMaps == {{"aws"}, {"aws", "gcp"}}
MCOneConfig == {MCConnections}

\* r2 and r3 ask for the same thing.
MCSymmetry == Permutations({r2, r3})
=============================================================================
