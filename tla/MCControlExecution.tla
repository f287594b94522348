-------------------------- MODULE MCControlExecution --------------------------
(* A mod with one benchmark, which has one control of its own and one in a  *)
(* child benchmark.  With two permits the two runs overlap; with one permit *)
(* the second waits for the permit and for the session of the first.        *)
EXTENDS ControlExecution

MCItems == {"mod", "benchmark", "child"}
MCChildren == [mod |-> <<"benchmark">>, benchmark |-> <<"child", "c1">>, child |-> <<"c2">>]
MCShortName == [c1 |-> "one", c2 |-> "two"]
MCArguments == {"mod", "child", "c1"}
MCFilters == {{"one", "two"}, {"two"}}

ASSUME MCTreeAssumption == TreeCorrect
=============================================================================
