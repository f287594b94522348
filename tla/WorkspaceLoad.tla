----------------------------- MODULE WorkspaceLoad -----------------------------
(***************************************************************************)
(* The loading of a workspace (workspace, inputvars, LoadMod). The files   *)
(* are parsed twice: once for the variable blocks alone, then, with the    *)
(* values of the variables, for everything else. In between the values are *)
(* collected from six sources, the later taking precedence. A command asks *)
(* for a required variable that has no value and loads again; the watcher  *)
(* of a running command reloads the workspace when files change.           *)
(*                                                                         *)
(* One variable stands for all. A value either has the type of the         *)
(* variable or it has not; a source that cannot be read is broken.         *)
(***************************************************************************)
EXTENDS Naturals, Sequences, FiniteSets, Functions

CONSTANTS
  MaxGiven,    \* bound: the sources that have a value at first
  MaxEdits     \* bound: changes of the files

ASSUME WorkspaceAssumption == MaxGiven \in Nat /\ MaxEdits \in Nat

\* In the order of precedence, the lowest first.
Sources == <<"env", "defaultFile", "autoFiles", "varFiles", "args", "prompt">>
Files == {"defaultFile", "autoFiles", "varFiles"}
Values == {"none", "good", "bad"}

VARIABLES
  declared,      \* the variable block: none, without or with a default
  refersTo,      \* whether another block of the mod refers to the variable
  given,         \* the value that each source has for it
  loader,        \* the load that is running
  workspace,     \* the value of the variable in the loaded workspace
  failed,        \* the last load failed
  edits,
  changed,       \* files have changed since the last load began: the watcher's event
  stale          \* history: files have changed since the load that ended last began

inputVars == <<declared, refersTo, given>>
workspaceVars == <<inputVars, loader, workspace, failed, edits, changed, stale>>

(* next: the source collected next; value, source: what is collected so    *)
(* far; broken: a source could not be read; block: the declaration that    *)
(* the first parse found; asked: the user was asked for the value.         *)
NoLoad == [at |-> "idle", asked |-> FALSE, block |-> "no", next |-> 1,
           value |-> "none", source |-> "none", broken |-> FALSE]

WorkspaceInit ==
  /\ declared \in {"no", "required", "default"}
  /\ refersTo \in BOOLEAN
  /\ given \in [Range(Sources) -> Values \cup {"broken"}]
  /\ \A s \in {"env", "prompt"} : given[s] # "broken"
  /\ given["prompt"] = "none"
  /\ Cardinality({s \in DOMAIN given : given[s] # "none"}) <= MaxGiven
  /\ loader = NoLoad
  /\ workspace = "unloaded"
  /\ failed = FALSE
  /\ edits = 0 /\ changed = FALSE /\ stale = FALSE

LoaderAt(step) == loader.at = step
First == workspace = "unloaded"

\* The load fails: the process ends, or the workspace stays as it was.
LoadError ==
  /\ loader' = IF First THEN [NoLoad EXCEPT !.at = "exit"] ELSE NoLoad
  /\ failed' = TRUE
  /\ stale' = changed
  /\ workspace' = workspace

LoadBegin ==
  /\ LoaderAt("idle")
  /\ First \/ changed
  /\ loader' = [NoLoad EXCEPT !.at = "declare"]
  /\ changed' = FALSE
  /\ UNCHANGED <<inputVars, workspace, failed, edits, stale>>

LoadVariables ==
  /\ LoaderAt("declare")
  /\ loader' = [loader EXCEPT !.at = "collect", !.block = declared]
  /\ UNCHANGED <<inputVars, workspace, failed, edits, changed, stale>>

\* Mutant: the first source that has a value wins.
MutCollect ==
  /\ LoaderAt("collect")
  /\ LET s == Sources[loader.next]
         v == given[s]
         collected == [loader EXCEPT !.next = @ + 1,
                                     !.at = IF s = "prompt" THEN "missing" ELSE "collect"] IN
     loader' = CASE v = "none" \/ loader.source # "none" -> collected
                 [] v = "broken" /\ loader.source = "none" -> [collected EXCEPT !.broken = TRUE]
                 [] OTHER -> [collected EXCEPT !.value = v, !.source = s]
  /\ UNCHANGED <<inputVars, workspace, failed, edits, changed, stale>>

\* CollectVariableValues goes on after a source that is broken.
Collect ==
  /\ LoaderAt("collect")
  /\ LET s == Sources[loader.next]
         v == given[s]
         collected == [loader EXCEPT !.next = @ + 1,
                                     !.at = IF s = "prompt" THEN "missing" ELSE "collect"] IN
     loader' = CASE v = "none" -> collected
                 [] v = "broken" -> [collected EXCEPT !.broken = TRUE]
                 [] OTHER -> [collected EXCEPT !.value = v, !.source = s]
  /\ UNCHANGED <<inputVars, workspace, failed, edits, changed, stale>>

\* Only the first load of a command asks for values, and it asks once.
IdentifyMissing ==
  /\ LoaderAt("missing")
  /\ LET missing == loader.block = "required" /\ loader.value = "none" IN
     IF loader.broken \/ (missing /\ (~First \/ loader.asked)) THEN LoadError
     ELSE /\ loader' = [loader EXCEPT !.at = IF missing THEN "ask" ELSE "parse"]
          /\ UNCHANGED <<workspace, failed, stale>>
  /\ UNCHANGED <<inputVars, edits, changed>>

PromptForMissing ==
  /\ LoaderAt("ask")
  /\ \/ /\ \E v \in {"good", "bad"} : given' = [given EXCEPT !["prompt"] = v]
        /\ loader' = [NoLoad EXCEPT !.at = "declare", !.asked = TRUE]
        /\ changed' = FALSE
        /\ UNCHANGED <<workspace, failed, stale>>
     \/ LoadError /\ UNCHANGED <<given, changed>>
  /\ UNCHANGED <<declared, refersTo, edits>>

(* A value for a variable that is not declared is an error when it was     *)
(* given on the command line or at the prompt; else it is ignored.         *)
ParseValues ==
  /\ LoaderAt("parse")
  /\ IF IF loader.block = "no" THEN loader.source \in {"args", "prompt"} ELSE loader.value = "bad"
     THEN LoadError
     ELSE /\ loader' = [loader EXCEPT !.at = "load"]
          /\ UNCHANGED <<workspace, failed, stale>>
  /\ UNCHANGED <<inputVars, edits, changed>>

\* LoadMod with the variables of the first parse, whatever is declared by now.
LoadWorkspaceMod ==
  /\ LoaderAt("load")
  /\ IF refersTo /\ loader.block = "no" THEN LoadError
     ELSE /\ loader' = NoLoad
          /\ workspace' = CASE loader.block = "no" -> "none"
                            [] loader.block # "no" /\ loader.source # "none" -> loader.source
                            [] OTHER -> "default"
          /\ failed' = FALSE
          /\ stale' = changed
  /\ UNCHANGED <<inputVars, edits, changed>>

\* The user edits the mod or a variables file.
Edit ==
  /\ edits < MaxEdits
  /\ edits' = edits + 1
  /\ changed' = TRUE /\ stale' = TRUE
  /\ \/ declared' \in {"no", "required", "default"} \ {declared} /\ UNCHANGED <<refersTo, given>>
     \/ refersTo' = ~refersTo /\ UNCHANGED <<declared, given>>
     \/ /\ \E s \in Files, v \in Values \cup {"broken"} : given' = [given EXCEPT ![s] = v]
        /\ UNCHANGED <<declared, refersTo>>
  /\ UNCHANGED <<loader, workspace, failed>>

WorkspaceNext ==
  \/ LoadBegin \/ LoadVariables \/ Collect \/ IdentifyMissing \/ PromptForMissing
  \/ ParseValues \/ LoadWorkspaceMod \/ Edit

WorkspaceSpec == WorkspaceInit /\ [][WorkspaceNext]_workspaceVars
-----------------------------------------------------------------------------
WorkspaceTypeOK ==
  /\ declared \in {"no", "required", "default"}
  /\ \A s \in DOMAIN given : given[s] \in Values \cup {"broken"}
  /\ loader.next \in 1..Len(Sources) + 1
  /\ workspace \in {"unloaded", "none", "default"} \cup DOMAIN given
  /\ {refersTo, failed, changed, stale} \subseteq BOOLEAN
  /\ edits \in 0..MaxEdits

\* The source whose value a variable should have: the last one that has any.
Setting == {i \in DOMAIN Sources : given[Sources[i]] \in {"good", "bad"}}
Effective == IF Setting = {} THEN "default"
             ELSE Sources[CHOOSE i \in Setting : \A j \in Setting : j <= i]

\* What is wrong with the files and the command line as they are.
Invalid ==
  \/ \E s \in DOMAIN given : given[s] = "broken"
  \/ declared = "required" /\ Setting = {}
  \/ declared # "no" /\ Setting # {} /\ given[Effective] = "bad"
  \/ declared = "no" /\ (refersTo \/ Effective = "args")

(* LoadedIfValid: a workspace whose files have not changed since its load  *)
(* began is loaded when nothing is wrong with them, and then the variable  *)
(* has the value of the source that takes precedence; and it is not loaded *)
(* when something is wrong. This is so for reloads as well, after any      *)
(* sequence of edits. The exception: a variable that the user was asked    *)
(* for keeps that value for the life of the process, and once the variable *)
(* is removed from the mod every reload fails on it.                       *)
LoadedIfValid ==
  ~stale /\ loader.at \in {"idle", "exit"} /\ (failed \/ ~First) =>
    IF failed THEN Invalid \/ (declared = "no" /\ Effective = "prompt")
    ELSE /\ ~Invalid
         /\ workspace = IF declared = "no" THEN "none" ELSE Effective
=============================================================================
