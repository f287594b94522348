-------------------------------- MODULE ModParse --------------------------------
(***************************************************************************)
(* The parsing of one mod (steampipeconfig/parse, modconfig).  The blocks   *)
(* of all files are decoded in turn, in an order that is not defined: the   *)
(* files are held in a Go map.  A block that refers to something that is    *)
(* not yet in the evaluation context stays unresolved, and its references   *)
(* become edges of a graph.  One more pass decodes the unresolved blocks,   *)
(* in a topological order of that graph; then no block may be left.         *)
(*                                                                          *)
(* A block defines one name, a locals block one or more.  The blocks inside *)
(* a dashboard are decoded with it, and on their own when they are left     *)
(* unresolved: one child, with a label or without, stands for them all.     *)
(* Expressions are abstracted to the names they refer to.  Not modelled:    *)
(* two blocks of one name, references resolved at run time (the inputs of a *)
(* dashboard).                                                              *)
(***************************************************************************)
EXTENDS Naturals, Sequences, FiniteSets

CONSTANTS
  Blocks,      \* the top level blocks of the mod
  Defines,     \* the names that each block defines, the child's among them
  Dashboard,   \* the block that has a child
  Child,       \* the block inside it
  MayRefer,    \* the names that each block may refer to
  MaxRefs      \* bound: the names one block refers to

AllBlocks == Blocks \cup {Child}
NamesOf(S) == UNION {Defines[b] : b \in S}

ASSUME ParseAssumption ==
  /\ IsFiniteSet(Blocks) /\ Dashboard \in Blocks /\ Child \notin Blocks
  /\ \A b, c \in AllBlocks : b # c => Defines[b] \cap Defines[c] = {}
  /\ \A b \in AllBlocks : Defines[b] # {}
  /\ MaxRefs \in Nat

VARIABLES
  refs,         \* the names each block refers to: the text of the mod
  todo,         \* the blocks that the current pass has still to decode, in order
  pass,         \* 1 or 2
  values,       \* the names in the evaluation context
  unresolved,   \* the names of the blocks this pass could not decode
  deps,         \* the dependency graph: pairs of names
  parsed        \* "", or how the parse ended

parseVars == <<refs, todo, pass, values, unresolved, deps, parsed>>

\* The sequences that hold each element of S once.
Orders(S) ==
  {o \in [1..Cardinality(S) -> S] : \A i, j \in DOMAIN o : i # j => o[i] # o[j]}

\* The bodies a block can have: the names it refers to.
Bodies == {S \in SUBSET UNION {MayRefer[b] : b \in AllBlocks} : Cardinality(S) <= MaxRefs}

ParseInit ==
  /\ refs \in {r \in [AllBlocks -> Bodies] : \A b \in AllBlocks : r[b] \subseteq MayRefer[b]}
  /\ todo \in Orders(Blocks)
  /\ pass = 1
  /\ values = {} /\ unresolved = {} /\ deps = {}
  /\ parsed = ""

Missing(b) == refs[b] \ values

\* The blocks decoded with b: the child only when the dashboard's own body is.
DecodedWith(b) == IF b = Dashboard /\ Missing(b) = {} THEN {b, Child} ELSE {b}

\* What block c lacks when b is decoded: a dashboard lacks what its child lacks.
Lacks(b, c) == IF c = b THEN UNION {Missing(e) : e \in DecodedWith(b)} ELSE Missing(c)

(* All names of a locals block fail together, with the references of the   *)
(* whole block.                                                             *)
DecodeBlock ==
  /\ todo # <<>>
  /\ LET b == Head(todo)
         failed == {c \in DecodedWith(b) : Lacks(b, c) # {}}
     IN /\ values' = values \cup NamesOf(DecodedWith(b) \ failed)
        /\ unresolved' = unresolved \cup NamesOf(failed)
        /\ deps' = deps \cup UNION {Defines[c] \X Lacks(b, c) : c \in failed}
  /\ todo' = Tail(todo)
  /\ UNCHANGED <<refs, pass, parsed>>

Cyclic == \E S \in SUBSET unresolved : S # {} /\ \A n \in S : \E m \in S : <<n, m>> \in deps

\* Mutant: the second pass takes the blocks in any order.
MutDependencyOrders == Orders({b \in AllBlocks : Defines[b] \cap unresolved # {}})

\* The unresolved blocks, each after those it depends on.
DependencyOrders ==
  {o \in Orders({b \in AllBlocks : Defines[b] \cap unresolved # {}}) :
     \A i, j \in DOMAIN o : Defines[o[i]] \X Defines[o[j]] \cap deps # {} => j < i}

\* Mutant: the graph of the first pass is not cleared.
MutSecondPass ==
  /\ todo = <<>> /\ pass = 1 /\ unresolved # {} /\ ~Cyclic
  /\ todo' \in DependencyOrders
  /\ pass' = 2 /\ unresolved' = {}
  /\ UNCHANGED <<refs, values, parsed, deps>>

\* The graph is read before it is cleared.
SecondPass ==
  /\ todo = <<>> /\ pass = 1 /\ unresolved # {} /\ ~Cyclic
  /\ todo' \in DependencyOrders
  /\ pass' = 2 /\ unresolved' = {} /\ deps' = {}
  /\ UNCHANGED <<refs, values, parsed>>

ParseEnd ==
  /\ todo = <<>> /\ parsed = ""
  /\ \/ unresolved = {} /\ parsed' = "ok"
     \/ pass = 1 /\ unresolved # {} /\ Cyclic /\ parsed' = "cycle"
     \/ pass = 2 /\ unresolved # {} /\ parsed' = "unresolved"
  /\ UNCHANGED <<refs, todo, pass, values, unresolved, deps>>

ParseNext == DecodeBlock \/ SecondPass \/ ParseEnd

ParseSpec == ParseInit /\ [][ParseNext]_parseVars

-----------------------------------------------------------------------------
ParseTypeOK ==
  /\ DOMAIN refs = AllBlocks
  /\ todo \in Seq(AllBlocks)
  /\ pass \in {1, 2}
  /\ values \subseteq NamesOf(AllBlocks)
  /\ unresolved \subseteq NamesOf(AllBlocks)
  /\ deps \subseteq unresolved \X UNION {refs[b] : b \in AllBlocks}
  /\ parsed \in {"", "ok", "cycle", "unresolved"}

\* What a block refers to and what it defines, a dashboard with its child.
Reach(b) == IF b = Dashboard THEN refs[b] \cup refs[Child] ELSE refs[b]
Owns(b) == IF b = Dashboard THEN Defines[b] \cup Defines[Child] ELSE Defines[b]

\* Some order of the blocks has everything defined before it is referred to.
Resolvable ==
  /\ \A b \in Blocks : Reach(b) \subseteq NamesOf(AllBlocks)
  /\ ~ \E S \in (SUBSET Blocks) \ {{}} : \A b \in S : \E c \in S : Reach(b) \cap Owns(c) # {}

(* A mod is loaded exactly when its blocks can be put in order, whatever    *)
(* the order its files happened to be read in, and a cycle is reported only *)
(* where there is none such (parser.go ParseMod, run_context.go             *)
(* BlocksToDecode).  The exception: while the dashboard's own references    *)
(* are missing its child is not looked at (decode.go:424), neither for the  *)
(* references of the child nor for its name, so that the second pass may    *)
(* decode the dashboard before what the child refers to, or after a block   *)
(* that refers to the child.  A locals block counts as one: its names       *)
(* cannot refer to each other.                                              *)
ParsedIfResolvable ==
  /\ parsed = "ok" => Resolvable
  /\ parsed = "cycle" => ~Resolvable
  /\ parsed = "unresolved" =>
       \/ ~Resolvable
       \/ refs[Dashboard] # {} /\ \/ refs[Child] # {}
                                  \/ \E b \in Blocks : refs[b] \cap Defines[Child] # {}
=============================================================================
