---- MODULE MCModInstall ----
EXTENDS ModInstall
MCMods == {"a", "b", "c"}
\* Each version of a needs that version of b; c is content with any.
MCRequires == [m \in MCMods \X {1, 2} |->
  [n \in MCMods |-> IF n # "b" THEN {} ELSE CASE m[1] = "a" -> {m[2]} [] m[1] = "b" -> {} [] m[1] = "c" -> {1, 2}]]
\* No argument, a, c, or both.
MCArgs == {[a |-> A, b |-> {}, c |-> C] : A \in {{}, {1, 2}}, C \in {{}, {1}}}
====
