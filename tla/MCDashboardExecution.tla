------------------------ MODULE MCDashboardExecution ------------------------
(* A dashboard with a benchmark and a section; in the section are a chart,  *)
(* a note, which is a text, and a footer, which is empty.                   *)
EXTENDS DashboardExecution

MCNodes == {"dashboard", "benchmark", "section", "chart", "note", "footer"}
MCContainers == {"dashboard", "section", "footer"}
MCChildren ==
  [n \in MCNodes |-> CASE n = "dashboard" -> {"benchmark", "section"}
                       [] n = "section" -> {"chart", "note", "footer"}
                       [] OTHER -> {}]
MCChecks == {"benchmark"}
MCQueries == {"chart"}
=============================================================================
