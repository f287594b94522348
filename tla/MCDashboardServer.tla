-------------------------- MODULE MCDashboardServer --------------------------
(* One browser and the watcher, and as many executions at one time as there *)
(* may be callers that found no execution of the dashboard.                 *)
EXTENDS DashboardServer
=============================================================================
