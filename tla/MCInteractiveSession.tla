------------------------- MODULE MCInteractiveSession -------------------------
(* Lines of every kind: one that leaves the connection with a result, and   *)
(* one after it that needs the connection.                                  *)
EXTENDS InteractiveSession
=============================================================================
