------------------------- MODULE MCConnectionRefresh -------------------------
(* Two connections; the files change twice, and a command is run once.      *)
EXTENDS ConnectionRefresh
=============================================================================
