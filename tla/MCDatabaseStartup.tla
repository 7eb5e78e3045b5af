------------------------- MODULE MCDatabaseStartup -------------------------
(* Small instances of DatabaseStartup for TLC. *)
EXTENDS DatabaseStartup

CONSTANTS server, cli   \* two processes
=============================================================================
