--------------------------- MODULE MCDatabaseManager ---------------------------
(* Small instances of DatabaseManager for TLC.                             *)
EXTENDS DatabaseManager

=============================================================================
