--------------------------- MODULE MCDatabaseOpen ---------------------------
(* database.New with dbVersion 5 on an empty file or on a file of this     *)
(* build, the process dying once and one statement failing once.           *)
EXTENDS DatabaseOpen

MCStoredVersions == {5}

=============================================================================
