------------------------------ MODULE MCMigrate ------------------------------
(***************************************************************************)
(* Two processes of the same binary and an older one.                      *)
(***************************************************************************)
EXTENDS Migrate

MCProcesses == {"new1", "new2", "old"}
MCEmbedded == [p \in MCProcesses |-> IF p = "old" THEN 1 .. 1 ELSE 1 .. 2]
=============================================================================
