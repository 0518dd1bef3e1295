------------------------------ MODULE MCDriver ------------------------------
(***************************************************************************)
(* Small instances of Driver.  Five records and five operations for two    *)
(* threads: the division leaves one of each over.                          *)
(***************************************************************************)
EXTENDS Driver

BothPrograms == {"ycsbc", "parallel"}

AllOps == {"READ", "UPDATE", "INSERT", "SCAN", "READMODIFYWRITE"}
=============================================================================
