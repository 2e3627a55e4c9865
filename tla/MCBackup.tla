------------------------------ MODULE MCBackup ------------------------------
(* Instance of Backup: three backups, two of them in one second, beside an     *)
(* older snapshot: one name more than are kept.                                *)
EXTENDS Backup

CONSTANTS hook, other, cli

Starts == [p \in Procs |-> IF p = hook THEN 4 ELSE 5]
=============================================================================
