------------------------------ MODULE MCBackup ------------------------------
(* Two room keys, two versions of the backup, and two failures.             *)
EXTENDS Backup

CONSTANTS k1, k2

MCKeys == {k1, k2}
=============================================================================
