------------------------------ MODULE MCBackup ------------------------------
(* Weeks of three days that begin in the middle of one, for Backup.        *)
EXTENDS Backup
=============================================================================
