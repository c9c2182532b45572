----------------------------- MODULE MCLogFile -----------------------------
(* Constants for the runs of LogFile.                                      *)
EXTENDS LogFile

CONSTANTS scan, other  \* the command of a scan and any other one
=============================================================================
