------------------------------- MODULE MCLog -------------------------------
(* Constants for the runs of Log.                                          *)
EXTENDS Log

CONSTANTS c1, c2  \* two commands

NoOldLog == <<>>
=============================================================================
