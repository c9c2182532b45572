--------------------------- MODULE MCReplayClock ---------------------------
(* Constants for the runs of ReplayClock.                                  *)
EXTENDS ReplayClock

CONSTANTS r1, r2  \* two threads that read

\* Seconds and half seconds, in the log and in the object that replays it.
FinerOrEqual == {<<1, 1>>, <<1, 2>>, <<2, 2>>}
Coarser == {<<2, 1>>}
NoneOrLong == {0, 60}
=============================================================================
