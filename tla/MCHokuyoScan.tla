---------------------------- MODULE MCHokuyoScan ----------------------------
(* Constants for the runs of HokuyoScan.                                   *)
EXTENDS HokuyoScan

\* Up to the last valid step, beyond it, and, at 0 and 6, well before the first one
\* or out of range.
ToTheEnd == {[from |-> f, to |-> t, count |-> c] :
               f \in {0, 1, 3, 5, 6}, t \in {0, 4, 5, 6}, c \in {0, 1, 100}}
\* Steps 0 to 3, of which 2 to 4 are valid.
ToTheMiddle == {[from |-> 0, to |-> 3, count |-> 1]}
\* An error, the first distance that is none, one that needs both digits.
NearAndFar == {19, 20, 84}
=============================================================================
