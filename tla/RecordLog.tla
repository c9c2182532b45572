----------------------------- MODULE RecordLog -----------------------------
(***************************************************************************)
(* What ILog promises (include/regilo/log.hpp:42-102): a log is a sequence *)
(* of records; write() appends one, read() hands out the next one, and the *)
(* log ends when a reader finds none.  An ended log stays as it is: no     *)
(* reader gets anything from it any more and no record is added to it.     *)
(***************************************************************************)
EXTENDS Naturals, Sequences

CONSTANT Calls  \* the numbers of the write() calls

VARIABLES
  records, \* the write() call that produced each record
  taken,   \* how many of them have been handed out
  ended    \* isEnd()

Init ==
  /\ records \in Seq(Calls)
  /\ \A i \in 1 .. Len(records) : records[i] = i
  /\ taken = 0
  /\ ended = FALSE

\* A call writes one record, and no other call has written it.
Write(n) ==
  /\ ~ended
  /\ \A i \in 1 .. Len(records) : records[i] # n
  /\ records' = Append(records, n)
  /\ UNCHANGED <<taken, ended>>

Read ==
  /\ ~ended
  /\ taken < Len(records)
  /\ taken' = taken + 1
  /\ UNCHANGED <<records, ended>>

ReadEnd ==
  /\ taken = Len(records)
  /\ ended' = TRUE
  /\ UNCHANGED <<records, taken>>

Next == (\E n \in Calls : Write(n)) \/ Read \/ ReadEnd

Spec == Init /\ [][Next]_<<records, taken, ended>>
=============================================================================
