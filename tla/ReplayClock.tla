---------------------------- MODULE ReplayClock ----------------------------
(***************************************************************************)
(* The times of a TimedLog (include/regilo/log.hpp:194-307): write() adds  *)
(* to each record the time since the first one, and read() of an object    *)
(* with syncTime() waits until that much of real time has gone by.  A log  *)
(* is recorded first and then replayed by threads that share an object,    *)
(* whose unit of time may be another one; the texts are left to LogFile.   *)
(***************************************************************************)
EXTENDS Integers, Sequences

CONSTANTS
  Reader,    \* threads that read
  Nobody,    \* the owner of a free mutex
  Base,      \* ticks of the system clock in a second
  Units,     \* pairs of DurationT::period::den when recording and when replaying, with num = 1
  Garbage,   \* what an uninitialised std::int64_t may hold
  Start,     \* the clock at first, later than any time in a log
  Big,       \* DurationT::max()
  MaxWrites, MaxReads,   \* bounds: calls of write() and of read()
  LastWrite, LastRead,   \* bounds: no write(), no read() begins later than this
  MaxNow                 \* bound: the clock at last

ASSUME ReplayClockAssumption ==
  /\ Nobody \notin Reader
  /\ {Base, Start, Big, MaxWrites, MaxReads, LastWrite, LastRead, MaxNow} \subseteq Nat
  /\ Base > 0 /\ Garbage \subseteq Int
  /\ Units \subseteq {u \in (1 .. Base) \X (1 .. Base) : Base % u[1] = 0 /\ Base % u[2] = 0}
  /\ Start < LastWrite /\ LastWrite < LastRead /\ LastRead < MaxNow /\ MaxNow < Big

VARIABLES
  now,
  unit,             \* one of Units
  firstWriteTime,
  times,            \* the times in the log
  written,          \* by the clock, when each write() came to line 303, its Log::write() done
  writing,          \* what write() is at: "no", "record" in Log::write(), "time" behind line 303
  replaying,        \* has the recording been closed and the log opened again?
  streamMutex,
  pc,               \* of each reader: "idle", "locked", "elapsed" or "sleeping"
  record,           \* the record that it has read, End at the end of the log
  wake,             \* when its sleep_for() ends
  taken,            \* number of records read
  lastCommandTime,
  firstReadTime,
  syncedAt,         \* the clock when firstReadTime was set, 0 if it is not
  reads,            \* number of calls of read()
  returned          \* of the last read() that returned: its record, when, and syncedAt before

recording == <<firstWriteTime, times, written, writing>>
reading == <<streamMutex, pc, record, wake, taken, lastCommandTime, firstReadTime,
             syncedAt, reads, returned>>
vars == <<now, unit, recording, replaying, reading>>

\* epoch<DurationT>(), which duration_cast truncates
Epoch(den) == now \div (Base \div den)
min == -Big
max == Big
zero == 0
End == MaxWrites + 1

Init ==
  /\ now = Start
  /\ unit \in Units
  /\ firstWriteTime = min
  /\ times = <<>>
  /\ written = <<>>
  /\ writing = "no"
  /\ replaying = FALSE
  /\ streamMutex = Nobody
  /\ pc = [r \in Reader |-> "idle"]
  /\ record = [r \in Reader |-> 0]
  /\ wake = [r \in Reader |-> 0]
  /\ taken = 0
  /\ lastCommandTime = 0
  /\ firstReadTime = zero
  /\ syncedAt = 0
  /\ reads = 0
  /\ returned = [record |-> 0, at |-> 0, since |-> 0]

\* A write() that has begun ends at LastWrite + 1 at the latest.
Tick ==
  /\ now < MaxNow
  /\ writing # "no" => now <= LastWrite
  /\ now' = now + 1
  /\ UNCHANGED <<unit, recording, replaying, reading>>

-----------------------------------------------------------------------------
(* The recording *)

\* write() takes the mutex; Log::write() then takes as long as its stream does.
Write ==
  /\ ~replaying /\ writing = "no"
  /\ Len(times) < MaxWrites /\ now <= LastWrite
  /\ writing' = "record"
  /\ UNCHANGED <<now, unit, firstWriteTime, times, written, replaying, reading>>

\* The first call reads the clock here, and once more for its own time.
FirstTime ==
  /\ writing = "record"
  /\ writing' = "time"
  /\ written' = Append(written, now)
  /\ firstWriteTime' = IF firstWriteTime = min THEN Epoch(unit[1]) ELSE firstWriteTime
  /\ UNCHANGED <<now, unit, times, replaying, reading>>

\* Mutant: the time since the record before.
WriteTimeBetween ==
  /\ writing = "time"
  /\ writing' = "no"
  /\ times' = Append(times, Epoch(unit[1]) - firstWriteTime)
  /\ firstWriteTime' = Epoch(unit[1])
  /\ UNCHANGED <<now, unit, written, replaying, reading>>

WriteTime ==
  /\ writing = "time"
  /\ writing' = "no"
  /\ times' = Append(times, Epoch(unit[1]) - firstWriteTime)
  /\ UNCHANGED <<now, unit, firstWriteTime, written, replaying, reading>>

Open ==
  /\ ~replaying /\ writing = "no"
  /\ replaying' = TRUE
  /\ UNCHANGED <<now, unit, recording, reading>>

-----------------------------------------------------------------------------
(* The replay *)

\* Nothing protects firstReadTime here: it is called while no thread is in read().
SyncTime(sync) ==
  /\ replaying /\ streamMutex = Nobody
  /\ firstReadTime' = IF sync THEN max ELSE zero
  /\ syncedAt' = 0
  /\ UNCHANGED <<now, unit, recording, replaying, streamMutex, pc, record, wake, taken,
                 lastCommandTime, reads, returned>>

Lock(r) ==
  /\ replaying /\ now <= LastRead
  /\ pc[r] = "idle" /\ reads < MaxReads
  /\ streamMutex = Nobody
  /\ streamMutex' = r
  /\ pc' = [pc EXCEPT ![r] = "locked"]
  /\ reads' = reads + 1
  /\ UNCHANGED <<now, unit, recording, replaying, record, wake, taken, lastCommandTime,
                 firstReadTime, syncedAt, returned>>

\* numRatio is 1 here, and denRation is a division of integers.
LastCommandTime(count) == count * (unit[2] \div unit[1])

\* Log::read and the time of the record, which is not initialised at the end.
Found == IF taken < Len(times) THEN taken + 1 ELSE End
Take(r) ==
  /\ pc[r] = "locked"
  /\ taken' = IF taken < Len(times) THEN taken + 1 ELSE taken
  /\ \E count \in (IF taken < Len(times) THEN {times[taken + 1]} ELSE Garbage) :
        lastCommandTime' = LastCommandTime(count)
  /\ UNCHANGED <<now, unit, recording, replaying, wake, reads>>

Return(r, n, since) ==
  /\ pc' = [pc EXCEPT ![r] = "idle"]
  /\ record' = [record EXCEPT ![r] = 0]
  /\ streamMutex' = Nobody
  /\ returned' = [record |-> n, at |-> now, since |-> since]

\* Mutant: the mutex is left before the time of the record is waited for.
ReadRecordUnlocks(r) ==
  /\ Take(r)
  /\ IF firstReadTime = max
     THEN firstReadTime' = Epoch(unit[2]) /\ syncedAt' = now /\ Return(r, Found, 0)
     ELSE /\ pc' = [pc EXCEPT ![r] = "elapsed"]
          /\ record' = [record EXCEPT ![r] = Found]
          /\ streamMutex' = Nobody
          /\ UNCHANGED <<firstReadTime, syncedAt, returned>>

\* The first synchronised read returns at once.
ReadRecord(r) ==
  /\ Take(r)
  /\ IF firstReadTime = max
     THEN firstReadTime' = Epoch(unit[2]) /\ syncedAt' = now /\ Return(r, Found, 0)
     ELSE /\ pc' = [pc EXCEPT ![r] = "elapsed"]
          /\ record' = [record EXCEPT ![r] = Found]
          /\ UNCHANGED <<firstReadTime, syncedAt, streamMutex, returned>>

\* The test of the loop that waits, and sleep_for(lastCommandTime - elapsed).
Wait(r) ==
  LET left == lastCommandTime - (Epoch(unit[2]) - firstReadTime)
  IN  /\ pc[r] = "elapsed"
      /\ UNCHANGED <<now, unit, recording, replaying, taken, lastCommandTime, firstReadTime,
                     syncedAt, reads>>
      /\ IF left > 0
         THEN /\ pc' = [pc EXCEPT ![r] = "sleeping"]
              /\ wake' = [wake EXCEPT ![r] = now + left * (Base \div unit[2])]
              /\ UNCHANGED <<streamMutex, record, returned>>
         ELSE Return(r, record[r], syncedAt) /\ wake' = [wake EXCEPT ![r] = 0]

\* Mutant: elapsed is not computed again in the loop.
WakeAndSleep(r) ==
  /\ pc[r] = "sleeping" /\ now >= wake[r]
  /\ wake' = [wake EXCEPT ![r] = now + 1]
  /\ UNCHANGED <<now, unit, recording, replaying, streamMutex, pc, record, taken,
                 lastCommandTime, firstReadTime, syncedAt, reads, returned>>

Wake(r) ==
  /\ pc[r] = "sleeping" /\ now >= wake[r]
  /\ pc' = [pc EXCEPT ![r] = "elapsed"]
  /\ wake' = [wake EXCEPT ![r] = 0]
  /\ UNCHANGED <<now, unit, recording, replaying, streamMutex, record, taken,
                 lastCommandTime, firstReadTime, syncedAt, reads, returned>>

ReaderStep(r) == ReadRecord(r) \/ Wait(r) \/ Wake(r)

Next ==
  \/ Tick \/ Write \/ FirstTime \/ WriteTime \/ Open
  \/ \E sync \in BOOLEAN : SyncTime(sync)
  \/ \E r \in Reader : Lock(r) \/ ReaderStep(r)

Spec == Init /\ [][Next]_vars

\* The clock goes on, and a thread inside read() does; nobody has to call it.
FairSpec == Spec /\ WF_vars(Tick) /\ \A r \in Reader : WF_vars(ReaderStep(r))

-----------------------------------------------------------------------------
\* Types of the members of a TimedLog (log.hpp:199-206) and of the readers.
TypeOK ==
  /\ now \in Nat /\ now <= MaxNow
  /\ unit \in Units
  /\ firstWriteTime \in Int
  /\ times \in Seq(Int)
  /\ written \in Seq(Nat)
  /\ writing \in {"no", "record", "time"} /\ replaying \in BOOLEAN
  /\ streamMutex \in Reader \cup {Nobody}
  /\ pc \in [Reader -> {"idle", "locked", "elapsed", "sleeping"}]
  /\ record \in [Reader -> 0 .. End]
  /\ wake \in [Reader -> Int]
  /\ taken \in Nat
  /\ lastCommandTime \in Int
  /\ firstReadTime \in Int
  /\ syncedAt \in Nat
  /\ returned \in [record : 0 .. End, at : Nat, since : Nat]

\* A synchronised read returns a record no earlier after the first such read than its
\* Log::write() was done after that of the first record, but for a tick of each unit, in
\* which the times are truncated ("all read methods will block their executions until the
\* current time is bigger than the command time", log.hpp:189-190).  The recording counts
\* from there and not from the call (log.hpp:301-303): measured from call to call, all
\* records but the first are early by the time that the first Log::write() took.
NotEarly ==
  LET r == returned
  IN  r.record \in DOMAIN times /\ r.since # 0 =>
        r.at - r.since >
          written[r.record] - written[1] - Base \div unit[1] - Base \div unit[2]

\* The records are handed out in their order, and the end after all of them, also when a
\* thread waits for the time of one while another calls read() (log.hpp:266-291).
NoOvertaking ==
  [][returned' # returned =>
       returned.record < returned'.record \/ {returned.record, returned'.record} = {End}]_vars

\* A read that found a record returns: it sleeps no longer than the recording took.
SleepersReturn ==
  \A r \in Reader : (pc[r] = "elapsed" /\ record[r] # End) ~> (pc[r] = "idle")
=============================================================================
