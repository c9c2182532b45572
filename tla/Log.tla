-------------------------------- MODULE Log --------------------------------
(***************************************************************************)
(* One Log (Timed = FALSE) or TimedLog (Timed = TRUE) object shared by     *)
(* several threads: "Set a Log (it can be shared between more              *)
(* controllers)", include/regilo/controller.hpp:81.                        *)
(*                                                                         *)
(* The underlying std::iostream, one whose get and put positions are       *)
(* independent as those of a std::stringstream (a file has one position    *)
(* for both), is a sequence of fields, each one written                    *)
(* with the MESSAGE_END after it; `getPos' counts the fields that getline  *)
(* has taken and `fail' is the failbit, which the get and the put side of  *)
(* an iostream share.  A field carries the number of the write() call that *)
(* produced it.  Commands are compared by equality: a Command stands for   *)
(* all the texts that begin with the same prefix (starts_with).            *)
(*                                                                         *)
(* A thread runs one call at a time.  Every mutex operation and every      *)
(* operation on the stream is a step of its own.                           *)
(***************************************************************************)
EXTENDS Naturals, Sequences

CONSTANTS
  Writers,   \* threads that call write()
  Readers,   \* threads that call read() and readCommand()
  NoThread,  \* holder of a free mutex
  Command,   \* the commands written and looked for
  Timed,     \* is the object a TimedLog?
  OldCommands, \* commands of the records the stream holds at the start
  MaxWrites, \* bound: calls of write()
  MaxReads   \* bound: calls of read() and readCommand()

Thread == Writers \cup Readers

ASSUME LogAssumption ==
  /\ NoThread \notin Thread
  /\ Timed \in BOOLEAN
  \* A stream that holds a log is only read here: LogFile appends to one.
  /\ OldCommands \in Seq(Command)
  /\ Writers = {} \/ OldCommands = <<>>
  /\ MaxWrites \in Nat
  /\ MaxReads \in Nat

VARIABLES
  fields,          \* what the stream holds
  getPos,          \* number of fields taken by getline
  fail,            \* failbit of the stream
  metadataRead,
  metadataWritten,
  logMutex,        \* Log::streamMutex
  timedMutex,      \* TimedLog::streamMutex, a second mutex of the same name
  pc,              \* what each thread is about to do
  issued,          \* issued[n] is the command of the n-th call of write()
  mine,            \* number of the write() call a thread runs or ran last
  want,            \* the commands that end the thread's readCommand()
  logCommand,      \* out parameter of read: the command field it took
  response,        \* result of read: the response field it took
  reads            \* number of read calls so far

shared == <<fields, getPos, fail, metadataRead, metadataWritten>>
mutexes == <<logMutex, timedMutex>>
locals == <<issued, mine, want, logCommand, response, reads>>
vars == <<shared, mutexes, pc, locals>>

Kind == {"metadata", "command", "response", "time"}
Field == [kind : Kind, call : Nat]
NoField == [kind |-> "metadata", call |-> 0]  \* an empty string

\* The last field of one record: TimedLog adds the time after the response.
LastKind == IF Timed THEN "time" ELSE "response"

RecordKinds == IF Timed THEN <<"command", "response", "time">>
                        ELSE <<"command", "response">>

\* A log of n records, record r written by call r.
LogOf(n) ==
  LET size == Len(RecordKinds)
  IN  IF n = 0 THEN <<>>
      ELSE [i \in 1 .. 1 + size * n |->
             IF i = 1 THEN [kind |-> "metadata", call |-> 1]
             ELSE [kind |-> RecordKinds[((i - 2) % size) + 1],
                   call |-> ((i - 2) \div size) + 1]]

Init ==
  /\ fields = LogOf(Len(OldCommands))
  /\ getPos = 0
  /\ fail = FALSE
  /\ metadataRead = FALSE
  /\ metadataWritten = FALSE
  /\ logMutex = NoThread
  /\ timedMutex = NoThread
  /\ pc = [t \in Thread |-> "idle"]
  /\ issued = OldCommands
  /\ mine = [t \in Thread |-> 0]
  /\ want = [t \in Thread |-> {}]
  /\ logCommand = [t \in Thread |-> NoField]
  /\ response = [t \in Thread |-> NoField]
  /\ reads = 0

Goto(t, from, to) == pc[t] = from /\ pc' = [pc EXCEPT ![t] = to]

-----------------------------------------------------------------------------
(* The operations on the stream. *)

\* stream << value << MESSAGE_END: nothing is written once a bit is set.
Put(kind, n) ==
  fields' = IF fail THEN fields ELSE Append(fields, [kind |-> kind, call |-> n])

\* std::getline(stream, text, MESSAGE_END), where `old' is what text holds.
\* At the end of the stream text is erased and the failbit is set; on a stream
\* that failed before text is not touched.
Got(old) ==
  CASE fail                   -> old
    [] ~fail /\ getPos < Len(fields) -> fields[getPos + 1]
    [] OTHER                  -> NoField

\* Mutant: the position moves past the end.
TakePastEnd ==
  /\ getPos' = IF fail THEN getPos ELSE getPos + 1
  /\ fail' = (fail \/ getPos = Len(fields))

\* Mutant: the log ends with its last field.
TakeEndsEarly ==
  /\ getPos' = IF ~fail /\ getPos < Len(fields) THEN getPos + 1 ELSE getPos
  /\ fail' = (fail \/ getPos + 1 >= Len(fields))

Take ==
  /\ getPos' = IF ~fail /\ getPos < Len(fields) THEN getPos + 1 ELSE getPos
  /\ fail' = (fail \/ getPos = Len(fields))

-----------------------------------------------------------------------------
(* Calls.  A TimedLog overrides read(std::string&) and write(): virtual    *)
(* dispatch makes every call pass its own mutex first.                     *)

CallWrite(t, c) ==
  /\ Len(issued) < Len(OldCommands) + MaxWrites
  /\ Goto(t, "idle", IF Timed THEN "wLockTimed" ELSE "wLock")
  /\ issued' = Append(issued, c)
  /\ mine' = [mine EXCEPT ![t] = Len(issued) + 1]
  /\ UNCHANGED <<shared, mutexes, want, logCommand, response, reads>>

\* readCommand for a text that only `commands' start with; read() for {}.
CallRead(t, commands) ==
  /\ reads < MaxReads
  /\ Goto(t, "idle", IF Timed THEN "rLockTimed" ELSE "rLock")
  /\ reads' = reads + 1
  /\ want' = [want EXCEPT ![t] = commands]
  /\ logCommand' = [logCommand EXCEPT ![t] = NoField]
  /\ response' = [response EXCEPT ![t] = NoField]
  /\ UNCHANGED <<shared, mutexes, issued, mine>>

\* Mutant: TimedLog relies on the mutex of Log.
LockTimedUnguarded(t) ==
  /\ \/ Goto(t, "wLockTimed", "wLock")
     \/ Goto(t, "rLockTimed", "rLock")
  /\ timedMutex' = t
  /\ UNCHANGED <<shared, logMutex, locals>>

LockTimed(t) ==
  /\ \/ Goto(t, "wLockTimed", "wLock")
     \/ Goto(t, "rLockTimed", "rLock")
  /\ timedMutex = NoThread
  /\ timedMutex' = t
  /\ UNCHANGED <<shared, logMutex, locals>>

\* Mutant: Log has no mutex.
LockLogUnguarded(t) ==
  /\ \/ Goto(t, "wLock", IF metadataWritten THEN "wCommand" ELSE "wMetadata")
     \/ Goto(t, "rLock", IF metadataRead THEN "rCommand" ELSE "rMetadata")
  /\ logMutex' = t
  /\ UNCHANGED <<shared, timedMutex, locals>>

LockLog(t) ==
  /\ \/ Goto(t, "wLock", IF metadataWritten THEN "wCommand" ELSE "wMetadata")
     \/ Goto(t, "rLock", IF metadataRead THEN "rCommand" ELSE "rMetadata")
  /\ logMutex = NoThread
  /\ logMutex' = t
  /\ UNCHANGED <<shared, timedMutex, locals>>

-----------------------------------------------------------------------------
(* write *)

WriteMetadata(t) ==
  /\ Goto(t, "wMetadata", "wCommand")
  /\ Put("metadata", mine[t])
  /\ metadataWritten' = TRUE
  /\ UNCHANGED <<getPos, fail, metadataRead, mutexes, locals>>

WriteCommand(t) ==
  /\ Goto(t, "wCommand", "wResponse")
  /\ Put("command", mine[t])
  /\ UNCHANGED <<getPos, fail, metadataRead, metadataWritten, mutexes, locals>>

WriteResponse(t) ==
  /\ Goto(t, "wResponse", IF Timed THEN "wTime" ELSE "idle")
  /\ Put("response", mine[t])
  /\ logMutex' = NoThread
  /\ UNCHANGED <<getPos, fail, metadataRead, metadataWritten, timedMutex, locals>>

\* Mutants: the time is not written; the mutex is not released.
WriteTimeSkipped(t) ==
  /\ Goto(t, "wTime", "idle")
  /\ timedMutex' = NoThread
  /\ UNCHANGED <<shared, logMutex, locals>>
WriteTimeLocked(t) ==
  /\ Goto(t, "wTime", "idle")
  /\ Put("time", mine[t])
  /\ UNCHANGED <<getPos, fail, metadataRead, metadataWritten, mutexes, locals>>

WriteTime(t) ==
  /\ Goto(t, "wTime", "idle")
  /\ Put("time", mine[t])
  /\ timedMutex' = NoThread
  /\ UNCHANGED <<getPos, fail, metadataRead, metadataWritten, logMutex, locals>>

-----------------------------------------------------------------------------
(* read *)

\* Mutant: the metadata stay in the stream.
ReadMetadataSkipped(t) ==
  /\ Goto(t, "rMetadata", "rCommand")
  /\ metadataRead' = TRUE
  /\ UNCHANGED <<fields, getPos, fail, metadataWritten, mutexes, locals>>

ReadMetadata(t) ==
  /\ Goto(t, "rMetadata", "rCommand")
  /\ Take
  /\ metadataRead' = TRUE
  /\ UNCHANGED <<fields, metadataWritten, mutexes, locals>>

ReadCommandField(t) ==
  /\ Goto(t, "rCommand", "rResponse")
  /\ Take
  /\ logCommand' = [logCommand EXCEPT ![t] = Got(@)]
  /\ UNCHANGED <<fields, metadataRead, metadataWritten, mutexes, issued, mine, want,
                 response, reads>>

\* The response is a fresh string in every call of read.
ReadResponse(t) ==
  /\ Goto(t, "rResponse", IF Timed THEN "rTime" ELSE "rCheck")
  /\ Take
  /\ response' = [response EXCEPT ![t] = Got(NoField)]
  /\ logMutex' = NoThread
  /\ UNCHANGED <<fields, metadataRead, metadataWritten, timedMutex, issued, mine, want,
                 logCommand, reads>>

ReadTime(t) ==
  /\ Goto(t, "rTime", "rCheck")
  /\ Take
  /\ timedMutex' = NoThread
  /\ UNCHANGED <<fields, metadataRead, metadataWritten, logMutex, locals>>

\* The loop condition of readCommand: isEnd() looks at the stream with no mutex.
Matches(t) == logCommand[t].kind = "command" /\ issued[logCommand[t].call] \in want[t]

\* Mutant: readCommand is read.
CheckCommandOnce(t) ==
  /\ Goto(t, "rCheck", "idle")
  /\ UNCHANGED <<shared, mutexes, locals>>

CheckCommand(t) ==
  /\ Goto(t, "rCheck", IF want[t] = {} \/ Matches(t) \/ fail THEN "idle"
                       ELSE IF Timed THEN "rLockTimed" ELSE "rLock")
  /\ UNCHANGED <<shared, mutexes, locals>>

-----------------------------------------------------------------------------
Step(t) ==
  \/ LockTimed(t) \/ LockLog(t)
  \/ WriteMetadata(t) \/ WriteCommand(t) \/ WriteResponse(t) \/ WriteTime(t)
  \/ ReadMetadata(t) \/ ReadCommandField(t) \/ ReadResponse(t) \/ ReadTime(t)
  \/ CheckCommand(t)

Next ==
  \/ \E t \in Writers, c \in Command : CallWrite(t, c)
  \/ \E t \in Readers : CallRead(t, {}) \/ \E c \in Command : CallRead(t, {c})
  \/ \E t \in Thread : Step(t)

Spec == Init /\ [][Next]_vars

\* The scheduler runs every thread; nothing makes a thread call the log.
FairSpec == Spec /\ \A t \in Thread : WF_vars(Step(t))

-----------------------------------------------------------------------------
WriterAt == {"wLockTimed", "wLock", "wMetadata", "wCommand", "wResponse", "wTime"}
ReaderAt == {"rLockTimed", "rLock", "rMetadata", "rCommand", "rResponse", "rTime",
             "rCheck"}

\* Types of the state of a log and of the calls on it (log.hpp:108-162,199-240).
TypeOK ==
  /\ fields \in Seq(Field)
  /\ getPos \in 0 .. Len(fields)
  /\ fail \in BOOLEAN
  /\ metadataRead \in BOOLEAN
  /\ metadataWritten \in BOOLEAN
  /\ logMutex \in Thread \cup {NoThread}
  /\ timedMutex \in Thread \cup {NoThread}
  /\ pc \in [Thread -> {"idle"} \cup WriterAt \cup ReaderAt]
  /\ issued \in Seq(Command)
  /\ mine \in [Thread -> 0 .. Len(issued)]
  /\ want \in [Thread -> SUBSET Command]
  /\ logCommand \in [Thread -> Field]
  /\ response \in [Thread -> Field]
  /\ reads \in Nat

\* The field next may follow the field last in a log.
Follows(last, next) ==
  \/ next.kind = "command" /\ last.kind \in {"metadata", LastKind}
  \/ next.kind = "response" /\ last.kind = "command" /\ last.call = next.call
  \/ Timed /\ next.kind = "time" /\ last.kind = "response" /\ last.call = next.call

\* However the writers interleave, the stream holds one metadata field and then
\* the records of single calls, never the fields of two calls mixed: the file
\* format that Log::read relies on (log.cpp:64-77, 106-116, log.hpp:299-306).
Framing ==
  /\ fields # <<>> => fields[1].kind = "metadata"
  /\ \A i \in 2 .. Len(fields) : Follows(fields[i - 1], fields[i])

\* A read that is over gave the command and the response of one write() call, or
\* an empty response at the end of the log, whatever the other readers and the
\* writers did in between ("Read one command from the log.", log.hpp:69-79).
ReadsOneRecord ==
  \A t \in Readers :
    (pc[t] \in {"idle", "rCheck"} /\ response[t] # NoField) =>
      /\ response[t].kind = "response"
      /\ logCommand[t] = [kind |-> "command", call |-> response[t].call]

\* readCommand returns the response of a command that was looked for, or an empty
\* one: "Read specified command from the log (the others are skipped)"
\* (log.hpp:82-84).  It holds for one reader, which the runs have, and not for two:
\* the test of the end sees the stream that the other one has exhausted (log.cpp:97).
ReadCommandMatches ==
  \A t \in Readers :
    (pc[t] = "idle" /\ want[t] # {} /\ response[t] # NoField) => Matches(t)

\* The call of number n is over.
Returned(n) ==
  /\ n \in 1 .. Len(issued)
  /\ \A t \in Writers : mine[t] = n => pc[t] = "idle"

\* A write() that returned left a whole record in the stream: "Write a command
\* and response to the log." (log.hpp:97, log.cpp:102-119).
WritesAreLogged ==
  \A n \in 1 .. Len(issued) : Returned(n) =>
    \E i \in 1 .. Len(fields) : fields[i] = [kind |-> LastKind, call |-> n]

\* Nothing but a read at the end of the stream makes a write() return without its
\* record: no interleaving of two writers loses one (log.cpp:102-119, log.hpp:297-307).
LoggedUntilEnd == ~fail => WritesAreLogged

\* No step removes or changes what the log holds, and while a record is being
\* written no reader moves (log.hpp:264-291, 299-306; the class comment "It is
\* used to log all commands", log.hpp:106).
OpenRecord == fields # <<>> /\ ~fail /\ fields[Len(fields)].kind \notin {"metadata", LastKind}
KeepsRecords ==
  /\ SubSeq(fields', 1, Len(fields)) = fields
  /\ OpenRecord => getPos' = getPos /\ fail' = fail
NoReadInsideRecord == [][KeepsRecords]_vars

\* No thread stays inside a call: both mutexes are taken in the same order and
\* released on every path, and the loop of readCommand ends (log.cpp:93-97).
CallsReturn == \A t \in Thread : pc[t] # "idle" ~> pc[t] = "idle"

-----------------------------------------------------------------------------
(* The log as its interface documents it: RecordLog.                       *)

\* How many records end in the first k fields, the first of which is the metadata.
Whole(k) == IF k = 0 THEN 0 ELSE (k - 1) \div Len(RecordKinds)

\* The call that wrote the r-th record, or 0 if its fields are not those of one call.
CallOf(r) ==
  LET last == 1 + Len(RecordKinds) * r
      call == fields[last].call
  IN  IF \A i \in 1 .. Len(RecordKinds) :
           fields[last - Len(RecordKinds) + i] = [kind |-> RecordKinds[i], call |-> call]
      THEN call ELSE 0

Records == [r \in 1 .. Whole(Len(fields)) |-> CallOf(r)]
Promise == INSTANCE RecordLog WITH
  Calls <- 1 .. Len(OldCommands) + MaxWrites,
  records <- Records,
  taken <- Whole(getPos),
  ended <- fail

\* Whatever the interleaving, the fields come and go as whole records: each is
\* appended at once by one call, handed out once and in order, and the log ends
\* only when no record is left (log.hpp:42-102).
ImplementsRecordLog == Promise!Spec
=============================================================================
