----------------------------- MODULE LogProofs -----------------------------
(***************************************************************************)
(* The inductive invariant of Log and the proofs of its safety properties, *)
(* for any threads, any commands, either kind of log and any bounds.       *)
(***************************************************************************)
EXTENDS Log, SequenceTheorems, TLAPS

\* Where a thread holds the mutex of Log, and that of TimedLog.
InLog == {"wMetadata", "wCommand", "wResponse", "rMetadata", "rCommand", "rResponse"}
InTimed == InLog \cup {"wLock", "wTime", "rLock", "rTime"}
\* Where a thread uses the stream, and where only a TimedLog gets to.
UsesStream == InLog \cup {"wTime", "rTime"}
TimedOnly == {"wLockTimed", "rLockTimed", "wTime", "rTime"}

MutexInv ==
  \A t \in Thread :
    /\ logMutex = t <=> pc[t] \in InLog
    /\ timedMutex = t <=> Timed /\ pc[t] \in InTimed
    /\ pc[t] \in TimedOnly => Timed
    /\ pc[t] \in WriterAt => t \in Writers

Last == fields[Len(fields)]
EndsRecord(f) == f.kind \in {"metadata", LastKind}

\* While the stream is good a writer inside a record wrote the last field, and
\* with no such writer the stream ends with a whole record.
WriterInv ==
  /\ \A t \in Thread : pc[t] = "wMetadata" => ~metadataWritten
  /\ \A t \in Thread : pc[t] = "wCommand" => metadataWritten
  /\ ~fail =>
       /\ Writers # {} => (metadataWritten <=> fields # <<>>)
       /\ \A t \in Thread :
            /\ pc[t] = "wResponse" =>
                 fields # <<>> /\ Last = [kind |-> "command", call |-> mine[t]]
            /\ pc[t] = "wTime" =>
                 fields # <<>> /\ Last = [kind |-> "response", call |-> mine[t]]
       /\ (\A t \in Thread : pc[t] \notin {"wResponse", "wTime"}) =>
            fields = <<>> \/ EndsRecord(Last)

\* While the stream is good a reader inside a record took the last field before
\* getPos, and with no such reader getPos is between two records.
ReaderInv ==
  /\ \A t \in Thread : pc[t] = "rMetadata" => ~metadataRead
  /\ \A t \in Thread : pc[t] = "rCommand" => metadataRead
  /\ ~fail =>
       /\ metadataRead <=> getPos # 0
       /\ \A t \in Thread :
            /\ pc[t] = "rResponse" =>
                 /\ getPos # 0
                 /\ fields[getPos] = logCommand[t]
                 /\ logCommand[t].kind = "command"
            /\ pc[t] = "rTime" =>
                 /\ getPos # 0
                 /\ fields[getPos].kind = "response"
       /\ (\A t \in Thread : pc[t] \notin {"rResponse", "rTime"}) =>
            getPos = 0 \/ EndsRecord(fields[getPos])

\* What a read() took belongs together from its last getline on.
OneRecord(t) ==
  response[t] # NoField =>
    /\ response[t].kind = "response"
    /\ logCommand[t] = [kind |-> "command", call |-> response[t].call]
BeforeResponse == {"rLockTimed", "rLock", "rMetadata", "rCommand", "rResponse"}
ResultInv == \A t \in Thread : pc[t] \notin BeforeResponse => OneRecord(t)

IInv == TypeOK /\ Framing /\ MutexInv /\ WriterInv /\ ReaderInv /\ ResultInv

-----------------------------------------------------------------------------
(* Types. *)

\* The log a stream holds at the start has fields.
LEMMA LogOfType ==
  ASSUME NEW n \in Nat
  PROVE  LogOf(n) \in Seq(Field)
<1>1. CASE n = 0
  BY <1>1 DEF LogOf
<1>2. CASE n # 0 /\ Timed
  BY <1>2, SMTT(30) DEF LogOf, RecordKinds, Field, Kind
<1>3. CASE n # 0 /\ ~Timed
  BY <1>3, SMTT(30) DEF LogOf, RecordKinds, Field, Kind
<1> QED
  BY <1>1, <1>2, <1>3

LEMMA NoFieldType == NoField \in Field
BY DEF NoField, Field, Kind

LEMMA TypeInit == Init => TypeOK
<1> SUFFICES ASSUME Init PROVE TypeOK
  OBVIOUS
<1>1. fields \in Seq(Field)
  BY LogAssumption, LogOfType DEF Init
<1>2. Len(fields) \in Nat /\ Len(issued) \in Nat
  BY <1>1, LogAssumption DEF Init
<1>3. /\ logMutex \in Thread \cup {NoThread}
      /\ timedMutex \in Thread \cup {NoThread}
      /\ pc \in [Thread -> {"idle"} \cup WriterAt \cup ReaderAt]
      /\ want \in [Thread -> SUBSET Command]
  BY DEF Init
<1>4. logCommand \in [Thread -> Field] /\ response \in [Thread -> Field]
  BY NoFieldType DEF Init
<1>5. getPos \in 0 .. Len(fields) /\ mine \in [Thread -> 0 .. Len(issued)]
  BY <1>2 DEF Init
<1> QED
  BY <1>1, <1>3, <1>4, <1>5, LogAssumption DEF Init, TypeOK

\* The stream operations yield fields.
LEMMA PutType ==
  ASSUME TypeOK, NEW kind \in Kind, NEW n \in Nat, Put(kind, n)
  PROVE  fields' \in Seq(Field) /\ Len(fields) <= Len(fields')
<1> DEFINE f == [kind |-> kind, call |-> n]
<1>1. f \in Field
  BY DEF Field
<1>2. fields \in Seq(Field)
  BY DEF TypeOK
<1> HIDE DEF f
<1>3. Append(fields, f) \in Seq(Field) /\ Len(Append(fields, f)) = Len(fields) + 1
  BY <1>1, <1>2
<1>4. fields' = fields \/ fields' = Append(fields, f)
  BY DEF Put, f
<1> QED
  BY <1>2, <1>3, <1>4

LEMMA TakeType ==
  ASSUME TypeOK, Take
  PROVE  getPos' \in 0 .. Len(fields) /\ fail' \in BOOLEAN
BY DEF TypeOK, Take

LEMMA GotType ==
  ASSUME TypeOK, NEW old \in Field
  PROVE  Got(old) \in Field
<1>1. CASE fail
  BY <1>1 DEF Got
<1>2. CASE ~fail /\ getPos < Len(fields)
  <2>1. fields[getPos + 1] \in Field
    BY <1>2 DEF TypeOK
  <2> QED
    BY <1>2, <2>1 DEF Got
<1>3. CASE ~fail /\ ~(getPos < Len(fields))
  BY <1>3, NoFieldType DEF Got
<1> QED
  BY <1>1, <1>2, <1>3

LEMMA TypeNext == TypeOK /\ [Next]_vars => TypeOK'
<1> SUFFICES ASSUME TypeOK, [Next]_vars PROVE TypeOK'
  OBVIOUS
<1> USE DEF Goto
<1>1. ASSUME NEW t \in Writers, NEW c \in Command, CallWrite(t, c) PROVE TypeOK'
  BY <1>1 DEF TypeOK, CallWrite, Thread, WriterAt, ReaderAt, shared, mutexes
<1>2. ASSUME NEW t \in Readers, NEW cs \in SUBSET Command, CallRead(t, cs) PROVE TypeOK'
  BY <1>2 DEF TypeOK, CallRead, Thread, WriterAt, ReaderAt, shared, mutexes, NoField, Field, Kind
<1>3. ASSUME NEW t \in Thread, LockTimed(t) PROVE TypeOK'
  BY <1>3 DEF TypeOK, LockTimed, Thread, WriterAt, ReaderAt, shared, locals
<1>4. ASSUME NEW t \in Thread, LockLog(t) PROVE TypeOK'
  BY <1>4 DEF TypeOK, LockLog, Thread, WriterAt, ReaderAt, shared, locals
<1>5. ASSUME NEW t \in Thread, WriteMetadata(t) PROVE TypeOK'
  BY <1>5, PutType DEF TypeOK, WriteMetadata, Kind, WriterAt, ReaderAt, mutexes, locals
<1>6. ASSUME NEW t \in Thread, WriteCommand(t) PROVE TypeOK'
  BY <1>6, PutType DEF TypeOK, WriteCommand, Kind, WriterAt, ReaderAt, mutexes, locals
<1>7. ASSUME NEW t \in Thread, WriteResponse(t) PROVE TypeOK'
  BY <1>7, PutType DEF TypeOK, WriteResponse, Kind, WriterAt, ReaderAt, mutexes, locals
<1>8. ASSUME NEW t \in Thread, WriteTime(t) PROVE TypeOK'
  BY <1>8, PutType DEF TypeOK, WriteTime, Kind, WriterAt, ReaderAt, mutexes, locals
<1>9. ASSUME NEW t \in Thread, ReadMetadata(t) PROVE TypeOK'
  BY <1>9, TakeType, GotType, NoFieldType DEF TypeOK, ReadMetadata, WriterAt, ReaderAt, mutexes, locals
<1>10. ASSUME NEW t \in Thread, ReadCommandField(t) PROVE TypeOK'
  BY <1>10, TakeType, GotType, NoFieldType DEF TypeOK, ReadCommandField, WriterAt, ReaderAt, mutexes
<1>11. ASSUME NEW t \in Thread, ReadResponse(t) PROVE TypeOK'
  BY <1>11, TakeType, GotType, NoFieldType DEF TypeOK, ReadResponse, WriterAt, ReaderAt, NoField, Field, Kind
<1>12. ASSUME NEW t \in Thread, ReadTime(t) PROVE TypeOK'
  BY <1>12, TakeType, GotType, NoFieldType DEF TypeOK, ReadTime, WriterAt, ReaderAt, locals
<1>13. ASSUME NEW t \in Thread, CheckCommand(t) PROVE TypeOK'
  BY <1>13 DEF TypeOK, CheckCommand, WriterAt, ReaderAt, shared, mutexes, locals
<1>14. CASE UNCHANGED vars
  BY <1>14 DEF TypeOK, vars, shared, mutexes, locals
<1> QED
  BY <1>1, <1>2, <1>3, <1>4, <1>5, <1>6, <1>7, <1>8, <1>9, <1>10, <1>11, <1>12, <1>13,
     <1>14 DEF Next, Step

\* The state of the log and of the calls on it keeps its types.
THEOREM TypeCorrect == Spec => []TypeOK
<1>1. Init => TypeOK
  BY TypeInit
<1>2. TypeOK /\ [Next]_vars => TypeOK'
  BY TypeNext
<1> QED
  BY <1>1, <1>2, PTL DEF Spec

-----------------------------------------------------------------------------
(* Mutual exclusion. *)

LEMMA MutexInit == Init => MutexInv
BY LogAssumption DEF Init, MutexInv, InLog, InTimed, TimedOnly, WriterAt, Thread

LEMMA MutexNext == TypeOK /\ MutexInv /\ [Next]_vars => MutexInv'
<1> SUFFICES ASSUME TypeOK, MutexInv, [Next]_vars PROVE MutexInv'
  OBVIOUS
<1> USE LogAssumption DEF Goto, MutexInv, InLog, InTimed, TimedOnly, WriterAt
<1>1. ASSUME NEW t \in Writers, NEW c \in Command, CallWrite(t, c) PROVE MutexInv'
  BY <1>1 DEF TypeOK, CallWrite, Thread, mutexes
<1>2. ASSUME NEW t \in Readers, NEW cs \in SUBSET Command, CallRead(t, cs) PROVE MutexInv'
  BY <1>2 DEF TypeOK, CallRead, Thread, mutexes
<1>3. ASSUME NEW t \in Thread, LockTimed(t) PROVE MutexInv'
  BY <1>3 DEF TypeOK, LockTimed
<1>4. ASSUME NEW t \in Thread, LockLog(t) PROVE MutexInv'
  BY <1>4 DEF TypeOK, LockLog
<1>5. ASSUME NEW t \in Thread, WriteMetadata(t) PROVE MutexInv'
  BY <1>5 DEF TypeOK, WriteMetadata, mutexes
<1>6. ASSUME NEW t \in Thread, WriteCommand(t) PROVE MutexInv'
  BY <1>6 DEF TypeOK, WriteCommand, mutexes
<1>7. ASSUME NEW t \in Thread, WriteResponse(t) PROVE MutexInv'
  BY <1>7 DEF TypeOK, WriteResponse
<1>8. ASSUME NEW t \in Thread, WriteTime(t) PROVE MutexInv'
  BY <1>8 DEF TypeOK, WriteTime
<1>9. ASSUME NEW t \in Thread, ReadMetadata(t) PROVE MutexInv'
  BY <1>9 DEF TypeOK, ReadMetadata, mutexes
<1>10. ASSUME NEW t \in Thread, ReadCommandField(t) PROVE MutexInv'
  BY <1>10 DEF TypeOK, ReadCommandField, mutexes
<1>11. ASSUME NEW t \in Thread, ReadResponse(t) PROVE MutexInv'
  BY <1>11 DEF TypeOK, ReadResponse
<1>12. ASSUME NEW t \in Thread, ReadTime(t) PROVE MutexInv'
  BY <1>12 DEF TypeOK, ReadTime
<1>13. ASSUME NEW t \in Thread, CheckCommand(t) PROVE MutexInv'
  BY <1>13 DEF TypeOK, CheckCommand, mutexes
<1>14. CASE UNCHANGED vars
  BY <1>14 DEF vars, mutexes
<1> QED
  BY <1>1, <1>2, <1>3, <1>4, <1>5, <1>6, <1>7, <1>8, <1>9, <1>10, <1>11, <1>12, <1>13,
     <1>14 DEF Next, Step

\* At most one thread uses the stream.
LEMMA Exclusion ==
  ASSUME MutexInv, NEW t \in Thread, NEW u \in Thread,
         pc[t] \in UsesStream, pc[u] \in UsesStream
  PROVE  t = u
<1>1. CASE Timed
  BY <1>1 DEF MutexInv, UsesStream, InTimed
<1>2. CASE ~Timed
  BY <1>2 DEF MutexInv, UsesStream, TimedOnly
<1> QED
  BY <1>1, <1>2

-----------------------------------------------------------------------------
(* The records of the stream. *)

\* Neighbours in a log of whole records.
LEMMA LogOfFollows ==
  ASSUME NEW n \in Nat, NEW i \in 2 .. Len(LogOf(n))
  PROVE  Follows(LogOf(n)[i - 1], LogOf(n)[i])
<1>1. n # 0
  BY DEF LogOf
<1> DEFINE size == Len(RecordKinds)
           place == (i - 2) % size
           before == (i - 3) % size
<1>2. CASE Timed
  <2>1. size = 3 /\ RecordKinds = <<"command", "response", "time">>
    BY <1>2 DEF RecordKinds
  <2>2. i \in 2 .. 1 + 3 * n
    BY <1>1, <2>1 DEF LogOf
  <2>3. LogOf(n)[i] = [kind |-> RecordKinds[place + 1], call |-> (i - 2) \div 3 + 1]
    BY <1>1, <2>1, <2>2 DEF LogOf
  <2>4. i = 2 => LogOf(n)[i - 1].kind = "metadata" /\ place = 0
    BY <1>1, <2>1, <2>2 DEF LogOf
  <2>5. i # 2 => LogOf(n)[i - 1] = [kind |-> RecordKinds[before + 1],
                                    call |-> (i - 3) \div 3 + 1]
    BY <1>1, <2>1, <2>2 DEF LogOf
  <2>6. i # 2 => \/ place = 0 /\ before = 2
                 \/ place \in {1, 2} /\ before = place - 1 /\ (i - 2) \div 3 = (i - 3) \div 3
    BY <2>1, <2>2
  <2>7. RecordKinds[1] = "command" /\ RecordKinds[2] = "response" /\ RecordKinds[3] = "time"
    BY <2>1
  <2> HIDE DEF place, before, size
  <2>8. CASE i = 2
    BY <1>2, <2>3, <2>4, <2>7, <2>8 DEF Follows, LastKind
  <2>9. CASE i # 2 /\ place = 0
    BY <1>2, <2>3, <2>5, <2>6, <2>7, <2>9 DEF Follows, LastKind
  <2>10. CASE i # 2 /\ place = 1
    BY <1>2, <2>3, <2>5, <2>6, <2>7, <2>10 DEF Follows, LastKind
  <2>11. CASE i # 2 /\ place = 2
    BY <1>2, <2>3, <2>5, <2>6, <2>7, <2>11 DEF Follows, LastKind
  <2> QED
    BY <2>6, <2>8, <2>9, <2>10, <2>11
<1>3. CASE ~Timed
  <2>1. size = 2 /\ RecordKinds = <<"command", "response">>
    BY <1>3 DEF RecordKinds
  <2>2. i \in 2 .. 1 + 2 * n
    BY <1>1, <2>1 DEF LogOf
  <2>3. LogOf(n)[i] = [kind |-> RecordKinds[place + 1], call |-> (i - 2) \div 2 + 1]
    BY <1>1, <2>1, <2>2 DEF LogOf
  <2>4. i = 2 => LogOf(n)[i - 1].kind = "metadata" /\ place = 0
    BY <1>1, <2>1, <2>2 DEF LogOf
  <2>5. i # 2 => LogOf(n)[i - 1] = [kind |-> RecordKinds[before + 1],
                                    call |-> (i - 3) \div 2 + 1]
    BY <1>1, <2>1, <2>2 DEF LogOf
  <2>6. i # 2 => \/ place = 0 /\ before = 1
                 \/ place = 1 /\ before = 0 /\ (i - 2) \div 2 = (i - 3) \div 2
    BY <2>1, <2>2
  <2>7. RecordKinds[1] = "command" /\ RecordKinds[2] = "response"
    BY <2>1
  <2> HIDE DEF place, before, size
  <2>8. CASE i = 2
    BY <1>3, <2>3, <2>4, <2>7, <2>8 DEF Follows, LastKind
  <2>9. CASE i # 2 /\ place = 0
    BY <1>3, <2>3, <2>5, <2>6, <2>7, <2>9 DEF Follows, LastKind
  <2>10. CASE i # 2 /\ place = 1
    BY <1>3, <2>3, <2>5, <2>6, <2>7, <2>10 DEF Follows, LastKind
  <2> QED
    BY <2>6, <2>8, <2>9, <2>10
<1> QED
  BY <1>2, <1>3

LEMMA FramingInit == Init => Framing
<1> SUFFICES ASSUME NEW n \in Nat, n = Len(OldCommands), fields = LogOf(n)
             PROVE  Framing
  BY LogAssumption DEF Init
<1>1. fields # <<>> => fields[1].kind = "metadata"
  BY DEF LogOf, RecordKinds
<1> QED
  BY <1>1, LogOfFollows DEF Framing

\* A stream with no writer inside a record ends with a whole record.
LEMMA LastInit == Init => fields = <<>> \/ EndsRecord(Last)
<1> SUFFICES ASSUME NEW n \in Nat, n = Len(OldCommands), fields = LogOf(n)
             PROVE  fields = <<>> \/ EndsRecord(Last)
  BY LogAssumption DEF Init
<1>1. CASE n = 0
  BY <1>1 DEF LogOf
<1>2. CASE n # 0 /\ Timed
  BY <1>2, SMTT(30) DEF LogOf, RecordKinds, EndsRecord, Last, LastKind
<1>3. CASE n # 0 /\ ~Timed
  BY <1>3, SMTT(30) DEF LogOf, RecordKinds, EndsRecord, Last, LastKind
<1> QED
  BY <1>1, <1>2, <1>3

\* What an append leaves of the stream.
LEMMA Appended ==
  ASSUME TypeOK, NEW f \in Field, fields' = Append(fields, f)
  PROVE  /\ fields' # <<>>
         /\ Len(fields') = Len(fields) + 1
         /\ Last' = f
         /\ \A i \in 1 .. Len(fields) : fields'[i] = fields[i]
<1>1. fields \in Seq(Field)
  BY DEF TypeOK
<1>2. /\ Len(fields') = Len(fields) + 1
      /\ fields'[Len(fields) + 1] = f
      /\ \A i \in 1 .. Len(fields) : fields'[i] = fields[i]
  BY <1>1
<1>3. fields' # <<>>
  BY <1>1, <1>2
<1> QED
  BY <1>2, <1>3 DEF Last

LEMMA FramingAppend ==
  ASSUME TypeOK, Framing, NEW f \in Field, fields' = Append(fields, f),
         fields = <<>> => f.kind = "metadata",
         fields # <<>> => Follows(Last, f)
  PROVE  Framing'
<1>1. fields \in Seq(Field) /\ Len(fields) \in Nat
  BY DEF TypeOK
<1>2. fields' # <<>> => fields'[1].kind = "metadata"
  BY <1>1, Appended DEF Framing
<1>3. ASSUME NEW i \in 2 .. Len(fields')
      PROVE  Follows(fields'[i - 1], fields'[i])
  <2>1. CASE i <= Len(fields)
    BY <2>1, <1>1, Appended DEF Framing
  <2>2. CASE i = Len(fields) + 1
    BY <2>2, <1>1, Appended DEF Last
  <2> QED
    BY <1>1, <2>1, <2>2, Appended
<1> QED
  BY <1>2, <1>3 DEF Framing, Follows

\* A write to a good stream becomes its last field.
LEMMA PutAppends ==
  ASSUME TypeOK, NEW t \in Thread, NEW kind \in Kind, Put(kind, mine[t]), ~fail
  PROVE  /\ fields' = Append(fields, [kind |-> kind, call |-> mine[t]])
         /\ fields' # <<>>
         /\ Last' = [kind |-> kind, call |-> mine[t]]
<1>1. [kind |-> kind, call |-> mine[t]] \in Field
  BY DEF TypeOK, Field
<1>2. fields' = Append(fields, [kind |-> kind, call |-> mine[t]])
  BY DEF Put
<1> QED
  BY <1>1, <1>2, Appended

\* What a writer finds at the end of a good stream.
LEMMA WriterFinds ==
  ASSUME TypeOK, MutexInv, WriterInv, NEW t \in Thread, ~fail
  PROVE  /\ pc[t] = "wMetadata" => fields = <<>>
         /\ pc[t] = "wCommand" => fields # <<>> /\ EndsRecord(Last)
         /\ pc[t] = "wResponse" =>
              fields # <<>> /\ Last = [kind |-> "command", call |-> mine[t]]
         /\ pc[t] = "wTime" =>
              fields # <<>> /\ Last = [kind |-> "response", call |-> mine[t]]
<1>1. pc[t] = "wMetadata" => fields = <<>>
  BY DEF WriterInv, MutexInv, WriterAt
<1>2. pc[t] = "wCommand" => fields # <<>>
  BY DEF WriterInv, MutexInv, WriterAt
<1>3. ASSUME pc[t] = "wCommand" PROVE EndsRecord(Last)
  <2>1. \A u \in Thread : pc[u] \notin {"wResponse", "wTime"}
    BY <1>3, Exclusion DEF UsesStream, InLog
  <2> QED
    BY <1>2, <1>3, <2>1 DEF WriterInv
<1> QED
  BY <1>1, <1>2, <1>3 DEF WriterInv

\* A write of one field, by the thread whose turn it is, keeps the framing.
LEMMA FramingNext ==
  TypeOK /\ Framing /\ MutexInv /\ WriterInv /\ [Next]_vars => Framing'
<1> SUFFICES ASSUME TypeOK, Framing, MutexInv, WriterInv, [Next]_vars PROVE Framing'
  OBVIOUS
<1>0. ASSUME fields' = fields PROVE Framing'
  BY <1>0 DEF Framing, Follows
<1>1. ASSUME NEW t \in Thread, NEW kind \in Kind, Put(kind, mine[t]),
             ~fail => /\ fields = <<>> => kind = "metadata"
                      /\ fields # <<>> => Follows(Last, [kind |-> kind, call |-> mine[t]])
      PROVE  Framing'
  <2>1. CASE fail
    BY <1>0, <1>1, <2>1 DEF Put
  <2>2. CASE ~fail
    <3>1. [kind |-> kind, call |-> mine[t]] \in Field
      BY DEF TypeOK, Field
    <3>2. fields' = Append(fields, [kind |-> kind, call |-> mine[t]])
      BY <1>1, <2>2 DEF Put
    <3> QED
      BY <1>1, <2>2, <3>1, <3>2, FramingAppend
  <2> QED
    BY <2>1, <2>2
<1>2. ASSUME NEW t \in Thread, WriteMetadata(t) PROVE Framing'
  BY <1>1, <1>2, WriterFinds DEF WriteMetadata, Goto, Kind
<1>3. ASSUME NEW t \in Thread, WriteCommand(t) PROVE Framing'
  BY <1>1, <1>3, WriterFinds DEF WriteCommand, Goto, Kind, Follows, EndsRecord
<1>4. ASSUME NEW t \in Thread, WriteResponse(t) PROVE Framing'
  BY <1>1, <1>4, WriterFinds DEF WriteResponse, Goto, Kind, Follows
<1>5. ASSUME NEW t \in Thread, WriteTime(t) PROVE Framing'
  BY <1>1, <1>5, WriterFinds DEF WriteTime, Goto, Kind, Follows, MutexInv, TimedOnly
<1>6. ASSUME NEW t \in Thread,
             \/ LockTimed(t) \/ LockLog(t) \/ ReadMetadata(t) \/ ReadCommandField(t)
             \/ ReadResponse(t) \/ ReadTime(t) \/ CheckCommand(t)
      PROVE  Framing'
  BY <1>0, <1>6 DEF LockTimed, LockLog, ReadMetadata, ReadCommandField, ReadResponse,
     ReadTime, CheckCommand, shared
<1>7. ASSUME NEW t \in Thread, NEW c \in Command, CallWrite(t, c) PROVE Framing'
  BY <1>0, <1>7 DEF CallWrite, shared
<1>8. ASSUME NEW t \in Thread, NEW cs \in SUBSET Command, CallRead(t, cs) PROVE Framing'
  BY <1>0, <1>8 DEF CallRead, shared
<1>9. CASE UNCHANGED vars
  BY <1>0, <1>9 DEF vars, shared
<1> QED
  BY <1>2, <1>3, <1>4, <1>5, <1>6, <1>7, <1>8, <1>9 DEF Next, Step, Thread

-----------------------------------------------------------------------------
(* The writers. *)

LEMMA WriterInit == Init => WriterInv
BY LastInit, LogAssumption DEF Init, WriterInv, LogOf

LEMMA WriterNext == TypeOK /\ MutexInv /\ WriterInv /\ [Next]_vars => WriterInv'
<1> SUFFICES ASSUME TypeOK, MutexInv, WriterInv, [Next]_vars PROVE WriterInv'
  OBVIOUS
<1> USE DEF Goto
\* One thread moves: the others are outside the stream when it is inside.
<1>0. ASSUME NEW t \in Thread, pc[t] \in UsesStream, NEW u \in Thread, u # t
      PROVE  pc[u] \notin UsesStream
  BY <1>0, Exclusion
\* A step that leaves the stream alone and moves no thread into or out of a record.
<1>1. ASSUME UNCHANGED <<fields, metadataWritten>>, fail => fail',
             \A u \in Thread :
               /\ pc'[u] \in {"wMetadata", "wCommand", "wResponse", "wTime"} =>
                    pc'[u] = pc[u] /\ mine'[u] = mine[u]
               /\ pc[u] \in {"wResponse", "wTime"} => pc'[u] = pc[u]
      PROVE  WriterInv'
  BY <1>1 DEF WriterInv, Last, EndsRecord
<1>2. ASSUME NEW t \in Thread, WriteMetadata(t) PROVE WriterInv'
  <2>1. CASE fail
    BY <1>0, <1>2, <2>1 DEF WriteMetadata, WriterInv, TypeOK, UsesStream, InLog
  <2>2. CASE ~fail
    <3>1. fields' # <<>> /\ Last' = [kind |-> "metadata", call |-> mine[t]]
      BY <1>2, <2>2, PutAppends DEF WriteMetadata, Kind
    <3> QED
      BY <1>0, <1>2, <2>2, <3>1 DEF WriteMetadata, WriterInv, TypeOK, UsesStream, InLog,
         EndsRecord
  <2> QED
    BY <2>1, <2>2
<1>3. ASSUME NEW t \in Thread, WriteCommand(t) PROVE WriterInv'
  <2>1. CASE fail
    BY <1>0, <1>3, <2>1 DEF WriteCommand, WriterInv, TypeOK, UsesStream, InLog
  <2>2. CASE ~fail
    <3>1. fields' # <<>> /\ Last' = [kind |-> "command", call |-> mine[t]]
      BY <1>3, <2>2, PutAppends DEF WriteCommand, Kind
    <3> QED
      BY <1>0, <1>3, <2>2, <3>1 DEF WriteCommand, WriterInv, TypeOK, UsesStream, InLog,
         locals
  <2> QED
    BY <2>1, <2>2
<1>4. ASSUME NEW t \in Thread, WriteResponse(t) PROVE WriterInv'
  <2>1. CASE fail
    BY <1>0, <1>4, <2>1 DEF WriteResponse, WriterInv, TypeOK, UsesStream, InLog
  <2>2. CASE ~fail
    <3>1. fields' # <<>> /\ Last' = [kind |-> "response", call |-> mine[t]]
      BY <1>4, <2>2, PutAppends DEF WriteResponse, Kind
    <3>2. Writers # {} /\ metadataWritten
      BY <1>4, <2>2 DEF WriteResponse, WriterInv, MutexInv, WriterAt
    <3> QED
      BY <1>0, <1>4, <2>2, <3>1, <3>2 DEF WriteResponse, WriterInv, TypeOK, UsesStream, InLog,
         locals, EndsRecord, LastKind
  <2> QED
    BY <2>1, <2>2
<1>5. ASSUME NEW t \in Thread, WriteTime(t) PROVE WriterInv'
  <2>1. CASE fail
    BY <1>0, <1>5, <2>1 DEF WriteTime, WriterInv, TypeOK, UsesStream, InLog
  <2>2. CASE ~fail
    <3>1. fields' # <<>> /\ Last' = [kind |-> "time", call |-> mine[t]]
      BY <1>5, <2>2, PutAppends DEF WriteTime, Kind
    <3>2. Writers # {} /\ metadataWritten /\ Timed
      BY <1>5, <2>2 DEF WriteTime, WriterInv, MutexInv, WriterAt, TimedOnly
    <3> QED
      BY <1>0, <1>5, <2>2, <3>1, <3>2 DEF WriteTime, WriterInv, TypeOK, UsesStream, InLog,
         locals, EndsRecord, LastKind
  <2> QED
    BY <2>1, <2>2
<1>6. ASSUME NEW t \in Thread, LockLog(t) PROVE WriterInv'
  <2>1. \A u \in Thread : pc[u] \notin InLog
    BY <1>6, LogAssumption DEF LockLog, MutexInv
  <2>2. CASE pc[t] = "wLock" /\ metadataWritten
    BY <1>6, <2>1, <2>2 DEF LockLog, WriterInv, TypeOK, shared, locals, Last, EndsRecord, InLog
  <2>3. CASE pc[t] = "wLock" /\ ~metadataWritten
    BY <1>6, <2>1, <2>3 DEF LockLog, WriterInv, TypeOK, shared, locals, Last, EndsRecord, InLog
  <2>4. CASE pc[t] = "rLock"
    BY <1>1, <1>6, <2>4 DEF LockLog, TypeOK, shared, locals
  <2> QED
    BY <1>6, <2>2, <2>3, <2>4 DEF LockLog
<1>7. ASSUME NEW t \in Thread, LockTimed(t) PROVE WriterInv'
  BY <1>1, <1>7 DEF LockTimed, TypeOK, shared, locals
<1>8. ASSUME NEW t \in Thread, ReadMetadata(t) PROVE WriterInv'
  BY <1>1, <1>8 DEF ReadMetadata, Take, TypeOK, locals
<1>9. ASSUME NEW t \in Thread, ReadCommandField(t) PROVE WriterInv'
  BY <1>1, <1>9 DEF ReadCommandField, Take, TypeOK
<1>10. ASSUME NEW t \in Thread, ReadResponse(t) PROVE WriterInv'
  BY <1>1, <1>10 DEF ReadResponse, Take, TypeOK
<1>11. ASSUME NEW t \in Thread, ReadTime(t) PROVE WriterInv'
  BY <1>1, <1>11 DEF ReadTime, Take, TypeOK, locals
<1>12. ASSUME NEW t \in Thread, CheckCommand(t) PROVE WriterInv'
  BY <1>1, <1>12 DEF CheckCommand, TypeOK, shared, locals
<1>13. ASSUME NEW t \in Writers, NEW c \in Command, CallWrite(t, c) PROVE WriterInv'
  BY <1>1, <1>13 DEF CallWrite, TypeOK, shared, Thread
<1>14. ASSUME NEW t \in Readers, NEW cs \in SUBSET Command, CallRead(t, cs) PROVE WriterInv'
  BY <1>1, <1>14 DEF CallRead, TypeOK, shared, Thread
<1>15. CASE UNCHANGED vars
  BY <1>1, <1>15 DEF vars, shared, locals
<1> QED
  BY <1>2, <1>3, <1>4, <1>5, <1>6, <1>7, <1>8, <1>9, <1>10, <1>11, <1>12, <1>13, <1>14,
     <1>15 DEF Next, Step

-----------------------------------------------------------------------------
(* The readers. *)

\* A getline that leaves the stream good took the field after getPos.
LEMMA Taken ==
  ASSUME TypeOK, Framing, Take, ~fail'
  PROVE  /\ ~fail
         /\ getPos' = getPos + 1
         /\ getPos' # 0
         /\ getPos = 0 => fields[1].kind = "metadata"
         /\ getPos # 0 => Follows(fields[getPos], fields[getPos + 1])
         /\ \A old \in Field : Got(old) = fields[getPos + 1]
<1>1. ~fail /\ getPos \in Nat /\ Len(fields) \in Nat /\ getPos < Len(fields)
  <2>1. ~fail /\ getPos # Len(fields)
    BY Zenon DEF Take
  <2>2. Len(fields) \in Nat /\ getPos \in 0 .. Len(fields)
    BY DEF TypeOK
  <2> QED
    BY <2>1, <2>2
<1>2. getPos' = getPos + 1 /\ \A old \in Field : Got(old) = fields[getPos + 1]
  BY <1>1 DEF Take, Got
<1>3. fields # <<>>
  BY <1>1
<1>4. getPos # 0 => Follows(fields[getPos], fields[getPos + 1])
  <2>1. SUFFICES ASSUME getPos # 0
                 PROVE  Follows(fields[getPos], fields[getPos + 1])
    OBVIOUS
  <2>2. getPos + 1 \in 2 .. Len(fields) /\ (getPos + 1) - 1 = getPos
    BY <1>1, <2>1
  <2> QED
    BY <2>2 DEF Framing
<1> QED
  BY <1>1, <1>2, <1>3, <1>4 DEF Framing

LEMMA ReaderInit == Init => ReaderInv
BY DEF Init, ReaderInv

LEMMA ReaderNext ==
  TypeOK /\ Framing /\ MutexInv /\ ReaderInv /\ [Next]_vars => ReaderInv'
<1> SUFFICES ASSUME TypeOK, Framing, MutexInv, ReaderInv, [Next]_vars PROVE ReaderInv'
  OBVIOUS
<1> USE DEF Goto
<1>0. ASSUME NEW t \in Thread, pc[t] \in UsesStream, NEW u \in Thread, u # t
      PROVE  pc[u] \notin UsesStream
  BY <1>0, Exclusion
\* A step in which no thread reads.
<1>1. ASSUME UNCHANGED <<getPos, fail, metadataRead>>,
             \A i \in 1 .. Len(fields) : fields'[i] = fields[i],
             \A u \in Thread :
               /\ pc'[u] \in {"rMetadata", "rCommand", "rResponse", "rTime"} =>
                    pc'[u] = pc[u] /\ logCommand'[u] = logCommand[u]
               /\ pc[u] \in {"rResponse", "rTime"} => pc'[u] = pc[u]
      PROVE  ReaderInv'
  <2>1. getPos # 0 => fields'[getPos] = fields[getPos]
    BY <1>1 DEF TypeOK
  <2> QED
    BY <1>1, <2>1 DEF ReaderInv, EndsRecord
<1>2. ASSUME NEW t \in Thread, NEW kind \in Kind, Put(kind, mine[t])
      PROVE  \A i \in 1 .. Len(fields) : fields'[i] = fields[i]
  <2>1. [kind |-> kind, call |-> mine[t]] \in Field
    BY DEF TypeOK, Field
  <2> QED
    BY <1>2, <2>1, Appended DEF Put
<1>3. ASSUME NEW t \in Thread, WriteMetadata(t) PROVE ReaderInv'
  BY <1>1, <1>2, <1>3 DEF WriteMetadata, TypeOK, Kind, locals
<1>4. ASSUME NEW t \in Thread, WriteCommand(t) PROVE ReaderInv'
  BY <1>1, <1>2, <1>4 DEF WriteCommand, TypeOK, Kind, locals
<1>5. ASSUME NEW t \in Thread, WriteResponse(t) PROVE ReaderInv'
  BY <1>1, <1>2, <1>5 DEF WriteResponse, TypeOK, Kind, locals
<1>6. ASSUME NEW t \in Thread, WriteTime(t) PROVE ReaderInv'
  BY <1>1, <1>2, <1>6 DEF WriteTime, TypeOK, Kind, locals
<1>7. ASSUME NEW t \in Thread, LockLog(t) PROVE ReaderInv'
  BY <1>7, LogAssumption DEF LockLog, ReaderInv, MutexInv, InLog, TypeOK, shared, locals,
     EndsRecord
<1>8. ASSUME NEW t \in Thread, LockTimed(t) PROVE ReaderInv'
  BY <1>1, <1>8 DEF LockTimed, TypeOK, shared, locals
<1>9. ASSUME NEW t \in Thread, ReadMetadata(t) PROVE ReaderInv'
  <2>1. CASE fail'
    BY <1>0, <1>9, <2>1 DEF ReadMetadata, ReaderInv, TypeOK, UsesStream, InLog
  <2>2. CASE ~fail'
    <3>1. ~fail /\ getPos = 0 /\ getPos' = 1 /\ fields[1].kind = "metadata"
      BY <1>9, <2>2, Taken DEF ReadMetadata, ReaderInv
    <3> QED
      BY <1>0, <1>9, <2>2, <3>1 DEF ReadMetadata, ReaderInv, TypeOK, UsesStream, InLog,
         EndsRecord
  <2> QED
    BY <2>1, <2>2
<1>10. ASSUME NEW t \in Thread, ReadCommandField(t) PROVE ReaderInv'
  <2>1. CASE fail'
    BY <1>0, <1>10, <2>1 DEF ReadCommandField, ReaderInv, TypeOK, UsesStream, InLog
  <2>2. CASE ~fail'
    <3>1. ~fail /\ getPos # 0 /\ getPos' = getPos + 1 /\ getPos' # 0
      BY <1>10, <2>2, Taken DEF ReadCommandField, ReaderInv
    <3>2. EndsRecord(fields[getPos])
      BY <1>0, <1>10, <3>1 DEF ReadCommandField, ReaderInv, UsesStream, InLog
    <3>3. fields[getPos + 1].kind = "command"
      BY <1>10, <2>2, <3>1, <3>2, Taken DEF ReadCommandField, EndsRecord, Follows, LastKind
    <3>4. logCommand'[t] = fields[getPos + 1]
      BY <1>10, <2>2, Taken DEF ReadCommandField, TypeOK
    <3> QED
      BY <1>0, <1>10, <2>2, <3>1, <3>3, <3>4 DEF ReadCommandField, ReaderInv, TypeOK,
         UsesStream, InLog
  <2> QED
    BY <2>1, <2>2
<1>11. ASSUME NEW t \in Thread, ReadResponse(t) PROVE ReaderInv'
  <2>1. CASE fail'
    BY <1>0, <1>11, <2>1 DEF ReadResponse, ReaderInv, TypeOK, UsesStream, InLog
  <2>2. CASE ~fail'
    <3>1. ~fail /\ getPos # 0 /\ getPos' = getPos + 1 /\ getPos' # 0
      BY <1>11, <2>2, Taken DEF ReadResponse, ReaderInv
    <3>2. fields[getPos + 1].kind = "response"
      BY <1>11, <2>2, <3>1, Taken DEF ReadResponse, ReaderInv, Follows, LastKind
    <3> QED
      BY <1>0, <1>11, <2>2, <3>1, <3>2 DEF ReadResponse, ReaderInv, TypeOK, UsesStream,
         InLog, EndsRecord, LastKind
  <2> QED
    BY <2>1, <2>2
<1>12. ASSUME NEW t \in Thread, ReadTime(t) PROVE ReaderInv'
  <2>1. CASE fail'
    BY <1>0, <1>12, <2>1 DEF ReadTime, ReaderInv, TypeOK, UsesStream, InLog
  <2>2. CASE ~fail'
    <3>1. ~fail /\ getPos # 0 /\ getPos' = getPos + 1 /\ getPos' # 0
      BY <1>12, <2>2, Taken DEF ReadTime, ReaderInv
    <3>2. Timed /\ fields[getPos + 1].kind = "time"
      BY <1>12, <2>2, <3>1, Taken DEF ReadTime, ReaderInv, Follows, LastKind, MutexInv,
         TimedOnly
    <3> QED
      BY <1>0, <1>12, <2>2, <3>1, <3>2 DEF ReadTime, ReaderInv, TypeOK, UsesStream,
         InLog, EndsRecord, LastKind
  <2> QED
    BY <2>1, <2>2
<1>13. ASSUME NEW t \in Thread, CheckCommand(t) PROVE ReaderInv'
  BY <1>1, <1>13 DEF CheckCommand, TypeOK, shared, locals
<1>14. ASSUME NEW t \in Writers, NEW c \in Command, CallWrite(t, c) PROVE ReaderInv'
  BY <1>1, <1>14 DEF CallWrite, TypeOK, shared, Thread
<1>15. ASSUME NEW t \in Readers, NEW cs \in SUBSET Command, CallRead(t, cs) PROVE ReaderInv'
  BY <1>1, <1>15 DEF CallRead, TypeOK, shared, Thread
<1>16. CASE UNCHANGED vars
  BY <1>1, <1>16 DEF vars, shared, locals
<1> QED
  BY <1>3, <1>4, <1>5, <1>6, <1>7, <1>8, <1>9, <1>10, <1>11, <1>12, <1>13, <1>14,
     <1>15, <1>16 DEF Next, Step

-----------------------------------------------------------------------------
(* What the calls return. *)

LEMMA ResultInit == Init => ResultInv
BY DEF Init, ResultInv, OneRecord

LEMMA ResultNext ==
  TypeOK /\ Framing /\ MutexInv /\ ReaderInv /\ ResultInv /\ [Next]_vars => ResultInv'
<1> SUFFICES ASSUME TypeOK, Framing, MutexInv, ReaderInv, ResultInv, [Next]_vars
             PROVE  ResultInv'
  OBVIOUS
<1> USE DEF Goto, BeforeResponse
\* A step that changes no result, except of a thread that goes on to read.
<1>1. ASSUME \A u \in Thread : pc'[u] \notin BeforeResponse =>
               /\ pc[u] \notin BeforeResponse
               /\ UNCHANGED <<logCommand[u], response[u]>>
      PROVE  ResultInv'
  BY <1>1 DEF ResultInv, OneRecord
<1>2. ASSUME NEW t \in Thread,
             \/ WriteMetadata(t) \/ WriteCommand(t) \/ WriteResponse(t) \/ WriteTime(t)
             \/ ReadMetadata(t) \/ ReadTime(t) \/ CheckCommand(t)
      PROVE  ResultInv'
  BY <1>1, <1>2 DEF WriteMetadata, WriteCommand, WriteResponse, WriteTime, ReadMetadata,
     ReadTime, CheckCommand, TypeOK, locals
<1>3. ASSUME NEW t \in Thread, LockTimed(t) PROVE ResultInv'
  BY <1>1, <1>3 DEF LockTimed, TypeOK, locals
<1>4. ASSUME NEW t \in Thread, LockLog(t) PROVE ResultInv'
  BY <1>1, <1>4 DEF LockLog, TypeOK, locals
<1>5. ASSUME NEW t \in Thread, ReadCommandField(t) PROVE ResultInv'
  BY <1>1, <1>5 DEF ReadCommandField, TypeOK
<1>6. ASSUME NEW t \in Thread, ReadResponse(t) PROVE ResultInv'
  <2>1. OneRecord(t)'
    <3>1. response'[t] = Got(NoField) /\ logCommand'[t] = logCommand[t]
      BY <1>6 DEF ReadResponse, TypeOK
    <3>2. CASE ~fail'
      <4>1. ~fail /\ getPos # 0 /\ Follows(fields[getPos], fields[getPos + 1])
        BY <1>6, <3>2, Taken DEF ReadResponse, ReaderInv
      <4>2. Got(NoField) = fields[getPos + 1]
        BY <1>6, <3>2, Taken, NoFieldType DEF ReadResponse
      <4>3. fields[getPos] = logCommand[t] /\ logCommand[t].kind = "command"
        BY <1>6, <4>1 DEF ReadResponse, ReaderInv
      <4>4. logCommand[t] = [kind |-> "command", call |-> logCommand[t].call]
        BY <4>3 DEF TypeOK, Field
      <4> QED
        BY <3>1, <4>1, <4>2, <4>3, <4>4 DEF Follows, OneRecord, LastKind
    <3>3. CASE fail'
      <4>1. Got(NoField) = NoField
        <5>1. CASE fail
          BY <5>1 DEF Got
        <5>2. CASE ~fail
          <6>1. getPos = Len(fields)
            BY <1>6, <3>3, <5>2, Zenon DEF ReadResponse, Take
          <6>2. ~(getPos < Len(fields))
            BY <6>1 DEF TypeOK
          <6> QED
            BY <5>2, <6>2 DEF Got
        <5> QED
          BY <5>1, <5>2
      <4> QED
        BY <3>1, <4>1 DEF OneRecord
    <3> QED
      BY <3>2, <3>3
  <2>2. ASSUME NEW u \in Thread, u # t, pc'[u] \notin BeforeResponse
        PROVE  OneRecord(u)'
    BY <1>6, <2>2 DEF ReadResponse, ResultInv, OneRecord, TypeOK
  <2> QED
    BY <2>1, <2>2 DEF ResultInv
<1>7. ASSUME NEW t \in Writers, NEW c \in Command, CallWrite(t, c) PROVE ResultInv'
  BY <1>1, <1>7 DEF CallWrite, TypeOK, Thread
<1>8. ASSUME NEW t \in Readers, NEW cs \in SUBSET Command, CallRead(t, cs) PROVE ResultInv'
  BY <1>1, <1>8 DEF CallRead, TypeOK, Thread
<1>9. CASE UNCHANGED vars
  BY <1>1, <1>9 DEF vars, locals
<1> QED
  BY <1>2, <1>3, <1>4, <1>5, <1>6, <1>7, <1>8, <1>9 DEF Next, Step

-----------------------------------------------------------------------------
(* The calls that the fields come from. *)

\* A write() call has a number of its own, which the fields it leaves carry; the field
\* that ends its record is the last thing it writes.
CallsInv ==
  /\ Len(issued) <= Len(OldCommands) + MaxWrites
  /\ \A i \in 1 .. Len(fields) : fields[i].call \in 1 .. Len(issued)
  /\ \A t \in Thread : logCommand[t] = NoField \/ logCommand[t].call \in 1 .. Len(issued)
  /\ \A t \in Thread : pc[t] \in WriterAt =>
       /\ mine[t] # 0
       /\ \A i \in 1 .. Len(fields) : fields[i] # [kind |-> LastKind, call |-> mine[t]]
  /\ \A t, u \in Thread :
       pc[t] \in WriterAt /\ pc[u] \in WriterAt /\ mine[t] = mine[u] => t = u

\* While the stream is good, the record of a call is there or its writer is at it.
Logged(n) == \E i \in 1 .. Len(fields) : fields[i] = [kind |-> LastKind, call |-> n]
Writing(n) == \E t \in Writers : mine[t] = n /\ pc[t] \in WriterAt
LoggedInv == ~fail => \A n \in 1 .. Len(issued) : Logged(n) \/ Writing(n)

\* What one field is follows from its place.
KindAt(i) == IF i = 1 THEN "metadata" ELSE RecordKinds[((i - 2) % Len(RecordKinds)) + 1]
Layout == \A i \in 1 .. Len(fields) : fields[i].kind = KindAt(i)

\* With one reader, who finds the end of the log has an empty response.
OneReader == \A t, u \in Readers : t = u
EndInv ==
  /\ \A t \in Thread : pc[t] \in ReaderAt => t \in Readers
  /\ \A t \in Readers :
       /\ pc[t] \in {"rTime", "rCheck"} /\ fail => response[t] = NoField
       /\ pc[t] \notin ReaderAt /\ want[t] # {} /\ response[t] # NoField => Matches(t)
\* The calls and the places of the fields that a stream holds at the start.
LEMMA LogOfCalls ==
  ASSUME NEW n \in Nat, NEW i \in 1 .. Len(LogOf(n))
  PROVE  LogOf(n)[i].call \in 1 .. n /\ LogOf(n)[i].kind = KindAt(i)
<1>1. n # 0
  BY DEF LogOf
<1>2. CASE Timed
  <2>1. Len(RecordKinds) = 3
    BY <1>2 DEF RecordKinds
  <2>2. i \in 1 .. 1 + 3 * n
    BY <1>1, <2>1 DEF LogOf
  <2>3. LogOf(n)[i] = IF i = 1 THEN [kind |-> "metadata", call |-> 1]
                      ELSE [kind |-> RecordKinds[((i - 2) % 3) + 1], call |-> ((i - 2) \div 3) + 1]
    BY <1>1, <2>1, <2>2 DEF LogOf
  <2> QED
    BY <1>1, <2>1, <2>2, <2>3 DEF KindAt
<1>3. CASE ~Timed
  <2>1. Len(RecordKinds) = 2
    BY <1>3 DEF RecordKinds
  <2>2. i \in 1 .. 1 + 2 * n
    BY <1>1, <2>1 DEF LogOf
  <2>3. LogOf(n)[i] = IF i = 1 THEN [kind |-> "metadata", call |-> 1]
                      ELSE [kind |-> RecordKinds[((i - 2) % 2) + 1], call |-> ((i - 2) \div 2) + 1]
    BY <1>1, <2>1, <2>2 DEF LogOf
  <2> QED
    BY <1>1, <2>1, <2>2, <2>3 DEF KindAt
<1> QED
  BY <1>2, <1>3

\* Where the records of a stream end at the start.
LEMMA LogOfEnds ==
  ASSUME NEW n \in Nat, NEW r \in 1 .. n
  PROVE  /\ 1 + Len(RecordKinds) * r \in 1 .. Len(LogOf(n))
         /\ LogOf(n)[1 + Len(RecordKinds) * r] = [kind |-> LastKind, call |-> r]
<1>1. CASE Timed
  <2>1. Len(RecordKinds) = 3 /\ RecordKinds[3] = "time"
    BY <1>1 DEF RecordKinds
  <2>2. 1 + 3 * r \in 1 .. 1 + 3 * n /\ 1 + 3 * r # 1
    OBVIOUS
  <2>3. /\ Len(LogOf(n)) = 1 + 3 * n
        /\ LogOf(n)[1 + 3 * r] = [kind |-> RecordKinds[((1 + 3 * r - 2) % 3) + 1],
                                  call |-> ((1 + 3 * r - 2) \div 3) + 1]
    BY <2>1, <2>2 DEF LogOf
  <2>4. (1 + 3 * r - 2) % 3 = 2 /\ (1 + 3 * r - 2) \div 3 = r - 1
    OBVIOUS
  <2>5. LogOf(n)[1 + 3 * r] = [kind |-> "time", call |-> r]
    BY <2>1, <2>3, <2>4
  <2> QED
    BY <1>1, <2>1, <2>2, <2>3, <2>5 DEF LastKind
<1>2. CASE ~Timed
  <2>1. Len(RecordKinds) = 2 /\ RecordKinds[2] = "response"
    BY <1>2 DEF RecordKinds
  <2>2. 1 + 2 * r \in 1 .. 1 + 2 * n /\ 1 + 2 * r # 1
    OBVIOUS
  <2>3. /\ Len(LogOf(n)) = 1 + 2 * n
        /\ LogOf(n)[1 + 2 * r] = [kind |-> RecordKinds[((1 + 2 * r - 2) % 2) + 1],
                                  call |-> ((1 + 2 * r - 2) \div 2) + 1]
    BY <2>1, <2>2 DEF LogOf
  <2>4. (1 + 2 * r - 2) % 2 = 1 /\ (1 + 2 * r - 2) \div 2 = r - 1
    OBVIOUS
  <2>5. LogOf(n)[1 + 2 * r] = [kind |-> "response", call |-> r]
    BY <2>1, <2>3, <2>4
  <2> QED
    BY <1>2, <2>1, <2>2, <2>3, <2>5 DEF LastKind
<1> QED
  BY <1>1, <1>2

LEMMA CallsInit == Init => CallsInv
<1> SUFFICES ASSUME Init PROVE CallsInv
  OBVIOUS
<1>1. Len(OldCommands) \in Nat
  BY LogAssumption
<1>2. \A i \in 1 .. Len(fields) : fields[i].call \in 1 .. Len(issued)
  BY <1>1, LogOfCalls DEF Init
<1> QED
  BY <1>1, <1>2, LogAssumption DEF Init, CallsInv, WriterAt

LEMMA CallsNext == TypeOK /\ MutexInv /\ CallsInv /\ [Next]_vars => CallsInv'
<1> SUFFICES ASSUME TypeOK, MutexInv, CallsInv, [Next]_vars PROVE CallsInv'
  OBVIOUS
<1> USE DEF Goto
\* A step that writes nothing.
<1>1. ASSUME UNCHANGED <<fields, issued, mine>>,
             \A u \in Thread : pc'[u] \in WriterAt => pc[u] \in WriterAt,
             \A u \in Thread : \/ logCommand'[u] \in {logCommand[u], NoField}
                               \/ \E i \in 1 .. Len(fields) : logCommand'[u] = fields[i]
      PROVE  CallsInv'
  BY <1>1 DEF CallsInv
\* A step of write() in which t writes one field.
<1>2. ASSUME NEW t \in Thread, NEW kind \in Kind, pc[t] \in WriterAt, Put(kind, mine[t]),
             UNCHANGED <<issued, mine, logCommand>>,
             \A u \in Thread : pc'[u] \in WriterAt => pc[u] \in WriterAt,
             kind = LastKind => pc'[t] \notin WriterAt
      PROVE  CallsInv'
  <2>1. CASE fail
    BY <1>1, <1>2, <2>1 DEF Put
  <2>2. CASE ~fail
    <3> DEFINE f == [kind |-> kind, call |-> mine[t]]
    <3>1. f \in Field /\ fields' = Append(fields, f)
      BY <1>2, <2>2 DEF Put, TypeOK, Field
    <3>2. mine[t] \in 1 .. Len(issued)
      <4>1. mine[t] \in 0 .. Len(issued) /\ Len(issued) \in Nat
        BY DEF TypeOK
      <4>2. mine[t] # 0
        BY <1>2, Zenon DEF CallsInv
      <4> QED
        BY <4>1, <4>2
    <3>3. f.call = mine[t] /\ f.kind = kind
      OBVIOUS
    <3> HIDE DEF f
    <3>4. /\ Len(fields') = Len(fields) + 1
          /\ Len(fields) \in Nat
          /\ fields'[Len(fields) + 1] = f
          /\ \A i \in 1 .. Len(fields) : fields'[i] = fields[i]
      BY <3>1 DEF TypeOK
    <3>5. \A i \in 1 .. Len(fields') : fields'[i] = f \/ i \in 1 .. Len(fields)
      BY <3>4
    <3>6. \A i \in 1 .. Len(fields') : fields'[i].call \in 1 .. Len(issued')
      BY <1>2, <3>2, <3>3, <3>4, <3>5 DEF CallsInv
    <3>7. ASSUME NEW u \in Thread, pc'[u] \in WriterAt, NEW i \in 1 .. Len(fields'),
                 fields'[i] = [kind |-> LastKind, call |-> mine'[u]]
          PROVE  FALSE
      <4>1. pc[u] \in WriterAt /\ mine'[u] = mine[u]
        BY <1>2, <3>7
      <4>2. CASE i \in 1 .. Len(fields)
        BY <3>4, <3>7, <4>1, <4>2 DEF CallsInv
      <4>3. CASE fields'[i] = f
        <5>1. mine[u] = mine[t] /\ kind = LastKind
          BY <3>3, <3>7, <4>1, <4>3
        <5>2. u = t
          BY <1>2, <4>1, <5>1 DEF CallsInv
        <5> QED
          BY <1>2, <3>7, <5>1, <5>2
      <4> QED
        BY <3>5, <4>2, <4>3
    <3> QED
      BY <1>2, <3>6, <3>7 DEF CallsInv
  <2> QED
    BY <2>1, <2>2
<1>3. ASSUME NEW t \in Thread, NEW old \in {logCommand[t], NoField}
      PROVE  \/ Got(old) \in {logCommand[t], NoField}
             \/ \E i \in 1 .. Len(fields) : Got(old) = fields[i]
  <2>1. CASE ~fail /\ getPos < Len(fields)
    <3>1. getPos + 1 \in 1 .. Len(fields) /\ Got(old) = fields[getPos + 1]
      BY <2>1 DEF TypeOK, Got
    <3> QED
      BY <3>1
  <2>2. CASE ~(~fail /\ getPos < Len(fields))
    BY <2>2 DEF Got
  <2> QED
    BY <2>1, <2>2
<1>4. ASSUME NEW t \in Writers, NEW c \in Command, CallWrite(t, c) PROVE CallsInv'
  <2>1. /\ issued' = Append(issued, c)
        /\ Len(issued) \in Nat
        /\ Len(issued') = Len(issued) + 1
    BY <1>4 DEF CallWrite, TypeOK
  <2>2. \A i \in 1 .. Len(fields) : fields[i].call # Len(issued) + 1
    BY <2>1 DEF CallsInv
  <2>3. UNCHANGED <<fields, logCommand>> /\ t \in Thread
    BY <1>4 DEF CallWrite, shared, Thread
  <2>4. /\ mine'[t] = Len(issued) + 1
        /\ \A u \in Thread : u # t => mine'[u] = mine[u] /\ pc'[u] = pc[u]
        /\ \A u \in Thread : mine[u] \in 0 .. Len(issued)
    BY <1>4, <2>3 DEF CallWrite, TypeOK
  <2>5. Len(issued') <= Len(OldCommands) + MaxWrites
    BY <1>4, <2>1, LogAssumption DEF CallWrite
  <2>6. \A i \in 1 .. Len(fields') : fields'[i].call \in 1 .. Len(issued')
    BY <2>1, <2>3 DEF CallsInv
  <2>7. \A u \in Thread : logCommand'[u] = NoField \/ logCommand'[u].call \in 1 .. Len(issued')
    BY <2>1, <2>3 DEF CallsInv
  <2>8. ASSUME NEW u \in Thread, pc'[u] \in WriterAt
        PROVE  /\ mine'[u] # 0
               /\ \A i \in 1 .. Len(fields') : fields'[i] # [kind |-> LastKind, call |-> mine'[u]]
    <3>1. CASE u = t
      BY <2>1, <2>2, <2>3, <2>4, <3>1
    <3>2. CASE u # t
      BY <2>3, <2>4, <2>8, <3>2 DEF CallsInv
    <3> QED
      BY <3>1, <3>2
  <2>9. ASSUME NEW u \in Thread, NEW v \in Thread, pc'[u] \in WriterAt, pc'[v] \in WriterAt,
               mine'[u] = mine'[v]
        PROVE  u = v
    BY <2>1, <2>4, <2>9 DEF CallsInv
  <2> QED
    BY <2>5, <2>6, <2>7, <2>8, <2>9 DEF CallsInv
<1>5. ASSUME NEW t \in Readers, NEW cs \in SUBSET Command, CallRead(t, cs) PROVE CallsInv'
  BY <1>1, <1>5 DEF CallRead, TypeOK, shared, Thread, WriterAt
<1>6. ASSUME NEW t \in Thread,
             \/ LockTimed(t) \/ LockLog(t) \/ ReadMetadata(t) \/ ReadTime(t) \/ CheckCommand(t)
      PROVE  CallsInv'
  BY <1>1, <1>6 DEF LockTimed, LockLog, ReadMetadata, ReadTime, CheckCommand, TypeOK, shared,
     locals, WriterAt
<1>7. ASSUME NEW t \in Thread, ReadCommandField(t) PROVE CallsInv'
  BY <1>1, <1>3, <1>7 DEF ReadCommandField, TypeOK, WriterAt
<1>8. ASSUME NEW t \in Thread, ReadResponse(t) PROVE CallsInv'
  BY <1>1, <1>8 DEF ReadResponse, TypeOK, WriterAt
<1>9. ASSUME NEW t \in Thread, WriteMetadata(t) PROVE CallsInv'
  BY <1>2, <1>9 DEF WriteMetadata, TypeOK, Kind, LastKind, WriterAt, locals
<1>10. ASSUME NEW t \in Thread, WriteCommand(t) PROVE CallsInv'
  BY <1>2, <1>10 DEF WriteCommand, TypeOK, Kind, LastKind, WriterAt, locals
<1>11. ASSUME NEW t \in Thread, WriteResponse(t) PROVE CallsInv'
  BY <1>2, <1>11 DEF WriteResponse, TypeOK, Kind, LastKind, WriterAt, locals
<1>12. ASSUME NEW t \in Thread, WriteTime(t) PROVE CallsInv'
  BY <1>2, <1>12 DEF WriteTime, TypeOK, Kind, LastKind, WriterAt, locals
<1>13. CASE UNCHANGED vars
  BY <1>1, <1>13 DEF vars, shared, locals
<1> QED
  BY <1>4, <1>5, <1>6, <1>7, <1>8, <1>9, <1>10, <1>11, <1>12, <1>13 DEF Next, Step
-----------------------------------------------------------------------------
(* What is written stays, and a call that returned has written. *)

\* A step leaves the stream alone, or gets a field, or is one of write() that puts one.
LEMMA StreamSteps ==
  ASSUME [Next]_vars
  PROVE  \/ UNCHANGED <<fields, getPos, fail>>
         \/ fields' = fields /\ Take
         \/ \E t \in Thread, kind \in Kind :
              pc[t] \in WriterAt /\ Put(kind, mine[t]) /\ UNCHANGED <<getPos, fail>>
<1> USE DEF Goto
<1>1. ASSUME NEW t \in Thread,
             WriteMetadata(t) \/ WriteCommand(t) \/ WriteResponse(t) \/ WriteTime(t)
      PROVE  \E kind \in Kind :
               pc[t] \in WriterAt /\ Put(kind, mine[t]) /\ UNCHANGED <<getPos, fail>>
  BY <1>1 DEF WriteMetadata, WriteCommand, WriteResponse, WriteTime, Kind, WriterAt
<1>2. ASSUME NEW t \in Thread,
             ReadMetadata(t) \/ ReadCommandField(t) \/ ReadResponse(t) \/ ReadTime(t)
      PROVE  fields' = fields /\ Take
  BY <1>2 DEF ReadMetadata, ReadCommandField, ReadResponse, ReadTime
<1>3. ASSUME NEW t \in Thread, LockTimed(t) \/ LockLog(t) \/ CheckCommand(t)
      PROVE  UNCHANGED <<fields, getPos, fail>>
  BY <1>3 DEF LockTimed, LockLog, CheckCommand, shared
<1>4. ASSUME NEW t \in Thread, NEW c \in Command, CallWrite(t, c)
      PROVE  UNCHANGED <<fields, getPos, fail>>
  BY <1>4 DEF CallWrite, shared
<1>5. ASSUME NEW t \in Thread, NEW cs \in SUBSET Command, CallRead(t, cs)
      PROVE  UNCHANGED <<fields, getPos, fail>>
  BY <1>5 DEF CallRead, shared
<1>6. CASE UNCHANGED vars
  BY <1>6 DEF vars, shared
<1> QED
  BY <1>1, <1>2, <1>3, <1>4, <1>5, <1>6 DEF Next, Step, Thread

\* A write() appends its field to a good stream.
LEMMA PutField ==
  ASSUME TypeOK, NEW t \in Thread, NEW kind \in Kind, Put(kind, mine[t])
  PROVE  /\ [kind |-> kind, call |-> mine[t]] \in Field
         /\ fail => fields' = fields
         /\ ~fail => fields' = Append(fields, [kind |-> kind, call |-> mine[t]])
BY DEF TypeOK, Field, Put

LEMMA StreamStep ==
  ASSUME TypeOK, [Next]_vars
  PROVE  /\ fail => fail'
         /\ fields' = fields \/ \E f \in Field : fields' = Append(fields, f)
<1>1. CASE UNCHANGED <<fields, getPos, fail>>
  BY <1>1 DEF TypeOK
<1>2. CASE fields' = fields /\ Take
  BY <1>2, Zenon DEF Take
<1>3. ASSUME NEW t \in Thread, NEW kind \in Kind, Put(kind, mine[t]), UNCHANGED fail
      PROVE  /\ fail => fail'
             /\ fields' = fields \/ \E f \in Field : fields' = Append(fields, f)
  BY <1>3, PutField DEF TypeOK
<1> QED
  BY <1>1, <1>2, <1>3, StreamSteps

LEMMA LoggedKept ==
  ASSUME TypeOK, [Next]_vars, NEW n, Logged(n)
  PROVE  Logged(n)'
<1>1. PICK i \in 1 .. Len(fields) : fields[i] = [kind |-> LastKind, call |-> n]
  BY DEF Logged
<1>2. i \in 1 .. Len(fields') /\ fields'[i] = fields[i]
  BY StreamStep, Appended DEF TypeOK
<1> QED
  BY <1>1, <1>2 DEF Logged

LEMMA LoggedInit == Init => LoggedInv
<1> SUFFICES ASSUME Init, NEW n \in 1 .. Len(issued) PROVE Logged(n)
  BY DEF LoggedInv
<1>1. Len(OldCommands) \in Nat /\ n \in 1 .. Len(OldCommands)
  BY LogAssumption DEF Init
<1> QED
  BY <1>1, LogOfEnds DEF Init, Logged

LEMMA LoggedNext == TypeOK /\ MutexInv /\ LoggedInv /\ [Next]_vars => LoggedInv'
<1> SUFFICES ASSUME TypeOK, MutexInv, LoggedInv, [Next]_vars, ~fail', NEW n \in 1 .. Len(issued')
             PROVE  Logged(n)' \/ Writing(n)'
  BY DEF LoggedInv
<1> USE DEF Goto
<1>0. ~fail /\ Len(issued) \in Nat
  BY StreamStep DEF TypeOK
\* A step in which no thread ends a write().
<1>1. ASSUME UNCHANGED issued,
             \A u \in Thread : pc[u] \in WriterAt => pc'[u] \in WriterAt /\ mine'[u] = mine[u]
      PROVE  Logged(n)' \/ Writing(n)'
  <2>1. Logged(n) \/ Writing(n)
    BY <1>0, <1>1 DEF LoggedInv
  <2>2. CASE Writing(n)
    BY <1>1, <2>2 DEF Writing, Thread
  <2> QED
    BY <2>1, <2>2, LoggedKept
\* A step in which t writes the last field of its record.
<1>2. ASSUME NEW t \in Thread, Put(LastKind, mine[t]), LastKind \in Kind, UNCHANGED issued,
             \A u \in Thread : /\ pc[u] \in WriterAt /\ u # t => pc'[u] \in WriterAt
                               /\ mine'[u] = mine[u]
      PROVE  Logged(n)' \/ Writing(n)'
  <2>1. Logged(n) \/ Writing(n)
    BY <1>0, <1>2 DEF LoggedInv
  <2>2. CASE Writing(n) /\ n # mine[t]
    BY <1>2, <2>2 DEF Writing, Thread
  <2>3. CASE n = mine[t]
    <3>1. [kind |-> LastKind, call |-> mine[t]] \in Field
      BY <1>2 DEF TypeOK, Field
    <3>2. fields' = Append(fields, [kind |-> LastKind, call |-> mine[t]])
      BY <1>0, <1>2 DEF Put
    <3>3. Len(fields') = Len(fields) + 1 /\ Last' = [kind |-> LastKind, call |-> mine[t]]
      BY <3>1, <3>2, Appended
    <3>4. Len(fields') \in 1 .. Len(fields')
      BY <3>3 DEF TypeOK
    <3> QED
      BY <2>3, <3>3, <3>4 DEF Last, Logged
  <2> QED
    BY <2>1, <2>2, <2>3, LoggedKept
<1>3. ASSUME NEW t \in Writers, NEW c \in Command, CallWrite(t, c)
      PROVE  Logged(n)' \/ Writing(n)'
  <2>1. t \in Thread /\ pc[t] = "idle" /\ pc'[t] \in WriterAt /\ mine'[t] = Len(issued) + 1
    BY <1>3 DEF CallWrite, TypeOK, Thread, WriterAt
  <2>2. \A u \in Thread : u # t => pc'[u] = pc[u] /\ mine'[u] = mine[u]
    BY <1>3 DEF CallWrite, TypeOK
  <2>3. n \in 1 .. Len(issued) \/ n = Len(issued) + 1
    BY <1>0, <1>3 DEF CallWrite, TypeOK
  <2>4. CASE n = Len(issued) + 1
    BY <2>1, <2>4 DEF Writing
  <2>5. CASE n \in 1 .. Len(issued)
    <3>1. Logged(n) \/ Writing(n)
      BY <1>0, <2>5 DEF LoggedInv
    <3>2. CASE Writing(n)
      <4>1. PICK u \in Writers : mine[u] = n /\ pc[u] \in WriterAt
        BY <3>2 DEF Writing
      <4>2. u # t /\ u \in Thread
        BY <2>1, <4>1 DEF WriterAt, Thread
      <4> QED
        BY <2>2, <4>1, <4>2 DEF Writing
    <3> QED
      BY <3>1, <3>2, LoggedKept
  <2> QED
    BY <2>3, <2>4, <2>5
<1>4. ASSUME NEW t \in Readers, NEW cs \in SUBSET Command, CallRead(t, cs)
      PROVE  Logged(n)' \/ Writing(n)'
  BY <1>1, <1>4 DEF CallRead, TypeOK, Thread, WriterAt
<1>5. ASSUME NEW t \in Thread,
             \/ LockTimed(t) \/ LockLog(t) \/ ReadMetadata(t) \/ ReadCommandField(t)
             \/ ReadResponse(t) \/ ReadTime(t) \/ CheckCommand(t)
      PROVE  Logged(n)' \/ Writing(n)'
  BY <1>1, <1>5 DEF LockTimed, LockLog, ReadMetadata, ReadCommandField, ReadResponse, ReadTime,
     CheckCommand, TypeOK, locals, WriterAt
<1>6. ASSUME NEW t \in Thread, WriteMetadata(t) \/ WriteCommand(t)
      PROVE  Logged(n)' \/ Writing(n)'
  BY <1>1, <1>6 DEF WriteMetadata, WriteCommand, TypeOK, locals, WriterAt
<1>7. ASSUME NEW t \in Thread, WriteResponse(t) PROVE Logged(n)' \/ Writing(n)'
  <2>1. CASE Timed
    BY <1>1, <1>7, <2>1 DEF WriteResponse, TypeOK, locals, WriterAt
  <2>2. CASE ~Timed
    BY <1>2, <1>7, <2>2 DEF WriteResponse, TypeOK, locals, LastKind, Kind
  <2> QED
    BY <2>1, <2>2
<1>8. ASSUME NEW t \in Thread, WriteTime(t) PROVE Logged(n)' \/ Writing(n)'
  <2>1. Timed
    BY <1>8 DEF WriteTime, MutexInv, TimedOnly
  <2> QED
    BY <1>2, <1>8, <2>1 DEF WriteTime, TypeOK, locals, LastKind, Kind
<1>9. CASE UNCHANGED vars
  BY <1>1, <1>9 DEF vars, locals
<1> QED
  BY <1>3, <1>4, <1>5, <1>6, <1>7, <1>8, <1>9 DEF Next, Step
-----------------------------------------------------------------------------
(* readCommand of the only reader. *)

\* The end of the log is not between a response and its time: only readCommand's own
\* getline reaches it, and then there is no response.
LEMMA TimeFollows ==
  ASSUME TypeOK, MutexInv, WriterInv, ReaderInv, NEW t \in Thread, pc[t] = "rTime", ~fail
  PROVE  getPos # Len(fields)
<1>1. Timed /\ getPos # 0 /\ fields[getPos].kind = "response"
  BY DEF MutexInv, TimedOnly, ReaderInv
<1>2. \A u \in Thread : pc[u] \notin {"wResponse", "wTime"}
  BY Exclusion DEF UsesStream, InLog
<1>3. fields = <<>> \/ EndsRecord(Last)
  BY <1>2 DEF WriterInv
<1>4. Len(fields) # 0 => fields # <<>>
  BY DEF TypeOK
<1> QED
  BY <1>1, <1>3, <1>4 DEF EndsRecord, Last, LastKind

LEMMA EndInit == Init => EndInv
BY DEF Init, EndInv, ReaderAt, Thread

LEMMA EndNext ==
  ASSUME OneReader
  PROVE  TypeOK /\ MutexInv /\ WriterInv /\ ReaderInv /\ CallsInv /\ EndInv /\ [Next]_vars => EndInv'
<1> SUFFICES ASSUME TypeOK, MutexInv, WriterInv, ReaderInv, CallsInv, EndInv, [Next]_vars
             PROVE  EndInv'
  OBVIOUS
<1> USE DEF Goto
\* What a reader found stays what it looked for.
<1>0. ASSUME NEW u \in Thread, Matches(u), UNCHANGED <<logCommand[u], want[u]>>,
             issued' = issued \/ \E c \in Command : issued' = Append(issued, c)
      PROVE  Matches(u)'
  <2>1. logCommand[u].call \in 1 .. Len(issued)
    BY <1>0 DEF CallsInv, Matches, NoField
  <2>2. issued'[logCommand[u].call] = issued[logCommand[u].call]
    BY <1>0, <2>1 DEF TypeOK
  <2> QED
    BY <1>0, <2>2 DEF Matches
\* A step that moves no reader in the stream.
<1>1. ASSUME UNCHANGED <<fail, logCommand, want, response>>,
             issued' = issued \/ \E c \in Command : issued' = Append(issued, c),
             \A u \in Thread :
               /\ pc'[u] \in ReaderAt => pc[u] \in ReaderAt
               /\ pc'[u] \in {"rTime", "rCheck"} => pc[u] = pc'[u]
               /\ pc'[u] \notin ReaderAt => pc[u] \notin ReaderAt
      PROVE  EndInv'
  <2>1. ASSUME NEW t \in Thread, pc'[t] \in ReaderAt PROVE t \in Readers
    BY <1>1, <2>1 DEF EndInv
  <2>2. ASSUME NEW t \in Readers, pc'[t] \in {"rTime", "rCheck"}, fail' PROVE response'[t] = NoField
    BY <1>1, <2>2, Zenon DEF EndInv, Thread
  <2>3. ASSUME NEW t \in Readers, pc'[t] \notin ReaderAt, want'[t] # {}, response'[t] # NoField
        PROVE  Matches(t)'
    <3>1. t \in Thread /\ Matches(t)
      BY <1>1, <2>3 DEF EndInv, Thread
    <3> QED
      BY <1>0, <1>1, <3>1
  <2> QED
    BY <2>1, <2>2, <2>3 DEF EndInv
\* A step of the reader.
<1>2. ASSUME NEW t \in Readers, pc[t] \in ReaderAt,
             \A u \in Thread : u # t => pc'[u] = pc[u],
             pc'[t] \in {"rTime", "rCheck"} /\ fail' => response'[t] = NoField,
             pc'[t] \notin ReaderAt /\ want'[t] # {} /\ response'[t] # NoField => Matches(t)'
      PROVE  EndInv'
  <2>1. \A u \in Readers : u = t
    BY DEF OneReader
  <2>2. ASSUME NEW u \in Thread, pc'[u] \in ReaderAt PROVE u \in Readers
    BY <1>2, <2>2 DEF EndInv
  <2> QED
    BY <1>2, <2>1, <2>2 DEF EndInv
<1>3. ASSUME NEW t \in Thread, pc[t] \in ReaderAt PROVE t \in Readers
  BY <1>3 DEF EndInv
<1>4. ASSUME NEW t \in Thread,
             WriteMetadata(t) \/ WriteCommand(t) \/ WriteResponse(t) \/ WriteTime(t)
      PROVE  EndInv'
  BY <1>1, <1>4 DEF WriteMetadata, WriteCommand, WriteResponse, WriteTime, TypeOK, locals, ReaderAt
<1>5. ASSUME NEW t \in Thread, LockTimed(t) \/ LockLog(t) PROVE EndInv'
  BY <1>1, <1>5 DEF LockTimed, LockLog, TypeOK, shared, locals, ReaderAt
<1>6. ASSUME NEW t \in Thread, ReadMetadata(t) PROVE EndInv'
  BY <1>2, <1>3, <1>6 DEF ReadMetadata, TypeOK, ReaderAt
<1>7. ASSUME NEW t \in Thread, ReadCommandField(t) PROVE EndInv'
  BY <1>2, <1>3, <1>7 DEF ReadCommandField, TypeOK, ReaderAt
<1>8. ASSUME NEW t \in Thread, ReadResponse(t) PROVE EndInv'
  <2>1. t \in Readers /\ pc[t] \in ReaderAt
    BY <1>3, <1>8 DEF ReadResponse, ReaderAt
  <2>2. fail' => response'[t] = NoField
    <3>1. SUFFICES ASSUME fail' PROVE Got(NoField) = NoField
      BY <1>8 DEF ReadResponse, TypeOK
    <3>2. CASE fail
      BY <3>2 DEF Got
    <3>3. CASE ~fail
      <4>1. getPos = Len(fields)
        BY <1>8, <3>1, <3>3, Zenon DEF ReadResponse, Take
      <4>2. ~(getPos < Len(fields))
        BY <4>1 DEF TypeOK
      <4> QED
        BY <3>3, <4>2 DEF Got
    <3> QED
      BY <3>2, <3>3
  <2>3. pc'[t] \in ReaderAt /\ \A u \in Thread : u # t => pc'[u] = pc[u]
    BY <1>8, <2>1 DEF ReadResponse, TypeOK, ReaderAt, Thread
  <2> QED
    BY <1>2, <2>1, <2>2, <2>3
<1>9. ASSUME NEW t \in Thread, ReadTime(t) PROVE EndInv'
  <2>1. t \in Readers /\ pc[t] = "rTime" /\ pc[t] \in ReaderAt
    BY <1>3, <1>9 DEF ReadTime, ReaderAt
  <2>2. fail' => fail
    <3>1. ~fail => getPos # Len(fields)
      BY <2>1, TimeFollows
    <3> QED
      BY <1>9, <3>1, Zenon DEF ReadTime, Take
  <2>3. fail' => response'[t] = NoField
    BY <1>9, <2>1, <2>2 DEF ReadTime, EndInv, locals
  <2>4. pc'[t] \in ReaderAt /\ \A u \in Thread : u # t => pc'[u] = pc[u]
    BY <1>9, <2>1 DEF ReadTime, TypeOK, ReaderAt
  <2> QED
    BY <1>2, <2>1, <2>3, <2>4
<1>10. ASSUME NEW t \in Thread, CheckCommand(t) PROVE EndInv'
  <2>1. t \in Readers /\ pc[t] = "rCheck" /\ pc[t] \in ReaderAt
    BY <1>3, <1>10 DEF CheckCommand, ReaderAt
  <2>2. fail => response[t] = NoField
    BY <2>1 DEF EndInv
  <2>3. UNCHANGED <<fail, issued, want, logCommand, response>>
    BY <1>10 DEF CheckCommand, shared, locals
  <2>4. /\ \A u \in Thread : u # t => pc'[u] = pc[u]
        /\ pc'[t] \notin {"rTime", "rCheck"}
        /\ pc'[t] \in ReaderAt \/ want[t] = {} \/ Matches(t) \/ fail
    BY <1>10 DEF CheckCommand, TypeOK, ReaderAt
  <2>5. Matches(t) => Matches(t)'
    BY <2>3 DEF Matches
  <2> QED
    BY <1>2, <2>1, <2>2, <2>3, <2>4, <2>5
<1>11. ASSUME NEW t \in Writers, NEW c \in Command, CallWrite(t, c) PROVE EndInv'
  BY <1>1, <1>11 DEF CallWrite, TypeOK, shared, Thread, ReaderAt
<1>12. ASSUME NEW t \in Readers, NEW cs \in SUBSET Command, CallRead(t, cs) PROVE EndInv'
  <2>1. \A u \in Readers : u = t
    BY DEF OneReader
  <2>2. t \in Thread /\ pc'[t] \in {"rLockTimed", "rLock"}
    BY <1>12 DEF CallRead, TypeOK, Thread
  <2>3. ASSUME NEW u \in Thread, pc'[u] \in ReaderAt PROVE u \in Readers
    BY <1>12, <2>3 DEF CallRead, TypeOK, EndInv
  <2> QED
    BY <2>1, <2>2, <2>3 DEF EndInv, ReaderAt
<1>13. CASE UNCHANGED vars
  BY <1>1, <1>13 DEF vars, shared, locals
<1> QED
  BY <1>4, <1>5, <1>6, <1>7, <1>8, <1>9, <1>10, <1>11, <1>12, <1>13 DEF Next, Step
-----------------------------------------------------------------------------
(* Log implements RecordLog. *)

\* The order of the fields of a record.
LEMMA KindAfter ==
  ASSUME NEW i \in Nat \ {0}
  PROVE  /\ KindAt(1) = "metadata"
         /\ KindAt(i) \in {"metadata", LastKind} => KindAt(i + 1) = "command"
         /\ KindAt(i) = "command" => KindAt(i + 1) = "response"
         /\ (Timed /\ KindAt(i) = "response") => KindAt(i + 1) = "time"
<1> DEFINE place == (i - 2) % Len(RecordKinds)
           next == (i + 1 - 2) % Len(RecordKinds)
<1>0. /\ KindAt(1) = "metadata"
      /\ i # 1 => KindAt(i) = RecordKinds[place + 1]
      /\ KindAt(i + 1) = RecordKinds[next + 1]
  BY DEF KindAt
<1>1. CASE Timed
  <2>1. /\ Len(RecordKinds) = 3
        /\ RecordKinds[1] = "command" /\ RecordKinds[2] = "response" /\ RecordKinds[3] = "time"
    BY <1>1 DEF RecordKinds
  <2>2. /\ place \in 0 .. 2
        /\ i = 1 => next = 0
        /\ place = 2 => next = 0
        /\ place # 2 => next = place + 1
    BY <2>1
  <2> HIDE DEF place, next
  <2>3. CASE i = 1
    BY <1>0, <1>1, <2>1, <2>2, <2>3 DEF LastKind
  <2>4. CASE i # 1
    BY <1>0, <1>1, <2>1, <2>2, <2>4 DEF LastKind
  <2> QED
    BY <2>3, <2>4
<1>2. CASE ~Timed
  <2>1. /\ Len(RecordKinds) = 2
        /\ RecordKinds[1] = "command" /\ RecordKinds[2] = "response"
    BY <1>2 DEF RecordKinds
  <2>2. /\ place \in 0 .. 1
        /\ i = 1 => next = 0
        /\ place = 1 => next = 0
        /\ place # 1 => next = place + 1
    BY <2>1
  <2> HIDE DEF place, next
  <2>3. CASE i = 1
    BY <1>0, <1>2, <2>1, <2>2, <2>3 DEF LastKind
  <2>4. CASE i # 1
    BY <1>0, <1>2, <2>1, <2>2, <2>4 DEF LastKind
  <2> QED
    BY <2>3, <2>4
<1> QED
  BY <1>1, <1>2

LEMMA LayoutInit == Init => Layout
<1>1. Len(OldCommands) \in Nat
  BY LogAssumption
<1> QED
  BY <1>1, LogOfCalls DEF Init, Layout

LEMMA LayoutNext == TypeOK /\ Layout /\ Framing' /\ [Next]_vars => Layout'
<1> SUFFICES ASSUME TypeOK, Layout, Framing', [Next]_vars PROVE Layout'
  OBVIOUS
<1>1. CASE fields' = fields
  BY <1>1 DEF Layout
<1>2. ASSUME NEW f \in Field, fields' = Append(fields, f) PROVE Layout'
  <2>1. /\ Len(fields) \in Nat
        /\ Len(fields') = Len(fields) + 1
        /\ fields' # <<>>
        /\ \A i \in 1 .. Len(fields) : fields'[i] = fields[i]
    BY <1>2, Appended DEF TypeOK
  <2>2. SUFFICES ASSUME NEW n, n = Len(fields) + 1 PROVE fields'[n].kind = KindAt(n)
    BY <2>1 DEF Layout
  <2>3. CASE Len(fields) = 0
    BY <2>1, <2>2, <2>3 DEF Framing, KindAt
  <2>4. CASE Len(fields) # 0
    <3>1. n \in 2 .. Len(fields') /\ n - 1 = Len(fields) /\ n - 1 \in Nat \ {0}
      BY <2>1, <2>2, <2>4
    <3>2. Follows(fields[n - 1], fields'[n])
      BY <2>1, <3>1 DEF Framing, Follows
    <3>3. fields[n - 1].kind = KindAt(n - 1)
      BY <2>1, <2>2, <2>4 DEF Layout
    <3>4. (n - 1) + 1 = n
      BY <2>1, <2>2
    <3>5. /\ KindAt(n - 1) \in {"metadata", LastKind} => KindAt(n) = "command"
          /\ KindAt(n - 1) = "command" => KindAt(n) = "response"
          /\ (Timed /\ KindAt(n - 1) = "response") => KindAt(n) = "time"
      BY <3>1, <3>4, KindAfter
    <3> QED
      BY <3>2, <3>3, <3>5 DEF Follows
  <2> QED
    BY <2>3, <2>4
<1> QED
  BY <1>1, <1>2, StreamStep

\* How the number of whole records grows with the number of fields.
LEMMA WholeStep ==
  ASSUME NEW k \in Nat
  PROVE  /\ Whole(k) \in Nat
         /\ Whole(0) = 0
         /\ k = 0 => Whole(k + 1) = Whole(k)
         /\ (k # 0 /\ KindAt(k + 1) # LastKind) => Whole(k + 1) = Whole(k)
         /\ (k # 0 /\ KindAt(k + 1) = LastKind) =>
              /\ Whole(k + 1) = Whole(k) + 1
              /\ 1 + Len(RecordKinds) * Whole(k + 1) = k + 1
<1> DEFINE next == (k + 1 - 2) % Len(RecordKinds)
<1>0. k # 0 => KindAt(k + 1) = RecordKinds[next + 1]
  BY DEF KindAt
<1>1. CASE Timed
  <2>1. /\ Len(RecordKinds) = 3 /\ LastKind = "time"
        /\ RecordKinds[1] = "command" /\ RecordKinds[2] = "response" /\ RecordKinds[3] = "time"
    BY <1>1 DEF RecordKinds, LastKind
  <2>2. /\ Whole(k) = IF k = 0 THEN 0 ELSE (k - 1) \div 3
        /\ Whole(k + 1) = k \div 3
        /\ Whole(0) = 0
    BY <2>1 DEF Whole
  <2>3. next = (k - 1) % 3 /\ next \in 0 .. 2
    BY <2>1
  <2>4. k # 0 => (KindAt(k + 1) = LastKind <=> next = 2)
    BY <1>0, <2>1, <2>3
  <2>5. /\ (k # 0 /\ next = 2) => k \div 3 = (k - 1) \div 3 + 1 /\ 3 * (k \div 3) = k
        /\ (k # 0 /\ next # 2) => k \div 3 = (k - 1) \div 3
        /\ k = 0 => k \div 3 = 0
        /\ k # 0 => (k - 1) \div 3 \in Nat
    BY <2>3
  <2> HIDE DEF next
  <2> QED
    BY <2>1, <2>2, <2>4, <2>5
<1>2. CASE ~Timed
  <2>1. /\ Len(RecordKinds) = 2 /\ LastKind = "response"
        /\ RecordKinds[1] = "command" /\ RecordKinds[2] = "response"
    BY <1>2 DEF RecordKinds, LastKind
  <2>2. /\ Whole(k) = IF k = 0 THEN 0 ELSE (k - 1) \div 2
        /\ Whole(k + 1) = k \div 2
        /\ Whole(0) = 0
    BY <2>1 DEF Whole
  <2>3. next = (k - 1) % 2 /\ next \in 0 .. 1
    BY <2>1
  <2>4. k # 0 => (KindAt(k + 1) = LastKind <=> next = 1)
    BY <1>0, <2>1, <2>3
  <2>5. /\ (k # 0 /\ next = 1) => k \div 2 = (k - 1) \div 2 + 1 /\ 2 * (k \div 2) = k
        /\ (k # 0 /\ next # 1) => k \div 2 = (k - 1) \div 2
        /\ k = 0 => k \div 2 = 0
        /\ k # 0 => (k - 1) \div 2 \in Nat
    BY <2>3
  <2> HIDE DEF next
  <2> QED
    BY <2>1, <2>2, <2>4, <2>5
<1> QED
  BY <1>1, <1>2

LEMMA WholeMonotonic ==
  ASSUME NEW j \in Nat, NEW k \in Nat, j <= k
  PROVE  Whole(j) <= Whole(k)
<1>1. CASE Timed
  <2>1. Len(RecordKinds) = 3
    BY <1>1 DEF RecordKinds
  <2> QED
    BY <2>1 DEF Whole
<1>2. CASE ~Timed
  <2>1. Len(RecordKinds) = 2
    BY <1>2 DEF RecordKinds
  <2> QED
    BY <2>1 DEF Whole
<1> QED
  BY <1>1, <1>2

\* In a framed stream every record is whole.
LEMMA RecordIsWhole ==
  ASSUME TypeOK, Framing, Layout, NEW r \in 1 .. Whole(Len(fields))
  PROVE  /\ 1 + Len(RecordKinds) * r \in 1 .. Len(fields)
         /\ CallOf(r) = fields[1 + Len(RecordKinds) * r].call
         /\ fields[1 + Len(RecordKinds) * r] = [kind |-> LastKind, call |-> CallOf(r)]
<1>0. fields \in Seq(Field) /\ Len(fields) \in Nat
  BY DEF TypeOK
<1>1. CASE Timed
  <2> DEFINE last == 1 + 3 * r
             call == fields[last].call
  <2>1. /\ Len(RecordKinds) = 3 /\ LastKind = "time"
        /\ RecordKinds[1] = "command" /\ RecordKinds[2] = "response" /\ RecordKinds[3] = "time"
    BY <1>1 DEF RecordKinds, LastKind
  <2>2. r \in Nat \ {0} /\ last <= Len(fields) /\ last >= 4 /\ last \in Nat
    BY <1>0, <2>1 DEF Whole
  <2>3. /\ last - 2 \in 2 .. Len(fields) /\ last - 1 \in 2 .. Len(fields) /\ last \in 2 .. Len(fields)
        /\ (last - 1) - 1 = last - 2
    BY <1>0, <2>2
  <2>4. (last - 2 - 2) % 3 = 0 /\ (last - 1 - 2) % 3 = 1 /\ (last - 2) % 3 = 2
    BY <2>2
  <2>5. KindAt(last - 2) = "command" /\ KindAt(last - 1) = "response" /\ KindAt(last) = "time"
    BY <2>1, <2>2, <2>4 DEF KindAt
  <2> HIDE DEF last
  <2>6. /\ fields[last - 2].kind = "command"
        /\ fields[last - 1].kind = "response"
        /\ fields[last].kind = "time"
    BY <2>3, <2>5 DEF Layout
  <2>7. Follows(fields[last - 2], fields[last - 1]) /\ Follows(fields[last - 1], fields[last])
    BY <2>3 DEF Framing
  <2>8. fields[last - 2].call = call /\ fields[last - 1].call = call
    BY <2>6, <2>7 DEF Follows
  <2>9. {fields[last - 2], fields[last - 1], fields[last]} \subseteq Field
    BY <1>0, <2>3
  <2>10. /\ fields[last - 2] = [kind |-> RecordKinds[1], call |-> call]
         /\ fields[last - 1] = [kind |-> RecordKinds[2], call |-> call]
         /\ fields[last] = [kind |-> RecordKinds[3], call |-> call]
    BY <2>1, <2>6, <2>8, <2>9 DEF Field
  <2>11. last - 3 + 1 = last - 2 /\ last - 3 + 2 = last - 1 /\ last - 3 + 3 = last
    BY <2>3
  <2>12. \A i \in 1 .. 3 : fields[last - 3 + i] = [kind |-> RecordKinds[i], call |-> call]
    <3>1. \A i \in 1 .. 3 : i = 1 \/ i = 2 \/ i = 3
      OBVIOUS
    <3> QED
      BY <2>10, <2>11, <3>1
  <2>13. CallOf(r) = call
    BY <2>1, <2>12 DEF CallOf, last
  <2>14. 1 + Len(RecordKinds) * r = last
    BY <2>1 DEF last
  <2> QED
    BY <2>1, <2>3, <2>10, <2>13, <2>14
<1>2. CASE ~Timed
  <2> DEFINE last == 1 + 2 * r
             call == fields[last].call
  <2>1. /\ Len(RecordKinds) = 2 /\ LastKind = "response"
        /\ RecordKinds[1] = "command" /\ RecordKinds[2] = "response"
    BY <1>2 DEF RecordKinds, LastKind
  <2>2. r \in Nat \ {0} /\ last <= Len(fields) /\ last >= 3 /\ last \in Nat
    BY <1>0, <2>1 DEF Whole
  <2>3. last - 1 \in 2 .. Len(fields) /\ last \in 2 .. Len(fields)
    BY <1>0, <2>2
  <2>4. (last - 1 - 2) % 2 = 0 /\ (last - 2) % 2 = 1
    BY <2>2
  <2>5. KindAt(last - 1) = "command" /\ KindAt(last) = "response"
    BY <2>1, <2>2, <2>4 DEF KindAt
  <2> HIDE DEF last
  <2>6. fields[last - 1].kind = "command" /\ fields[last].kind = "response"
    BY <2>3, <2>5 DEF Layout
  <2>7. Follows(fields[last - 1], fields[last])
    BY <2>3 DEF Framing
  <2>8. fields[last - 1].call = call
    BY <2>6, <2>7 DEF Follows
  <2>9. {fields[last - 1], fields[last]} \subseteq Field
    BY <1>0, <2>3
  <2>10. /\ fields[last - 1] = [kind |-> RecordKinds[1], call |-> call]
         /\ fields[last] = [kind |-> RecordKinds[2], call |-> call]
    BY <2>1, <2>6, <2>8, <2>9 DEF Field
  <2>11. last - 2 + 1 = last - 1 /\ last - 2 + 2 = last
    BY <2>3
  <2>12. \A i \in 1 .. 2 : fields[last - 2 + i] = [kind |-> RecordKinds[i], call |-> call]
    <3>1. \A i \in 1 .. 2 : i = 1 \/ i = 2
      OBVIOUS
    <3> QED
      BY <2>10, <2>11, <3>1
  <2>13. CallOf(r) = call
    BY <2>1, <2>12 DEF CallOf, last
  <2>14. 1 + Len(RecordKinds) * r = last
    BY <2>1 DEF last
  <2> QED
    BY <2>1, <2>3, <2>10, <2>13, <2>14
<1> QED
  BY <1>1, <1>2

LEMMA RecordsLen == ASSUME TypeOK PROVE Len(Records) = Whole(Len(fields)) /\ Len(Records) \in Nat
<1>1. Whole(Len(fields)) \in Nat
  BY WholeStep DEF TypeOK
<1> QED
  BY <1>1 DEF Records

\* The initial states: the records of the old calls, one each.
LEMMA RefinesInit == Init => Promise!Init
<1> SUFFICES ASSUME Init PROVE Promise!Init
  OBVIOUS
<1> DEFINE n == Len(OldCommands)
<1>1. n \in Nat /\ fields = LogOf(n) /\ getPos = 0 /\ fail = FALSE
  BY LogAssumption DEF Init
<1>3. Whole(Len(fields)) = n
  <2>1. CASE n = 0
    BY <1>1, <2>1 DEF LogOf, Whole
  <2>2. CASE n # 0 /\ Timed
    <3>1. Len(RecordKinds) = 3
      BY <2>2 DEF RecordKinds
    <3>2. Len(LogOf(n)) = 1 + 3 * n
      BY <1>1, <2>2, <3>1 DEF LogOf
    <3> QED
      BY <1>1, <3>1, <3>2 DEF Whole
  <2>3. CASE n # 0 /\ ~Timed
    <3>1. Len(RecordKinds) = 2
      BY <2>3 DEF RecordKinds
    <3>2. Len(LogOf(n)) = 1 + 2 * n
      BY <1>1, <2>3, <3>1 DEF LogOf
    <3> QED
      BY <1>1, <3>1, <3>2 DEF Whole
  <2> QED
    BY <2>1, <2>2, <2>3
<1>4. TypeOK /\ Framing /\ Layout
  BY TypeInit, FramingInit, LayoutInit
<1>5. ASSUME NEW r \in 1 .. n PROVE CallOf(r) = r
  <2>1. LogOf(n)[1 + Len(RecordKinds) * r] = [kind |-> LastKind, call |-> r]
    BY <1>1, LogOfEnds
  <2>2. CallOf(r) = fields[1 + Len(RecordKinds) * r].call
    BY <1>3, <1>4, RecordIsWhole
  <2> QED
    BY <1>1, <2>1, <2>2
<1>6. Records = [r \in 1 .. n |-> r]
  BY <1>3, <1>5 DEF Records
<1>7. Records \in Seq(1 .. Len(OldCommands) + MaxWrites)
  BY <1>1, <1>6, LogAssumption
<1>8. Whole(getPos) = 0 /\ fail = FALSE
  BY <1>1 DEF Whole
<1> QED
  BY <1>1, <1>6, <1>7, <1>8 DEF Promise!Init

RecordsWhole ==
  \A r \in 1 .. Whole(Len(fields)) :
    /\ 1 + Len(RecordKinds) * r \in 1 .. Len(fields)
    /\ CallOf(r) = fields[1 + Len(RecordKinds) * r].call
    /\ fields[1 + Len(RecordKinds) * r] = [kind |-> LastKind, call |-> CallOf(r)]

LEMMA AreWhole == TypeOK /\ Framing /\ Layout => RecordsWhole
BY RecordIsWhole DEF RecordsWhole

LEMMA RecordsType == ASSUME TypeOK, RecordsWhole PROVE Records \in Seq(Nat)
<1>1. Whole(Len(fields)) \in Nat
  BY WholeStep DEF TypeOK
<1>2. ASSUME NEW r \in 1 .. Whole(Len(fields)) PROVE CallOf(r) \in Nat
  <2> DEFINE i == 1 + Len(RecordKinds) * r
  <2>1. i \in 1 .. Len(fields) /\ CallOf(r) = fields[i].call
    BY DEF RecordsWhole
  <2> HIDE DEF i
  <2>2. fields[i] \in Field
    BY <2>1 DEF TypeOK
  <2> QED
    BY <2>1, <2>2 DEF Field
<1> QED
  BY <1>1, <1>2 DEF Records

LEMMA AppendAsFunction ==
  ASSUME NEW S, NEW s \in Seq(S), NEW x \in S
  PROVE  Append(s, x) = [r \in 1 .. Len(s) + 1 |-> IF r = Len(s) + 1 THEN x ELSE s[r]]
<1> DEFINE u == [r \in 1 .. Len(s) + 1 |-> IF r = Len(s) + 1 THEN x ELSE s[r]]
<1>1. Len(s) \in Nat
  OBVIOUS
<1>2. u \in Seq(S) /\ Len(u) = Len(s) + 1
  BY <1>1
<1>3. Append(s, x) \in Seq(S) /\ Len(Append(s, x)) = Len(u)
  BY <1>2
<1>4. ASSUME NEW r \in 1 .. Len(Append(s, x)) PROVE Append(s, x)[r] = u[r]
  BY <1>1, <1>2, <1>3
<1> HIDE DEF u
<1>5. Append(s, x) = u
  BY <1>2, <1>3, <1>4, SeqEqual
<1> QED
  BY <1>5 DEF u

\* What is appended behind a record does not change it.
LEMMA RecordsKept ==
  ASSUME RecordsWhole, RecordsWhole', NEW r \in 1 .. Whole(Len(fields)),
         r \in 1 .. Whole(Len(fields')),
         \A i \in 1 .. Len(fields) : fields'[i] = fields[i]
  PROVE  CallOf(r)' = CallOf(r)
BY DEF RecordsWhole

\* The steps: the field that ends a record appends it, getline passes it or meets the
\* end, and all other steps stutter.
LEMMA RefinesNext ==
  IInv /\ CallsInv /\ Layout /\ IInv' /\ Layout' /\ [Next]_vars =>
    [Promise!Next]_<<Records, Whole(getPos), fail>>
<1> SUFFICES ASSUME IInv, CallsInv, Layout, IInv', Layout', [Next]_vars
             PROVE  Promise!Next \/ UNCHANGED <<Records, Whole(getPos), fail>>
  OBVIOUS
<1>1. /\ TypeOK /\ Framing /\ TypeOK'
      /\ fields \in Seq(Field)
      /\ Len(fields) \in Nat /\ getPos \in 0 .. Len(fields) /\ getPos \in Nat
      /\ fail \in BOOLEAN
  <2>1. TypeOK /\ Framing /\ TypeOK'
    BY DEF IInv
  <2>2. fields \in Seq(Field) /\ getPos \in 0 .. Len(fields) /\ fail \in BOOLEAN
    BY <2>1 DEF TypeOK
  <2>3. Len(fields) \in Nat
    BY <2>2
  <2> QED
    BY <2>1, <2>2, <2>3
<1>0. RecordsWhole /\ RecordsWhole'
  <2>1. TypeOK' /\ Framing' /\ Layout' => RecordsWhole'
    BY AreWhole, PTL
  <2> QED
    BY <2>1, AreWhole DEF IInv
<1>2. Len(Records) = Whole(Len(fields)) /\ Len(Records) \in Nat
  BY <1>1, RecordsLen
<1>3. fields' = fields => Records' = Records
  BY DEF Records, CallOf
<1>4. CASE UNCHANGED <<fields, getPos, fail>>
  BY <1>3, <1>4 DEF Whole
<1>5. CASE fields' = fields /\ Take
  <2>1. CASE fail
    <3>1. getPos' = getPos
      BY <1>5, <2>1 DEF Take
    <3>2. fail'
      BY <1>5, <2>1, Zenon DEF Take
    <3>3. fail' = fail
      BY <1>1, <2>1, <3>2 DEF TypeOK
    <3> QED
      BY <1>3, <1>5, <3>1, <3>3 DEF Whole
  <2>2. CASE ~fail /\ getPos = Len(fields)
    <3>1. getPos' = getPos
      BY <1>1, <1>5, <2>2 DEF Take
    <3>2. fail'
      BY <1>5, <2>2, Zenon DEF Take
    <3>3. Whole(getPos) = Len(Records) /\ Whole(getPos)' = Whole(getPos) /\ fail' = TRUE
      BY <1>1, <1>2, <2>2, <3>1, <3>2 DEF TypeOK
    <3>4. Promise!ReadEnd
      BY <1>3, <1>5, <3>3 DEF Promise!ReadEnd
    <3> QED
      BY <3>4 DEF Promise!Next
  <2>3. CASE ~fail /\ getPos # Len(fields)
    <3>1. getPos < Len(fields) /\ getPos' = getPos + 1
      BY <1>1, <1>5, <2>3 DEF Take
    <3>2. ~fail'
      BY <1>5, <2>3, Zenon DEF Take
    <3>3. fail' = fail
      BY <1>1, <2>3, <3>2 DEF TypeOK
    <3>4. /\ Whole(getPos) \in Nat
          /\ Whole(getPos + 1) \in {Whole(getPos), Whole(getPos) + 1}
      BY <1>1, WholeStep
    <3>5. Whole(getPos + 1) <= Whole(Len(fields))
      BY <1>1, <3>1, WholeMonotonic
    <3>6. Whole(getPos)' = Whole(getPos + 1)
      BY <3>1 DEF Whole
    <3>7. CASE Whole(getPos + 1) = Whole(getPos)
      BY <1>3, <1>5, <3>3, <3>6, <3>7
    <3>8. CASE Whole(getPos + 1) = Whole(getPos) + 1
      <4>1. Whole(getPos) < Len(Records)
        BY <1>2, <3>4, <3>5, <3>8
      <4>2. Promise!Read
        BY <1>3, <1>5, <2>3, <3>3, <3>6, <3>8, <4>1 DEF Promise!Read
      <4> QED
        BY <4>2 DEF Promise!Next
    <3> QED
      BY <3>4, <3>7, <3>8
  <2> QED
    BY <2>1, <2>2, <2>3
<1>6. ASSUME NEW t \in Thread, NEW kind \in Kind, pc[t] \in WriterAt, Put(kind, mine[t]),
             UNCHANGED <<getPos, fail>>
      PROVE  Promise!Next \/ UNCHANGED <<Records, Whole(getPos), fail>>
  <2>0. UNCHANGED <<Whole(getPos), fail>>
    BY <1>6 DEF Whole
  <2>1. CASE fail
    BY <1>1, <1>3, <1>6, <2>0, <2>1, PutField
  <2>2. CASE ~fail
    <3> DEFINE f == [kind |-> kind, call |-> mine[t]]
               n == Len(fields)
               N == Len(fields')
    <3>1. f \in Field /\ fields' = Append(fields, f)
      BY <1>1, <1>6, <2>2, PutField
    <3>2. f.call = mine[t] /\ f.kind = kind
      OBVIOUS
    <3> HIDE DEF f
    <3>3. N = n + 1 /\ fields'[n + 1] = f /\ \A i \in 1 .. n : fields'[i] = fields[i]
      BY <1>1, <3>1
    <3>4. kind = KindAt(n + 1)
      BY <1>1, <3>2, <3>3 DEF Layout
    <3>5. /\ Whole(n) \in Nat
          /\ Whole(n + 1) = Whole(n) \/ /\ n # 0 /\ kind = LastKind
                                        /\ Whole(n + 1) = Whole(n) + 1
                                        /\ 1 + Len(RecordKinds) * Whole(n + 1) = n + 1
      BY <1>1, <3>4, WholeStep
    <3>6. Whole(Len(fields))' = Whole(n + 1)
      BY <3>3 DEF Whole
    <3>7. ASSUME NEW r \in 1 .. Whole(n) PROVE CallOf(r)' = CallOf(r)
      <4>1. r \in 1 .. Whole(Len(fields))'
        BY <3>5, <3>6
      <4> QED
        BY <1>0, <3>3, <3>7, <4>1, RecordsKept DEF Whole
    <3>8. CASE Whole(n + 1) = Whole(n)
      BY <2>0, <3>6, <3>7, <3>8 DEF Records
    <3>9. CASE /\ n # 0 /\ kind = LastKind
               /\ Whole(n + 1) = Whole(n) + 1
               /\ 1 + Len(RecordKinds) * Whole(n + 1) = n + 1
      <4>1. mine[t] \in 1 .. Len(OldCommands) + MaxWrites
        <5>1. mine[t] \in 0 .. Len(issued) /\ Len(issued) \in Nat
          BY <1>1 DEF TypeOK
        <5>2. mine[t] # 0 /\ Len(issued) <= Len(OldCommands) + MaxWrites
          BY <1>6 DEF CallsInv
        <5>3. Len(OldCommands) + MaxWrites \in Nat
          BY LogAssumption
        <5> QED
          BY <5>1, <5>2, <5>3
      <4>2. \A r \in 1 .. Len(Records) : Records[r] # mine[t]
        <5>1. SUFFICES ASSUME NEW r \in 1 .. Whole(n), CallOf(r) = mine[t] PROVE FALSE
          BY <1>2 DEF Records
        <5>2. /\ 1 + Len(RecordKinds) * r \in 1 .. n
              /\ fields[1 + Len(RecordKinds) * r] = [kind |-> LastKind, call |-> mine[t]]
          BY <1>0, <5>1 DEF RecordsWhole
        <5> QED
          BY <1>6, <5>2 DEF CallsInv
      <4>3. ASSUME NEW r \in 1 .. Whole(n) + 1, r = Whole(n) + 1 PROVE CallOf(r)' = mine[t]
        <5>1. r \in 1 .. Whole(Len(fields'))
          BY <3>3, <3>9, <4>3
        <5>2. CallOf(r)' = fields'[1 + Len(RecordKinds) * r].call
          BY <1>0, <5>1 DEF RecordsWhole
        <5> QED
          BY <3>2, <3>3, <3>9, <4>3, <5>2
      <4>4. Records' = [r \in 1 .. Whole(n) + 1 |-> IF r = Whole(n) + 1 THEN mine[t] ELSE CallOf(r)]
        <5>1. Records' = [r \in 1 .. Whole(n) + 1 |-> CallOf(r)']
          BY <3>6, <3>9 DEF Records
        <5>2. \A r \in 1 .. Whole(n) + 1 : r = Whole(n) + 1 \/ r \in 1 .. Whole(n)
          BY <3>5
        <5>3. ASSUME NEW r \in 1 .. Whole(n) + 1
              PROVE  CallOf(r)' = IF r = Whole(n) + 1 THEN mine[t] ELSE CallOf(r)
          BY <3>7, <4>3, <5>2
        <5> QED
          BY <5>1, <5>3
      <4>5. Records' = Append(Records, mine[t])
        <5>1. Records \in Seq(Nat) /\ mine[t] \in Nat
          BY <1>0, <1>1, <4>1, RecordsType
        <5>2. Records' = [r \in 1 .. Len(Records) + 1 |-> IF r = Len(Records) + 1 THEN mine[t] ELSE Records[r]]
          <6>1. \A r \in 1 .. Whole(n) : Records[r] = CallOf(r)
            BY DEF Records
          <6>2. Len(Records) = Whole(n)
            BY <1>2
          <6> HIDE DEF n
          <6>3. ASSUME NEW r \in 1 .. Whole(n) + 1, r # Whole(n) + 1 PROVE Records[r] = CallOf(r)
            BY <3>5, <6>1, <6>3
          <6> QED
            BY <4>4, <6>2, <6>3
        <5> QED
          BY <5>1, <5>2, AppendAsFunction
      <4>6. Promise!Write(mine[t])
        BY <1>6, <2>0, <2>2, <4>2, <4>5 DEF Promise!Write
      <4> QED
        BY <4>1, <4>6 DEF Promise!Next
    <3> QED
      BY <3>5, <3>8, <3>9
  <2> QED
    BY <2>1, <2>2
<1> QED
  BY <1>4, <1>5, <1>6, StreamSteps

-----------------------------------------------------------------------------
(* The properties. *)

THEOREM Invariant == Spec => []IInv
<1>1. Init => IInv
  BY TypeInit, FramingInit, MutexInit, WriterInit, ReaderInit, ResultInit DEF IInv
<1>2. IInv /\ [Next]_vars => IInv'
  BY TypeNext, FramingNext, MutexNext, WriterNext, ReaderNext, ResultNext DEF IInv
<1> QED
  BY <1>1, <1>2, PTL DEF Spec

\* However the calls interleave, the stream is one metadata field and the fields
\* of whole records, each record of a single write() (log.cpp:102-119).
THEOREM StreamFramed == Spec => []Framing
<1>1. IInv => Framing
  BY DEF IInv
<1> QED
  BY <1>1, Invariant, PTL

\* A read() returns the command and the response of one write() (log.cpp:60-82).
THEOREM ReadsAreRecords == Spec => []ReadsOneRecord
<1>1. IInv => ReadsOneRecord
  BY DEF IInv, ResultInv, OneRecord, ReadsOneRecord, BeforeResponse, Thread
<1> QED
  BY <1>1, Invariant, PTL

\* No step removes or changes a field of the log, and no reader moves while a record is written
\* (log.hpp:264-307).
THEOREM RecordsAreAtomic == Spec => NoReadInsideRecord
<1>1. ASSUME IInv, Next, OpenRecord PROVE getPos' = getPos /\ fail' = fail
  <2>1. PICK w \in Thread : pc[w] \in {"wResponse", "wTime"}
    BY <1>1 DEF IInv, WriterInv, OpenRecord, EndsRecord, Last
  <2>2. \A u \in Thread : pc[u] \notin {"rMetadata", "rCommand", "rResponse", "rTime"}
    BY <1>1, <2>1, Exclusion DEF IInv, UsesStream, InLog
  <2> QED
    BY <1>1, <2>2 DEF Next, Step, CallWrite, CallRead, LockTimed, LockLog, WriteMetadata,
       WriteCommand, WriteResponse, WriteTime, ReadMetadata, ReadCommandField,
       ReadResponse, ReadTime, CheckCommand, Goto, shared
<1>2. ASSUME IInv, [Next]_vars PROVE SubSeq(fields', 1, Len(fields)) = fields
  <2>1. fields \in Seq(Field) /\ Len(fields) \in Nat
    BY <1>2 DEF IInv, TypeOK
  <2>2. fields' = fields \/ \E x : fields' = Append(fields, x)
    <3>1. CASE Next
      BY <3>1 DEF Next, Step, CallWrite, CallRead, LockTimed, LockLog, WriteMetadata,
         WriteCommand, WriteResponse, WriteTime, ReadMetadata, ReadCommandField,
         ReadResponse, ReadTime, CheckCommand, Put, shared
    <3>2. CASE UNCHANGED vars
      BY <3>2 DEF vars, shared
    <3> QED
      BY <1>2, <3>1, <3>2
  <2>3. CASE fields' = fields
    BY <2>1, <2>3
  <2>4. ASSUME NEW x, fields' = Append(fields, x) PROVE SubSeq(fields', 1, Len(fields)) = fields
    <3> DEFINE n == Len(fields)  longer == Append(fields, x)
    <3>1. /\ longer \in Seq(Field \cup {x}) /\ Len(longer) = n + 1
          /\ \A i \in 1 .. n : longer[i] = fields[i]
      BY <2>1
    <3>2. SubSeq(longer, 1, n) = [i \in 1 .. n |-> longer[i]]
      BY <2>1, <3>1
    <3> QED
      BY <2>1, <2>4, <3>1, <3>2
  <2> QED
    BY <2>2, <2>3, <2>4
<1>3. IInv /\ [Next]_vars => [KeepsRecords]_vars
  BY <1>1, <1>2 DEF KeepsRecords
<1> QED
  BY <1>3, Invariant, PTL DEF Spec, NoReadInsideRecord

\* The numbers of the calls, and what is written until the end of the log is read.
LEMMA WritesInvariant == Spec => [](CallsInv /\ LoggedInv)
<1>1. Init => CallsInv /\ LoggedInv
  BY CallsInit, LoggedInit
<1>2. IInv /\ (CallsInv /\ LoggedInv) /\ [Next]_vars => (CallsInv /\ LoggedInv)'
  BY CallsNext, LoggedNext DEF IInv
<1> QED
  BY <1>1, <1>2, Invariant, PTL DEF Spec

\* Until a reader meets the end of the log, every write() that returned has left the
\* last field of its record, however the writers interleave (log.cpp:102-119).
THEOREM WritesLogged == Spec => []LoggedUntilEnd
<1>1. LoggedInv => LoggedUntilEnd
  <2> SUFFICES ASSUME LoggedInv, ~fail, NEW n \in 1 .. Len(issued), Returned(n)
               PROVE  Logged(n)
    BY DEF LoggedUntilEnd, WritesAreLogged, Logged
  <2>1. ~Writing(n)
    BY DEF Writing, Returned, WriterAt
  <2> QED
    BY <2>1 DEF LoggedInv
<1> QED
  BY <1>1, WritesInvariant, PTL

\* A log that only one thread reads gives each readCommand a response of the command
\* it looks for, or none, whatever any number of writers does (log.cpp:84-100).
THEOREM OneReaderMatches ==
  ASSUME OneReader
  PROVE  Spec => []ReadCommandMatches
<1>1. IInv /\ CallsInv /\ EndInv /\ [Next]_vars => EndInv'
  BY EndNext DEF IInv
<1>2. EndInv => ReadCommandMatches
  BY DEF EndInv, ReadCommandMatches, ReaderAt
<1> QED
  BY <1>1, <1>2, EndInit, Invariant, WritesInvariant, PTL DEF Spec

\* ImplementsRecordLog: whatever the interleaving of any number of readers and writers
\* of either class, the fields come and go as the whole records of the documented log,
\* each appended by one call, handed out once and in order (log.hpp:42-102).
THEOREM RefinesRecordLog == Spec => ImplementsRecordLog
<1>1. Init => Layout
  BY LayoutInit
<1>2. IInv /\ IInv' /\ Layout /\ [Next]_vars => Layout'
  BY LayoutNext DEF IInv
<1>3. Spec => []Layout
  BY <1>1, <1>2, Invariant, PTL DEF Spec
<1> QED
  BY <1>3, Invariant, WritesInvariant, RefinesInit, RefinesNext, PTL
     DEF Spec, ImplementsRecordLog, Promise!Spec
-----------------------------------------------------------------------------
(* The two mutexes *)

\* What the next operation of a thread waits for.
WaitsForTimed(t) == pc[t] \in {"wLockTimed", "rLockTimed"} /\ timedMutex # NoThread
WaitsForLog(t) == pc[t] \in {"wLock", "rLock"} /\ logMutex # NoThread
Waits(t) == WaitsForTimed(t) \/ WaitsForLog(t)
SomebodyGoesOn == (\E t \in Thread : pc[t] # "idle") => \E t \in Thread : pc[t] # "idle" /\ ~Waits(t)

\* Whoever holds a mutex is inside a call, and waits at most for the one of Log.
LEMMA Holders ==
  ASSUME IInv
  PROVE  /\ logMutex # NoThread => \E u \in Thread : pc[u] # "idle" /\ ~Waits(u)
         /\ timedMutex # NoThread =>
              \E u \in Thread : pc[u] # "idle" /\ (~Waits(u) \/ WaitsForLog(u))
<1>1. logMutex # NoThread => logMutex \in Thread /\ pc[logMutex] \in InLog
  BY DEF IInv, TypeOK, MutexInv
<1>2. timedMutex # NoThread => timedMutex \in Thread /\ pc[timedMutex] \in InTimed
  BY DEF IInv, TypeOK, MutexInv
<1>3. \A u \in Thread : pc[u] \in InTimed => pc[u] # "idle" /\ ~WaitsForTimed(u)
  BY DEF InTimed, InLog, WaitsForTimed
<1>4. \A u \in Thread : pc[u] \in InLog => pc[u] \in InTimed /\ ~WaitsForLog(u)
  BY DEF InTimed, InLog, WaitsForLog
<1> QED
  BY <1>1, <1>2, <1>3, <1>4 DEF Waits

\* The threads in calls of a log never wait all for each other: the mutex of TimedLog
\* is taken before that of Log and never the other way round, so there is always a
\* thread inside a call whose next operation is possible, for any threads and either
\* class (log.hpp:264-306; log.cpp:62-79,104-118).
THEOREM NeverAllWait == Spec => []SomebodyGoesOn
<1>1. IInv => SomebodyGoesOn
  <2> SUFFICES ASSUME IInv, NEW t \in Thread, pc[t] # "idle"
               PROVE  \E u \in Thread : pc[u] # "idle" /\ ~Waits(u)
    BY DEF SomebodyGoesOn
  <2>1. CASE ~Waits(t)
    BY <2>1
  <2>2. CASE WaitsForLog(t)
    BY <2>2, Holders DEF WaitsForLog
  <2>3. CASE WaitsForTimed(t)
    <3>1. PICK u \in Thread : pc[u] # "idle" /\ (~Waits(u) \/ WaitsForLog(u))
      BY <2>3, Holders DEF WaitsForTimed
    <3> QED
      BY <3>1, Holders DEF WaitsForLog
  <2> QED
    BY <2>1, <2>2, <2>3 DEF Waits
<1> QED
  BY <1>1, Invariant, PTL
=============================================================================
