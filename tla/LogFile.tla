------------------------------- MODULE LogFile -------------------------------
(***************************************************************************)
(* A log that is a file (src/src/regilo/log.cpp, include/regilo/log.hpp):  *)
(* sessions append records to it, each with a Log object of its own and    *)
(* perhaps cut off by a crash, and replays look for the scans in it, as    *)
(* ScanController::getScan(false) does.  A session records or replays      *)
(* (fromDevice of the programs) and has one thread; Log has the threads.   *)
(*                                                                         *)
(* A character is a piece of a text and the number of its write().  The    *)
(* fstream keeps what is written until its buffer is full or the file is   *)
(* closed: a crash leaves any beginning of it.                             *)
(***************************************************************************)
EXTENDS Integers, SequencesExt

CONSTANTS
  Timed,        \* may the objects be of class TimedLog (TRUE), of class Log (FALSE)?
  Command, ScanCommand,
  Crashes,      \* may a session crash?
  MaxWrites,    \* bound: calls of write()
  MaxSessions,  \* bound: sessions that record
  MaxReplayed   \* bound: calls of readCommand() in a replay

ASSUME LogFileAssumption ==
  /\ Timed \subseteq BOOLEAN
  /\ Crashes \in BOOLEAN
  /\ ScanCommand \in Command
  /\ {MaxWrites, MaxSessions, MaxReplayed} \subseteq Nat

MESSAGE_END == <<"$", 0>>
Field(kinds, n) == Append([i \in DOMAIN kinds |-> <<kinds[i], n>>], MESSAGE_END)
Metadata(n) == Field(<<"metadata">>, n)
CommandField(n) == Field(<<"command", "lf">>, n)
ResponseField(n) == Field(<<"response", "end">>, n)

VARIABLES
  timed,            \* one of Timed, the same for every session and replay
  file,
  pc,               \* "closed", "recording", "replaying", or "reading" inside readCommand
  sessions,         \* number of sessions that recorded
  durable,          \* how much of the file was there when this one began
  issued,           \* the session and the command of each write()
  recordEnd,        \* where its record ends in the file, 0 if a crash has cut it
  metadataWritten,
  metadataRead,
  stream,           \* of a replay: how much has been read, eofbit and failbit
  logCommand,       \* local of readCommand
  replayed          \* the texts that readCommand has returned

recorder == <<timed, file, sessions, durable, issued, recordEnd, metadataWritten>>
replay == <<metadataRead, stream, logCommand, replayed>>
vars == <<pc, recorder, replay>>

TimeField(n) == IF timed THEN Field(<<"time">>, n) ELSE <<>>

Fresh == [read |-> 0, eof |-> FALSE, fail |-> FALSE]

Init ==
  /\ timed \in Timed
  /\ file = <<>>
  /\ pc = "closed"
  /\ sessions = 0
  /\ durable = 0
  /\ issued = <<>>
  /\ recordEnd = <<>>
  /\ metadataWritten = FALSE
  /\ metadataRead = FALSE
  /\ stream = Fresh
  /\ logCommand = <<>>
  /\ replayed = <<>>

-----------------------------------------------------------------------------
(* A session that records *)

\* Mutant: the file is opened with std::fstream::trunc.
RecordOver ==
  /\ pc = "closed"
  /\ sessions < MaxSessions
  /\ pc' = "recording"
  /\ sessions' = sessions + 1
  /\ file' = <<>>
  /\ durable' = Len(file)
  /\ metadataWritten' = FALSE
  /\ UNCHANGED <<timed, issued, recordEnd, replay>>

\* The file is opened with std::fstream::app.
Record ==
  /\ pc = "closed"
  /\ sessions < MaxSessions
  /\ pc' = "recording"
  /\ sessions' = sessions + 1
  /\ durable' = Len(file)
  /\ metadataWritten' = FALSE
  /\ UNCHANGED <<timed, file, issued, recordEnd, replay>>

Write(c) ==
  LET n == Len(issued) + 1
      record == CommandField(n) \o ResponseField(n) \o TimeField(n)
  IN  /\ pc = "recording"
      /\ n <= MaxWrites
      /\ issued' = Append(issued, [session |-> sessions, command |-> c])
      /\ file' = file \o (IF metadataWritten THEN <<>> ELSE Metadata(n)) \o record
      /\ recordEnd' = Append(recordEnd, Len(file'))
      /\ metadataWritten' = TRUE
      /\ UNCHANGED <<timed, pc, sessions, durable, replay>>

Close == pc = "recording" /\ pc' = "closed" /\ UNCHANGED <<recorder, replay>>

Crash(kept) ==
  /\ Crashes
  /\ pc = "recording"
  /\ pc' = "closed"
  /\ file' = SubSeq(file, 1, kept)
  /\ recordEnd' = [n \in DOMAIN issued |-> IF recordEnd[n] > kept THEN 0 ELSE recordEnd[n]]
  /\ UNCHANGED <<timed, sessions, durable, issued, metadataWritten, replay>>

-----------------------------------------------------------------------------
(* A replay *)

Replay ==
  /\ pc = "closed"
  /\ pc' = "replaying"
  /\ metadataRead' = FALSE
  /\ stream' = Fresh
  /\ logCommand' = <<>>
  /\ replayed' = <<>>
  /\ UNCHANGED recorder

\* std::getline(stream, text, MESSAGE_END), where `old' is what text holds: a last
\* field that is not ended is taken as it is and sets eofbit only, and a stream at
\* its end leaves text as it was.
Getline(s, old) ==
  LET ends == {i \in s.read + 1 .. Len(file) : file[i] = MESSAGE_END}
  IN  CASE s.eof \/ s.fail -> [text |-> old, s |-> [s EXCEPT !.fail = TRUE]]
        [] ~(s.eof \/ s.fail) /\ ends # {} ->
             LET e == Min(ends)
             IN  [text |-> SubSeq(file, s.read + 1, e - 1), s |-> [s EXCEPT !.read = e]]
        [] OTHER -> [text |-> SubSeq(file, s.read + 1, Len(file)),
                     s |-> [read |-> Len(file), eof |-> TRUE, fail |-> s.read = Len(file)]]

ReadCommand ==
  /\ pc = "replaying"
  /\ Len(replayed) < MaxReplayed
  /\ pc' = "reading"
  /\ logCommand' = <<>>
  /\ UNCHANGED <<recorder, metadataRead, stream, replayed>>

\* starts_with(logCommand, command)
Matches(text) ==
  text # <<>> /\ text[1][1] = "command" /\ issued[text[1][2]].command = ScanCommand

\* Mutant: the metadata are read with every record.
ReadMetadataAgain ==
  /\ pc = "reading"
  /\ \E m \in {Getline(stream, <<>>)} :
     \E c \in {Getline(m.s, logCommand)} :
     \E r \in {Getline(c.s, <<>>)} :
     \E t \in {IF timed THEN Getline(r.s, <<>>) ELSE r} :
       /\ logCommand' = c.text
       /\ stream' = t.s
       /\ IF Matches(c.text) \/ t.s.fail
          THEN pc' = "replaying" /\ replayed' = Append(replayed, r.text)
          ELSE UNCHANGED <<pc, replayed>>
  /\ metadataRead' = TRUE
  /\ UNCHANGED recorder

\* Mutant: the end of the log is not looked for.
ReadOn ==
  /\ pc = "reading"
  /\ \E m \in {IF metadataRead THEN [s |-> stream] ELSE Getline(stream, <<>>)} :
     \E c \in {Getline(m.s, logCommand)} :
     \E r \in {Getline(c.s, <<>>)} :
     \E t \in {IF timed THEN Getline(r.s, <<>>) ELSE r} :
       /\ logCommand' = c.text
       /\ stream' = t.s
       /\ IF Matches(c.text)
          THEN pc' = "replaying" /\ replayed' = Append(replayed, r.text)
          ELSE UNCHANGED <<pc, replayed>>
  /\ metadataRead' = TRUE
  /\ UNCHANGED recorder

\* Mutant: the response is a member, which getline leaves as it is at the end.
ReadKeepsResponse ==
  LET last == IF replayed = <<>> THEN <<>> ELSE replayed[Len(replayed)]
  IN  /\ pc = "reading"
      /\ \E m \in {IF metadataRead THEN [s |-> stream] ELSE Getline(stream, <<>>)} :
         \E c \in {Getline(m.s, logCommand)} :
         \E r \in {Getline(c.s, last)} :
         \E t \in {IF timed THEN Getline(r.s, <<>>) ELSE r} :
           /\ logCommand' = c.text
           /\ stream' = t.s
           /\ IF Matches(c.text) \/ t.s.fail
              THEN pc' = "replaying" /\ replayed' = Append(replayed, r.text)
              ELSE UNCHANGED <<pc, replayed>>
      /\ metadataRead' = TRUE
      /\ UNCHANGED recorder

\* One iteration of readCommand: read(), with the time of a TimedLog, and the test.
Read ==
  /\ pc = "reading"
  /\ \E m \in {IF metadataRead THEN [s |-> stream] ELSE Getline(stream, <<>>)} :
     \E c \in {Getline(m.s, logCommand)} :
     \E r \in {Getline(c.s, <<>>)} :
     \E t \in {IF timed THEN Getline(r.s, <<>>) ELSE r} :
       /\ logCommand' = c.text
       /\ stream' = t.s
       /\ IF Matches(c.text) \/ t.s.fail
          THEN pc' = "replaying" /\ replayed' = Append(replayed, r.text)
          ELSE UNCHANGED <<pc, replayed>>
  /\ metadataRead' = TRUE
  /\ UNCHANGED recorder

EndReplay ==
  /\ pc = "replaying"
  /\ pc' = "closed"
  /\ metadataRead' = FALSE /\ stream' = Fresh /\ logCommand' = <<>> /\ replayed' = <<>>
  /\ UNCHANGED recorder

Next ==
  \/ Record \/ (\E c \in Command : Write(c)) \/ Close \/ \E kept \in durable .. Len(file) : Crash(kept)
  \/ Replay \/ ReadCommand \/ Read \/ EndReplay

Spec == Init /\ [][Next]_vars

\* The thread inside readCommand goes on; nobody has to record or to replay.
FairSpec == Spec /\ WF_vars(Read)

-----------------------------------------------------------------------------
Char == ({"metadata", "command", "lf", "response", "end", "time"} \X (1 .. MaxWrites)) \cup {MESSAGE_END}

\* Types of the file and of the members of a Log (log.hpp:108-126).
TypeOK ==
  /\ timed \in Timed
  /\ file \in Seq(Char)
  /\ pc \in {"closed", "recording", "replaying", "reading"}
  /\ sessions \in 0 .. MaxSessions
  /\ durable \in 0 .. Len(file)
  /\ \A n \in DOMAIN issued : issued[n].session \in 1 .. sessions /\ issued[n].command \in Command
  /\ {metadataWritten, metadataRead, stream.eof, stream.fail} \subseteq BOOLEAN
  /\ stream.read \in 0 .. Len(file) /\ logCommand \in Seq(Char)
  /\ \A i \in DOMAIN replayed : replayed[i] \in Seq(Char)

\* The scans whose records are whole in the file, and where a replay has to return one.
Response(n) == <<<<"response", n>>, <<"end", n>>>>
Scans(inSessions) ==
  {n \in DOMAIN issued : /\ issued[n].session \in inSessions
                         /\ issued[n].command = ScanCommand
                         /\ recordEnd[n] > 0}
Place(n, scans) == Cardinality({m \in scans : m <= n})

\* A replay hands out every scan of the first session that is whole in the file, each
\* once, in order and unchanged, and does not end before, whatever a crash has cut
\* off behind it and later sessions have appended ("Read specified command from the
\* log (the others are skipped)", log.hpp:82; log.cpp:90-100).
FirstSession == Scans({issued[1].session})
FirstSessionReplayed ==
  issued # <<>> =>
    /\ \A n \in FirstSession : Place(n, FirstSession) \in DOMAIN replayed =>
         replayed[Place(n, FirstSession)] = Response(n)
    /\ pc = "replaying" /\ Len(replayed) <= Cardinality(FirstSession) => ~stream.fail

\* All that a replay of a single session returns beyond its whole scans is what is
\* left of the response that a crash has cut, once, and empty texts after it
\* (log.cpp:115-116: a record is not written at once).
OnlyTheCutRecord ==
  sessions = 1 =>
    \A i \in Cardinality(Scans({1})) + 1 .. Len(replayed) : replayed[i] # <<>> =>
      /\ i = Cardinality(Scans({1})) + 1
      /\ \E n \in DOMAIN issued : recordEnd[n] = 0 /\ IsPrefix(replayed[i], Response(n))

\* readCommand ends on every file, also on one that breaks off in a field or has the
\* metadata of other sessions in it (log.cpp:93-97).
ReadsEnd == pc = "reading" ~> pc # "reading"

\* A replay returns the scans of all the sessions that were closed ("It is used to log
\* all commands that were send to the device", log.hpp:106).
AllSessionsReplayed ==
  \A n \in Scans(1 .. sessions) : Place(n, Scans(1 .. sessions)) \in DOMAIN replayed =>
    replayed[Place(n, Scans(1 .. sessions))] = Response(n)
=============================================================================
