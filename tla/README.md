# A TLA+ model of regilo

regilo is a small C++ library that drives a Neato XV robot or a Hokuyo laser scanner over a
socket or a serial line and records the conversation in a log, from which it can be replayed.
Two programs come with it: `regilo-scan` (one scan on the console) and `regilo-visual` (a
window with a radar, automatic or manual scanning and driving). This directory holds TLA+
modules of its parts, TLC runs that check them, and TLAPS proofs. Paths are relative to the
root of the repository.

## 1. Inventory

| Component | State it keeps | Operations | What is hard about it |
|---|---|---|---|
| `Log` (`log.hpp`, `log.cpp`) | an iostream, `metadataRead`, `metadataWritten`, a mutex | `read`, `readCommand`, `write`, `isEnd` | shared between controllers and threads (`controller.hpp:81`); the get and put sides share one failbit |
| log files | the file, which outlives the objects | opened to append, closed, cut off by a crash, replayed | the metadata field belongs to the object and not to the file; a record is written in pieces |
| `TimedLog` (`log.hpp:164-307`) | the above, a second mutex, `num`, `den`, `lastCommandTime`, `firstReadTime`, `firstWriteTime` | the same, with a time after each record and reads that wait (`syncTime`) | two mutexes per call; the record is written in two critical sections of `Log`; a thread sleeps with the mutex held; two units of time |
| `getLine` (`utils.cpp:26`) | locals, a stream | one call | delimiters of several characters, the end of the stream, the empty line |
| `StreamController` (`controller.hpp`) | `deviceInput`, `deviceOutput`, two streambufs, `istream` with its state bits, a log | `sendCommand` in five forms | answers cut into segments anywhere; exceptions between two steps; buffers that outlive a call; no timeout |
| `SocketController`, `SerialController` | the asio stream, an endpoint | `connect`, `isConnected`, `getEndpoint` | a failed or repeated connect |
| `ScanController` | `lastScanId` | `getScan` from the device or the log | the time and number of a replayed scan |
| `HokuyoController` | the steps and the cluster count of a scan | `setScanParameters`, parser, `getVersionInfo` | an iteration after the last character; unsigned wrap |
| `NeatoController` | `testMode`, `ldsRotation` | setters, `setMotor`, parser | a scan that is cut off |
| `regilo-visual` (`examples/regilo-visual`) | three threads, `controllerMutex`, `radarMutex`, two condition variables, `scanThreadRunning` | key and paint handlers, scan loop, radar loop, closing | threads that share a controller, notifications without a lock, joining |
| `regilo-scan` | none | a straight line of calls | |
| `ScanData`, `ScanRecord`, `version` | plain values | constructors, printing | nothing changes state |
| simulators (`tests/src/simulators`) | a log that is replayed as a device | `run` | they are the device of the model |

How they interact: a program calls `getScan` or a setter of a Neato or Hokuyo controller, which
formats a command and calls `sendCommand`; `sendCommand` writes to the stream, waits with
`read_until`, cuts the echo and the answer out of its buffer with `getLine`, and appends both
to the log, which other controllers may share. Replaying goes the other way: `getScan(false)`
takes the answer from `Log::readCommand`. In regilo-visual two threads call one controller, and
`main()` calls it again after the window is closed.

What makes each of them correct:

- Log: records are whole and never mixed; a read takes one record; a replayed answer belongs to
  the command; every call returns; nothing that was written gets lost.
- log files: what was recorded comes back, each record once and in order, whatever a crash left
  and other sessions appended; every read ends.
- replay clock: no record comes before its time or before an earlier one; whoever waits wakes up.
- getLine: a line ends at the first delimiter, no character is lost, every call ends.
- StreamController: an answer belongs to its command, whatever the segments; a command is sent
  once; the log has a record for each call that returned; nothing is left over between calls but
  an answer that nobody took.
- regilo-visual: the controller and the scan are used by one thread at a time, also at the end;
  the window responds; scanning goes on; the program ends when it is closed.
- scan parsers: one record per step or line, each from its own part of the answer; they end.
- NeatoController: the getters say what mode the robot is in.
- transports: "connected" means connected.

## 2. Modules

| Module | Models | Lines of the source |
|---|---|---|
| `Log` | a shared `Log` or `TimedLog`, several threads, one step per mutex or stream operation | `log.cpp:26-119`, `log.hpp:108-307` |
| `RecordLog` | what the interface `ILog` promises: `write` appends a record, `read` takes the next | `log.hpp:42-102` |
| `LogProofs` | theorems about `Log` | |
| `LogFile` | a log file over several sessions, crashes and replays | `log.cpp:26-119`, `log.hpp:108-162`, `:303-304` |
| `LogFileProofs` | theorems about `LogFile` | |
| `ReplayClock` | the times of a `TimedLog`: recorded, then waited for by threads | `log.hpp:199-307`, `utils.hpp:34-39` |
| `ReplayClockProofs` | theorems about `ReplayClock` | |
| `Delimiters` | where a text is cut by a delimiter (`read_until`, `std::getline`) | external |
| `GetLine` | the loop of `getLine`, a character per step | `utils.cpp:26-67` |
| `GetLineProofs` | theorems about `GetLine` | |
| `Controller` | `sendCommand`, the connection and the device | `controller.hpp:98-308`, `simulator.cpp:34-51` |
| `ControllerProofs` | theorems about `Controller` | |
| `HokuyoScan` | `setScanParameters`, `getScan` and the parser of the Hokuyo | `hokuyocontroller.hpp:61-67`, `:167-216`, `scancontroller.hpp:84-109` |
| `NeatoModes` | the modes of a Neato, set by commands that may stay in the buffers | `neatocontroller.hpp:92-93`, `:197-215`, `controller.hpp:276-295` |
| `NeatoScan` | `NeatoModes` with `getScan` and the parser of its scans | `neatocontroller.hpp:217-264`, `scancontroller.hpp:84-109` |
| `NeatoScanProofs` | theorems about `NeatoModes` and `NeatoScan` | |
| `HokuyoScanProofs` | theorems about `HokuyoScan` | |
| `RegiloVisual` | the threads of regilo-visual | `regilovisual.cpp:33-431`, its `main.cpp:71-127` |
| `RegiloVisualProofs` | theorems about `RegiloVisual` | |
| `MC...` | constants for TLC | |

### Log

`fields` is what the stream holds, `getPos` how much of it getline has taken, `fail` the
failbit. A field is abstract: its kind and the number of the `write` that produced it. This is
all that the properties compare. A thread runs one call at a time; `pc` says which operation is
next, and each of lock, unlock, `stream <<` and `getline` is one step. `Timed` chooses the class:
with it the steps of `TimedLog` surround those of `Log` and there are two mutexes, as in the
code, where the derived class has a member of the same name. The stream is one in memory, with
independent positions for reading and writing. `LogFile` has the files and `ReplayClock` the times;
the three are one class taken apart by what can go wrong: threads, sessions and time.

`RecordLog` has no threads and no fields, only a sequence of records and a read position.
`ImplementsRecordLog` is the refinement: a record exists as soon as its last field is written,
and the read position is the one after whole records.

### LogFile

The file is a sequence of characters, each a piece of a text with the number of its `write` (so
that a record can be told from all others), and `MESSAGE_END`. `Record`, `Write` and `Close` are the
life of one object; `Crash(kept)` leaves any beginning of what the session has written (`durable`
is where it began). `Replay` opens the file again; each `Read` is an iteration of `readCommand`
with `read` inside it, and `Getline` has the three cases that matter: a field with its end, a
last one without (eofbit only) and a stream at its end (the text is left as it was). A session
records or replays, as the programs do, and has one thread.

### ReplayClock

`now` is the system clock in ticks, `Base` of them in a second, and `Epoch(den)` the truncated
reading of it in a unit. A log is recorded and then replayed by several threads. A `write` is three
steps between which time passes: `Write` begins `Log::write()`, which takes as long as its stream
does; `FirstTime` comes behind it, at the first reading of the clock (`log.hpp:303`), which sets
`firstWriteTime` in the first call; `WriteTime` is the second reading and the end. `written` is the
clock at `FirstTime`: the times in a log are counted from the end of the first `Log::write()`, not
from its beginning, and so is what `NotEarly` says of them. A reader takes the mutex, a record and its time
(`Lock`, `ReadRecord`), then tests, sleeps and tests again (`Wait`, `Wake`) with the mutex held.
At the end of the log the time is one of `Garbage`. `syncTime` is called when no thread is in
`read`, as in the programs. `returned` remembers what the last read gave and when.

### NeatoScan

A text is a sequence of lines, a line what it begins with and the numbers in it. `Answers` are the
whole scans and the messages of the robot, `Cuts` all that can be left of them in a log that breaks
off. `good`, `line`, `lastId` and `data` are the variables of the parser; an iteration of its loop
is `ReadRow`, `ReadFooter` or `ReadFails` (one of the conversions throws).

### NeatoModes

The two flags of the controller, the robot's own modes, and the commands between them, each of them
whole. `SendCommand` is `Transmit` on a connection, `Keep` before `connect()` (it throws, and the
command stays in `deviceInput` and `ostreamBuffer` for a later call to send, as in `Controller`), or an
exception on a connection that has broken. `Answered` takes the next answer, which after such a
call may be the one to an earlier command, and sets the flag. The robot may be in any mode at first,
as nothing asks it. A flag is `unanswered` until its last command that may reach the robot is answered.

### GetLine and Delimiters

`text` and `delim` are what the call is given; `rest`, `good`, `c`, `delimPart`, `result` and
`line` are the variables of the code. The reference definition of the answer is in `Delimiters`
(`Before` and `After` the first place where the delimiter ends), which `Controller` also uses
for `read_until` and for the effect of a whole `getLine`.

### Controller

A character stands for the text of a command, for a piece of the text of an answer, or for one
character of `REQUEST_END` or `RESPONSE_END`: those are the characters whose place matters. The
buffers of the class are variables of the same name. `Call` is the part of `sendCommand` up to
`ba::write`; `Write`, `WriteFails`, `ReadSome`, `ReadFails`, `GetCommand`, `GetOutput`
and `Finish` follow the code line by line. `ReadSome(n)` hands over any number of the characters
that are on their way, so an answer is cut into segments in every possible way. `Break` loses
any part of what is under way. A device takes a line and sends the echo, the answer and
`RESPONSE_END`, like the simulators of the tests. `Finish(taken)` writes the record and takes the
result from `deviceOutput`: all of it for a text, a part or all for another type
(`TakesOutput`); what is left stays for the next call. `connect()` happens once, because a controller
has no way to close its stream. `Controllers` has what a controller and its device agree on
(delimiters, echo, the lines of an answer): one run checks the Neato, the Hokuyo and the default
delimiters of `SocketController` and `SerialController`, without an echo (`Plain`) and with one
(`Default`), chosen at the start (`self`). `EndsOnce` tells them apart: with `Default` the echo ends
like an answer, so that `read_until` may stop at it. `OwnResponse` then says that a call returns a
beginning of the answer to its own command, and the whole answer in all other cases.

### HokuyoScan

An iteration of the parser's loop is a step. The state is the parameters, the characters still to
be read (a digit is its character less '0'), the state of the stream, `step` as an unsigned
number, and the records. `in >> high >> low` gives the next two characters or, when they fail,
anything (`Garbage`). The answer of the scanner is a pair for each step asked for; it may also
refuse, and a log that has ended gives nothing, which leaves the status uninitialised. `Return` is
the end of `getScan`, which numbers the scans. The small steps and the small `size_t` keep what
matters: steps before, in and after the valid range, and the wrap of `fromStep - 1`.

### RegiloVisual

`pc[t]` is where each thread is, `holder` who has which mutex. "gui" is the main thread with
everything it does from setting the log to the end of `main()`. A command of the controller is
one state (`scanning`, `driving`, `switchOn`, `switchOff`) that ends in an answer or an
exception; what happens inside is the subject of `Controller`. `wait_for` may end at any time
(a notification or the timeout). The test of `scanThreadRunning`, entering `wait_for` and waiting
are separate steps, so that a notification can fall between them. `scanThreadRunning` starts
with either value, as the constructor does not set it. An exception that leaves a thread, a
call through the null pointer that `GetTopWindow()` returns when the frame is gone, and the use
of the uninitialised log pointer end the program (`Abort`).

## 3. Runs

| Run | Question | Bounds |
|---|---|---|
| `MCLogShared` | two writers and a reader of a `TimedLog`: is every interleaving harmless, does every call return, and does the object implement `RecordLog`? | 3 writes, 2 reads, 2 commands |
| `MCLogFile` | two sessions of either class, cut off at any character: what does a replay return, and does it end? | 3 writes, 2 sessions, 4 reads of a replay |
| `MCLogFileSessions` (violation) | two sessions that were closed: does a replay return the scans of both? | 2 writes, 2 sessions, 3 reads |
| `MCReplayClock` | two threads replay a log in its unit or a finer one: is a record early, is one overtaken, does a sleeper wake up? | 3 writes, 4 reads, clock from 10 to 18, units of 1 and 2 ticks, a `write` of up to 3 ticks |
| `MCReplayClockCoarse` (violation) | the same in a coarser unit: is a record early? | 3 writes, 3 reads, clock from 10 to 22 |
| `MCGetLine` | every text and each kind of delimiter: is a character lost, and is the line the right one? | texts up to 7 characters of 2, delimiters up to 3 |
| `MCController` | a Neato, a Hokuyo (whose `RESPONSE_END` contains `REQUEST_END`) or the default delimiters with an echo or without, commands without an answer, a connection that may break: whose answer does a call return, what does the device get, what is in the log, is anything left for the next call, does every call return? | 4 calls |
| `MCControllerEarly` (violation) | a call before `connect()`: is its command sent again? | 2 calls |
| `MCHokuyoScan` | requests up to or beyond the last valid step or to well before the first, refused and missing answers: is there one record per valid step, from its own characters? | 6 steps of which 3 are valid, `size_t` of 3 bits, 3 distances, 2 scans with records |
| `MCHokuyoScanMiddle` (violation) | a request that ends before the last valid step | the same |
| `MCNeatoScan` | whole, refused and cut scans, and modes set by commands before `connect()` or over a connection that may break, of a robot in any mode: is there one record per row, do the getters agree with the robot, does the parser end? | 2 rows, 1 distance, 2 error codes, 2 scans with records, 2 commands |
| `MCRegiloVisual` | every command line and every order of events and thread steps | none: the state is finite |

The bounds are small because the hazards are: two writers and a reader are enough for every
pair of critical sections to meet, and three writes let one thread start a record while the
others are at every point of theirs and the first record has been read. A text of seven
characters holds two delimiters of three characters and one that breaks off. Two calls suffice
for a call to take what the one before has left; the third and fourth show that it does
not build up. In a log file two sessions are enough for one to come after what another has left,
and three writes put a scan and another command in front of, at and behind the place of a crash.
A clock that moves by up to eight ticks, with units of one and two ticks, lets every time be
truncated either way at both ends, and two readers let one call `read()` at any point of the
other's waiting. Two rows make a first and a last one, and a cut can fall on, in and between
them; the recurring record of a cut row needs two more (`ReadRow`).

**What the violations say.**
`MCLogFileSessions`: every object writes its own metadata field and a reader skips only the first
of a file, so in the second session it takes the metadata for a command, the command for a response
and finds none of the scans.
`MCReplayClockCoarse`: `DurationT::period::den / den` divides integers and gives 0 when the unit of
the object is coarser than that of the log, as with the logs of the repository's tests
(nanoseconds) and the default `TimedLog<>` (milliseconds): all times are 0 and nothing is waited for.
`MCHokuyoScanMiddle`: the parser's loop runs once more after the last pair and makes a record of
two characters that were not read, unless the step is beyond the last valid one. A request that ends
right before the first valid step has such a record too; `MCHokuyoScan` leaves out both.
`MCControllerEarly`: a `sendCommand` that throws keeps its command in two buffers.

**What is modelled and known without a run of its own.** Each of these is a step or an instance
of a module, and follows from the run named with the change named.

- Two readers of one log (`MCLogShared` with `Readers = {r1, r2}`) violate `ReadCommandMatches`:
  `readCommand` asks `isEnd()` after `read()` has released the mutex, so it may return the answer to
  another command when another reader exhausts the log in between.
- A read at the end sets the failbit, and all later writes silently do nothing: `LoggedUntilEnd`
  without its premise (`WritesAreLogged`) is violated in `MCLogShared`.
- With `RESPONSE_END` equal to `REQUEST_END` (the default of `SocketController` and
  `SerialController`) and an echo, the echo satisfies `read_until`: the call may return an empty text or
  the beginning of its answer, and `istream`, once at its end, stays so for all later calls.
  `streamcontrollersuite.cpp:79-141` sends to an echoing simulator in this way and expects whole answers,
  which come if echo and answer arrive together. `MCController` has this controller; `OwnResponse` with
  `text = Body(k)` for it too is violated. The Neato and the Hokuyo set another `RESPONSE_END`.
- The getters of a Neato tell a mode that the robot is not in before the first command is answered,
  and when the answer to a command is lost: `FlagsAgree` is about the other cases.
- `log` in `main.cpp:94` of regilo-visual (and in `regilo-scan`) is given to `setLog` uninitialised
  when there is a device and no `-l`: `RegiloVisual!SetLog` ends the program there.
- A log that breaks off after the last number of a row makes the Neato's parser add this row for
  ever: `getline` leaves the line as it was. `ParserEnds` names the case (`BreaksOffInRow`).
- `getLine` misses "ab" in "aab" (the library uses no such delimiter) and does not store an empty
  line when the delimiter has several characters.
- With `readResponse` off `sendCommand` returns what is left in `deviceOutput`: `LeavesNothing` says
  what that can be (`LeftOver`).
- Counted from the beginning of the first `write`, every later record is due early by the time that
  its `Log::write()` took: `NotEarly` with `written` set in `Write` is violated in `MCReplayClock`.
- A synchronised read at the end of a log waits for an uninitialised time, with the mutex held.

**Fairness.** `Log!FairSpec`: a thread inside a call goes on, by weak fairness; nobody has to begin a
call. A mutex that is taken and released for ever could pass a waiting thread by, as weak fairness
allows; it is enough here because the number of calls is bounded. `GetLine!FairSpec`: the call goes on.
`Controller!FairSpec`: the caller's thread runs and a device that is connected answers; nobody has
to call, to connect or to break the connection. There is no timeout in the code, so without the
answer of a device a call would not return: the property says what the code relies on.
`LogFile!FairSpec` and `NeatoScan!FairSpec`: the thread inside a call goes on.
`ReplayClock!FairSpec`: the clock and each thread inside `read()` go on; weak fairness, because a
reader that waits for the mutex has not begun to read for the properties.
`RegiloVisual!FairSpec`: strong fairness for each thread, because what a thread waits for is a
mutex that the scan thread leaves free for 500 ms after every scan; a command is answered or
throws; no user event has to come.

## 4. Proofs

All are checked by TLAPS for every value of the constants allowed by the named assumptions.

| Theorem | Says |
|---|---|
| `LogProofs!TypeCorrect` | `Spec => []TypeOK` |
| `LogProofs!StreamFramed` | `Spec => []Framing`: whatever the threads do, the stream is a metadata field and whole records, with at most one open record at its end |
| `LogProofs!ReadsAreRecords` | `Spec => []ReadsOneRecord`: a `read` returns the command and the answer of one `write` |
| `LogProofs!RecordsAreAtomic` | `Spec => NoReadInsideRecord`: no step removes or changes a field, and nobody moves in the stream while a record is written |
| `LogProofs!WritesLogged` | `Spec => []LoggedUntilEnd`: until a reader meets the end, every `write` that returned has left its record |
| `LogProofs!OneReaderMatches` | `Spec => []ReadCommandMatches`, if there is one reader |
| `LogProofs!RefinesRecordLog` | `Spec => ImplementsRecordLog`: every step is a step of `RecordLog` or a stutter |
| `LogProofs!NeverAllWait` | of the threads inside calls there is one whose next operation does not wait for a mutex |
| `GetLineProofs!TypeCorrect` | types, and `delim.at()` never leaves the delimiter |
| `GetLineProofs!LosesNothing` | result, broken-off delimiter, current character and rest are the text |
| `GetLineProofs!LinesEndAtDelimiters` | `Spec => []SplitsAtDelimiter`: a delimiter of one repeated character is found where it first ends |
| `GetLineProofs!EndsInTime` | a call takes at most three steps more than the stream has characters |
| `LogFileProofs!TypeCorrect` | `Spec => []TypeOK` of `LogFile` |
| `LogFileProofs!ReplaysFirstSession` | `Spec => []FirstSessionReplayed`: for any number of sessions, calls and crashes |
| `LogFileProofs!ReplaysNothingElse` | `Spec => []OnlyTheCutRecord` |
| `LogFileProofs!ReadsInTime` | an iteration of `readCommand` that does not return has read on in the file |
| `NeatoScanProofs!TypeCorrect` | types, and `lastId` counts the records |
| `NeatoScanProofs!FlagsAreRight` | `Spec => []FlagsAgree`: the getters are right about a mode whose last command was answered, or, after calls before `connect()`, will be |
| `NeatoScanProofs!RecordsAreRows` | `Spec => []OneRecordPerRow`: on whole and cut texts of any number of rows |
| `NeatoScanProofs!EndsInTime` | every step of the parser leaves fewer to be done, unless the text breaks off after the last number of a row |
| `ReplayClockProofs!TypeCorrect` | `Spec => []TypeOK` of `ReplayClock` (which no run needs to check) |
| `ReplayClockProofs!NeverEarly` | `Spec => []NotEarly`, counted from the end of the first `Log::write()` and up to a tick of each unit, if the unit of the reading object divides that of the log |
| `ReplayClockProofs!InOrder` | `Spec => NoOvertaking`, for any units and readers |
| `HokuyoScanProofs!TypeCorrect` | parameters, digits and the unsigned step stay in their ranges, also with clusters |
| `HokuyoScanProofs!NumbersHaveNoGap` | `Spec => []NumberedInOrder` |
| `HokuyoScanProofs!RecordsAreSteps` | `Spec => []OneRecordPerStep`, if every accepted request asks for no clusters and ends where the next step is not valid (`Scope`) |
| `HokuyoScanProofs!EndsInTime` | every step of the parser leaves fewer to be done, with no premise |
| `ControllerProofs!TypeCorrect` | types of the buffers, the results and the log, for any delimiters and answers |
| `ControllerProofs!AnswersAreOwn` | `Spec => []OwnResponse` for every segmentation and any delimiters, unless somebody sends before `connect()`: the whole answer if the echo does not end like one, else a beginning of it |
| `ControllerProofs!NeverSentTwice` | `Spec => []CommandsSentOnce`, under the same premise |
| `ControllerProofs!BuffersAreEmpty` | `Spec => []LeavesNothing`, under the same premise: in `deviceOutput` nothing but an answer that nobody took |
| `ControllerProofs!LogHoldsWhatReturned` | `Spec => []LogMatches`, under the same premise: a record for each call that returned, in which a command that a throw left behind may be in front, once |
| `ControllerProofs!AnswersComeIn` | a call that waits in `read_until` with a good `istream` has an answer, or a request that will be answered, under way or a broken connection; under the same premise |
| `RegiloVisualProofs!TypeCorrect` | `Spec => []TypeOK`, with who holds which mutex |
| `RegiloVisualProofs!ThreadsExclude` | `Spec => []Exclusive`: one thread at a time uses the device, the scan or the angle of the radar |
| `RegiloVisualProofs!ScansBetweenSwitches` | `Spec => []ScansWhileRotating`: between the two switches of `main()` |
| `RegiloVisualProofs!NoScanAfterEnd` | `Spec => []StopsAtEnd` |
| `RegiloVisualProofs!JoinsInTime` | while `main()` waits for its threads they take at most ten steps |

`Log`. `Framing` is not inductive: that a writer appends the right field follows from what the
stream ends with, which follows from who holds the mutexes. The invariant `IInv` of `LogProofs`
adds, for each value of `pc`, who holds which mutex, how far the record of that thread has come
and which fields a reader has taken. The theorems hold for any number of threads and calls and
for both classes, so plain `Log` has no run of its own. The assumption used is `LogAssumption`.
That nothing written gets lost (`LoggedUntilEnd`) is about calls that are over: `CallsInv` says that
each call of `write` has a number of its own and has not yet written its last field, and `LoggedInv`
that, while the stream is good, the record of a call is there or its writer is at it.
`ReadCommandMatches` needs that a read that leaves a failed stream has an empty response (`EndInv`);
with two readers that is false (section 3). The refinement finds the records by their place: by
`Layout` a field has the kind that belongs to its place, so the last field of a record is a
`RecordLog!Write`, the last `getline` of a read a `RecordLog!Read`, and a getline that fails, which
happens only behind a whole record, a `RecordLog!ReadEnd`; every other step is a stutter.
`NeverAllWait` follows from who holds which mutex: that of `TimedLog` is always taken first.

`GetLine`. `NothingLost` is inductive together with the types; the concatenations are
rearranged with the lemmas of `SequenceTheorems`. For `SplitsAtDelimiter` the invariant `Searched` says
that no delimiter ends in what has been read, and that the result does not end with a character of
the delimiter: then a delimiter that ends at the next character is the part that was matched and
this character (`EndsHere`). The second half is what fails for other delimiters ("ab" in "aab").
Only `GetLineAssumption` is used.

`LogFile`. What a replay returns depends on every character in front of it, which several sessions and
crashes have left. `IInv` of `LogFileProofs` fixes their places: in the first session that wrote,
record `n` ends at `End(timed, n)` and has its fields in front of it (`Written`, which also says that
the whole records are the first ones and that a later session's crash cannot reach them, as they are
below its `durable`); in a file of one session a record that is not whole ends behind the end of the
file (`OneSession`). A replay has reached the end of record `r` of that session, with the scans up to
it returned (`Reached`), or is behind its whole records and has returned them all (`Beyond`). The
hardest step is the iteration that meets the cut, which may fall on any field (`CutRead`).
Only `LogFileAssumption` is used.

`NeatoScan`. `IInv` of `NeatoScanProofs` adds to the types of the locals (`Locals`) what is left of
the text: before the first line all of it (`First`); in the loop, as long as the stream is good,
the lines behind the header and the records that were made, and afterwards a line that is no footer
(`While`). That the footer is the last line of every text (`WellFormed`) is proved of `Answers` and
`Cuts`. Without it a footer could hide rows. `FlagsAgree` has an invariant of its own, `MInv`: what is
in the buffers and on the way is counted off against the answers (`InTime`, without early calls), and
a command that is kept or waited for is one of a flag that is `unanswered` (`Kept`).
Only `NeatoScanAssumption` and `NeatoModesAssumption` are used.

`HokuyoScan`. `IInv` of `HokuyoScanProofs` says, for each iteration, that the characters that are
left are the pairs from the next step on (`Left`, with the wrap of the unsigned step) and that the
records are those of the valid steps before it (`RecordsUpTo`). The premise `Scope` is what the extra
iteration needs: `MCHokuyoScanMiddle` shows a request outside it. Only `HokuyoScanAssumption` is used.

`Controller`. `OwnResponse` speaks of results that have long been returned; that the next one will be
right depends on every character that is under way. `IInv` of `ControllerProofs` says where the answer
to the present call is (`Incoming`, with `Segments` for a stream that is good: in `istreamBuffer` and on
the network together, a beginning of what the device sends; and that only an echo which ends like an
answer brings `istream` to its end), what a throw may leave in the buffers (`Clean`), that the device
has whole requests before it of which only the last can be answered (`Outgoing`, with `Requests` and
`Pending`), and that they are in order behind those it took (`InOrder`). `ControllerAssumption`, which TLC
evaluates for the controllers of the runs, asks of an answer only that its text ends at its own
`RESPONSE_END`; whether the echo does so too is the case distinction `EndsOnce`. If it does not, the
lemma `WholeAnswer` concludes that `read_until` stops at the end of the reply and nowhere else; if it
does, `CutShort` that what is taken behind the echo is a beginning of the answer, and a stream that
is at its end gives nothing at all. The premise `~SendsEarly` is needed for `NeverSentTwice`, as
`MCControllerEarly` shows. For the log, `LInv` adds what the present call sends (`Sent`: perhaps what calls
that threw have left, `Thrown`, and its own command) and, until a call throws, that each call has its
record and that `deviceOutput` is the end of the last answer (`Kept`); `LogMatches` and
`LeavesNothing` follow. `AnswersComeIn` follows from `Outgoing`: before the device has
taken the present request it has whole requests before it, and afterwards the buffer and the network
hold the whole answer.

`ReplayClock`. `NotEarly` relates four readings of the clock, of which two were taken in another
unit and an earlier process. The invariant carries the bounds from step to step: what the times of
the log say of `written` (`Recording`), that only the holder of the mutex is inside `read`
(`Locked`), in which order the records are taken (`Order`), what `firstReadTime` says of `syncedAt`
(`Clock`), and the property itself under its premise (`Timely`). Division is
handled by a few lemmas about `\div`. `NeverEarly` has the premise that the second unit is the
same or divides the first; `MCReplayClockCoarse` shows that it is needed. `InOrder` needs no premise: it
follows from `Order`.

`RegiloVisual`. `IInv` of `RegiloVisualProofs` has five parts: where each thread may be
(`Places`), that a mutex is held exactly between its `lock()` and `unlock()` (`Locks`), that the
two other threads exist only between `OnInit` and the join (`Phases`), when the LIDAR turns
(`Rotation`), and that with automatic scanning only the scan thread scans (`Ending`). `Locks`
alone does not give `Exclusive`: `main()` switches the LIDAR without the mutex, which is right
because of `Phases`. Only `RegiloVisualAssumption` is used.

How long a call can take. That a call returns needs fairness, which is out of the prover's reach; that
it cannot go on for ever does not. `EndsInTime` (of `getLine` and of both parsers), `ReadsInTime` and
`JoinsInTime` give a number of steps that are left, a natural number, which every step of the call
makes smaller. The Hokuyo's needs only the types; the Neato's an invariant of its own (`LastLine`:
what `std::getline` leaves in the line at the end of the stream is no row, but for the cut that
`BreaksOffInRow` names); `ReadsInTime` that a `getline` behind the end fails, and with it all that
follow; `JoinsInTime` that nobody sets `scanThreadRunning` again (`Stopped`).

Model-checked only: the properties under fairness (`CallsReturn` of `Log` and of `Controller`,
`CallReturns`, `ReadsEnd`, `SleepersReturn`, `ParserEnds` of both parsers, `GuiResponds`, `Exits`,
`KeepsScanning`). All other properties of the passing runs are theorems.

## 5. What is left to do

1. `Session`: `Controller` with `LogFile`, recording and replaying; `getScan` gives the same scans.
2. `Connection`: the two transports when connecting fails or is repeated, once it is settled what
   to assume of the sockets of the system.

Theorems: a number of steps left for a sleeper of `ReplayClock` (how much of the clock is left) and
for a call of `Controller` whose device answers.

## 6. Not modelled

Values and printing (`ScanData`, `ScanRecord`, `Version`), the formatting of commands, the
parsing of command lines, the geometry, zooming and status bar of the window, build files and the
source beautifier. `wxWidgets`, `boost::asio` and the streams of the standard library are
external: they are modelled by what the code relies on.

Also left out:

- `SocketController` and `SerialController` beyond one `connect()` that succeeds: what a socket
  does after a failed connect is the system's, and the rest is the conversion of an endpoint.
- `regilo-scan`, a straight line of calls on one thread.
- Reading and writing one log file through one object: no program of the repository does it.
- A system clock that is set back while a log is recorded or replayed; `syncTime()` called while a
  read sleeps, which makes the read wait practically for ever; synchronisation that begins in the
  middle of a log, where a read waits for the time since the first record, is in the model and
  harmless for `NotEarly`.
- A number that a crash cuts in two in a scan (it is read as a smaller number), and characters of a
  text that are themselves a `$`.
- Clusters of steps in a Hokuyo's scan: the library never asks for them.
