----------------------------- MODULE Controller -----------------------------
(***************************************************************************)
(* A StreamController and the device at the other end of its stream        *)
(* (include/regilo/controller.hpp): sendCommand, what it leaves in its     *)
(* buffers when asio throws, and the arbitrary segments in which a socket  *)
(* or a serial line delivers an answer.                                    *)
(*                                                                         *)
(* A character is the whole text of a command, a piece of the text of an   *)
(* answer, or one character of REQUEST_END or RESPONSE_END.  The device    *)
(* answers a command with the command itself (the echo), the text of the   *)
(* answer and RESPONSE_END, as the simulators of the tests do.             *)
(***************************************************************************)
EXTENDS Delimiters, FiniteSets

CONSTANTS
  Controllers,  \* what a controller and its device agree on: its public members, and an answer
  Quiet,        \* may a caller send, with readResponse off, what has no answer?
  Breaks,       \* may the connection break?
  SendsEarly,   \* may a caller send before connect()?
  MaxCalls      \* bound: calls of sendCommand

LF == <<"lf", 0>>
SUB == <<"sub", 0>>  \* 0x1a
Kind == {"lf", "sub", "command", "quiet", "text"}
Char == Kind \X (0 .. MaxCalls)
Ask(k) == <<"command", k>>
AskQuietly(k) == <<"quiet", k>>

\* The answer of the device of c to call k, and all that it sends for the line of the call.
Text(c, k) == [i \in DOMAIN c.body |-> IF c.body[i] = "lf" THEN LF ELSE <<"text", k>>]
Reply(c, line, k) ==
  (IF c.readCommand THEN line \o c.REQUEST_END ELSE <<>>) \o (Text(c, k) \o c.RESPONSE_END)

\* Does a reply hold RESPONSE_END at its end and nowhere before?  It does for both controllers
\* of the library; with the default delimiters the echo ends with RESPONSE_END as well.
EndsOnce(c) ==
  \A k \in 0 .. MaxCalls :
    Ends(Reply(c, <<Ask(k)>>, k), c.RESPONSE_END) = {Len(Reply(c, <<Ask(k)>>, k))}

\* The text of an answer is one up to RESPONSE_END.
ASSUME ControllerAssumption ==
  /\ \A c \in Controllers :
       /\ {c.REQUEST_END, c.RESPONSE_END} \subseteq Seq({LF, SUB}) \ {<<>>}
       /\ c.body \in Seq({"lf", "text"})
       /\ c.readCommand \in BOOLEAN
       /\ \A k \in 0 .. MaxCalls :
            Ends(Text(c, k) \o c.RESPONSE_END, c.RESPONSE_END) = {Len(Text(c, k) \o c.RESPONSE_END)}
  /\ {Quiet, Breaks, SendsEarly} \subseteq BOOLEAN
  /\ MaxCalls \in Nat

VARIABLES
  (* the controller *)
  self,          \* one of Controllers
  pc,            \* what sendCommand is about to do
  calls,         \* number of sendCommand calls so far
  returnsText,   \* is the call sendCommand(const std::string&)?
  readResponse,
  deviceInput,
  ostreamBuffer,
  istreamBuffer,
  istreamGood,   \* neither eofbit nor failbit of `istream'
  deviceOutput,  \* what is still to be read of it
  input,         \* local: the text sent
  output,        \* local: the answer
  results,       \* results[k]: the text that call k asked for and returned, or that it threw
  log,           \* the records written to the log
  (* the connection and the device *)
  link,          \* "none" before connect(), "up", "down" for good once it broke
  toDevice,
  toHost,
  answered       \* the lines the device took, in order

buffers == <<deviceInput, ostreamBuffer, istreamBuffer, istreamGood, deviceOutput>>
locals == <<self, calls, returnsText, readResponse, input, output>>
network == <<link, toDevice, toHost, answered>>
vars == <<pc, locals, buffers, results, log, network>>

REQUEST_END == self.REQUEST_END
RESPONSE_END == self.RESPONSE_END
readCommand == self.readCommand  \* does the device echo, and the controller expect the echo?

\* The answer to call k; call 0 stands for a line that is no command.
Body(k) == Text(self, k)

Threw == [how |-> "threw", asked |-> FALSE, text |-> <<>>]
Returned(asked, text) == [how |-> "returned", asked |-> asked, text |-> text]

Init ==
  /\ self \in Controllers
  /\ pc = "idle"
  /\ calls = 0
  /\ returnsText = FALSE
  /\ readResponse = TRUE
  /\ deviceInput = <<>>
  /\ ostreamBuffer = <<>>
  /\ istreamBuffer = <<>>
  /\ istreamGood = TRUE
  /\ deviceOutput = <<>>
  /\ input = <<>>
  /\ output = <<>>
  /\ results = <<>>
  /\ log = <<>>
  /\ link = "none"
  /\ toDevice = <<>>
  /\ toHost = <<>>
  /\ answered = <<>>

Goto(from, to) == pc = from /\ pc' = to

-----------------------------------------------------------------------------
(* getLine: see GetLine for its loop. *)

\* getLine(istream, line, delim) with an empty line: with no delimiter the line is
\* all that is left and eofbit stays; a stream that is not good gives nothing.
Line(delim) ==
  IF ~istreamGood THEN <<>>
  ELSE IF Found(istreamBuffer, delim) THEN Before(istreamBuffer, delim)
  ELSE istreamBuffer
GetLine(delim) ==
  /\ istreamGood' = (istreamGood /\ Found(istreamBuffer, delim))
  /\ istreamBuffer' = IF ~istreamGood THEN istreamBuffer
                      ELSE IF Found(istreamBuffer, delim) THEN After(istreamBuffer, delim)
                      ELSE <<>>

-----------------------------------------------------------------------------
(* sendCommand *)

\* Both forms begin by putting the command and REQUEST_END into deviceInput, and
\* all of deviceInput into the output buffer.
Call(text, answers) ==
  /\ calls < MaxCalls
  /\ link # "none" \/ SendsEarly
  /\ Goto("idle", "write")
  /\ calls' = calls + 1
  /\ returnsText' = text
  /\ readResponse' = answers
  /\ deviceInput' = deviceInput \o
       <<IF answers THEN Ask(calls + 1) ELSE AskQuietly(calls + 1)>> \o REQUEST_END
  /\ input' = deviceInput'
  /\ ostreamBuffer' = ostreamBuffer \o input'
  /\ output' = <<>>
  /\ UNCHANGED <<self, istreamBuffer, istreamGood, deviceOutput, results, log, network>>

\* Mutant: the exception does not leave sendCommand.
ThrowSilently(from) ==
  /\ Goto(from, "idle")
  /\ results' = results

Throw(from) ==
  /\ Goto(from, "idle")
  /\ results' = Append(results, Threw)

\* Mutant: deviceInput is not emptied.
WriteKeepsInput ==
  /\ link # "none"
  /\ Goto("write", IF readResponse THEN "readUntil" ELSE "log")
  /\ toDevice' = IF link = "up" THEN toDevice \o ostreamBuffer ELSE toDevice
  /\ ostreamBuffer' = <<>>
  /\ UNCHANGED <<locals, deviceInput, istreamBuffer, istreamGood, deviceOutput, results, log,
                 link, toHost, answered>>

\* Bytes for a device that has gone are lost, which write() need not notice.
Write ==
  /\ link # "none"
  /\ Goto("write", IF readResponse THEN "readUntil" ELSE "log")
  /\ toDevice' = IF link = "up" THEN toDevice \o ostreamBuffer ELSE toDevice
  /\ ostreamBuffer' = <<>>
  /\ deviceInput' = <<>>
  /\ UNCHANGED <<locals, istreamBuffer, istreamGood, deviceOutput, results, log, link, toHost,
                 answered>>

\* ba::write throws: the part that was sent is consumed, deviceInput is kept.
WriteFails(sent) ==
  /\ link = "up" => Breaks
  /\ sent > 0 => link = "up"
  /\ Throw("write")
  /\ toDevice' = toDevice \o SubSeq(ostreamBuffer, 1, sent)
  /\ ostreamBuffer' = SubSeq(ostreamBuffer, sent + 1, Len(ostreamBuffer))
  /\ link' = IF link = "up" THEN "down" ELSE link
  /\ UNCHANGED <<locals, deviceInput, istreamBuffer, istreamGood, deviceOutput, log, toHost,
                 answered>>

\* read_until looks into the buffer first, then reads what has arrived.
ReadSome(n) ==
  /\ pc = "readUntil"
  /\ ~ Found(istreamBuffer, RESPONSE_END)
  /\ istreamBuffer' = istreamBuffer \o SubSeq(toHost, 1, n)
  /\ toHost' = SubSeq(toHost, n + 1, Len(toHost))
  /\ UNCHANGED <<pc, locals, deviceInput, ostreamBuffer, istreamGood, deviceOutput, results,
                 log, link, toDevice, answered>>

ReadUntil ==
  /\ Goto("readUntil", IF readCommand THEN "getCommand" ELSE "getOutput")
  /\ Found(istreamBuffer, RESPONSE_END)
  /\ UNCHANGED <<locals, buffers, results, log, network>>

\* Mutant: the end of the connection is taken for an empty read.
ReadRetries ==
  /\ ~ Found(istreamBuffer, RESPONSE_END)
  /\ link = "down"
  /\ toHost = <<>>
  /\ Goto("readUntil", "readUntil")
  /\ UNCHANGED <<locals, buffers, results, log, network>>

ReadFails ==
  /\ ~ Found(istreamBuffer, RESPONSE_END)
  /\ link = "down"
  /\ toHost = <<>>
  /\ Throw("readUntil")
  /\ UNCHANGED <<locals, buffers, log, network>>

\* Mutant: the echo is left in the stream.
GetNoCommand ==
  /\ Goto("getCommand", "getOutput")
  /\ UNCHANGED <<locals, buffers, results, log, network>>

\* The echo is dropped unseen.
GetCommand ==
  /\ Goto("getCommand", "getOutput")
  /\ GetLine(REQUEST_END)
  /\ UNCHANGED <<locals, deviceInput, ostreamBuffer, deviceOutput, results, log, network>>

GetOutput ==
  /\ Goto("getOutput", "log")
  /\ output' = Line(RESPONSE_END)
  /\ deviceOutput' = output'
  /\ GetLine(RESPONSE_END)
  /\ UNCHANGED <<self, calls, returnsText, readResponse, input, deviceInput, ostreamBuffer, results,
                 log, network>>

\* Mutant: the text is copied out of deviceOutput.
CopiesOutput(taken) ==
  /\ returnsText => taken = 0
  /\ deviceOutput' = SubSeq(deviceOutput, taken + 1, Len(deviceOutput))

\* sendCommand(const std::string&) takes all of deviceOutput; a call for a value of another
\* type takes some of it, or all (also by an error, after which nothing can be read of it).
TakesOutput(taken) ==
  /\ returnsText => taken = Len(deviceOutput)
  /\ deviceOutput' = SubSeq(deviceOutput, taken + 1, Len(deviceOutput))

\* Mutant: the record is made of deviceInput, which is empty by now.
FinishWithDeviceInput(taken) ==
  /\ Goto("log", "idle")
  /\ log' = Append(log, [input |-> deviceInput, output |-> output])
  /\ results' = Append(results, Returned(returnsText /\ readResponse,
                                         IF returnsText THEN deviceOutput ELSE <<>>))
  /\ TakesOutput(taken)
  /\ UNCHANGED <<locals, deviceInput, ostreamBuffer, istreamBuffer, istreamGood, network>>

\* The record is written, and the result is taken from deviceOutput.
Finish(taken) ==
  /\ Goto("log", "idle")
  /\ log' = Append(log, [input |-> input, output |-> output])
  /\ results' = Append(results, Returned(returnsText /\ readResponse,
                                         IF returnsText THEN deviceOutput ELSE <<>>))
  /\ TakesOutput(taken)
  /\ UNCHANGED <<locals, deviceInput, ostreamBuffer, istreamBuffer, istreamGood, network>>

-----------------------------------------------------------------------------
(* The connection and the device *)

\* A stream is connected once: neither a serial port that is open nor a socket
\* that was connected can be connected again, and a controller has no close().
Connect ==
  /\ pc = "idle"
  /\ link = "none"
  /\ link' = "up"
  /\ UNCHANGED <<pc, locals, buffers, results, log, toDevice, toHost, answered>>

Answer(line) ==
  IF Len(line) = 1 /\ line[1][1] = "quiet" THEN <<>>
  ELSE Reply(self, line, IF Len(line) = 1 THEN line[1][2] ELSE 0)

DeviceAnswers ==
  /\ link = "up"
  /\ Found(toDevice, REQUEST_END)
  /\ answered' = Append(answered, Before(toDevice, REQUEST_END))
  /\ toDevice' = After(toDevice, REQUEST_END)
  /\ toHost' = toHost \o Answer(Before(toDevice, REQUEST_END))
  /\ UNCHANGED <<pc, locals, buffers, results, log, link>>

\* The connection breaks and what is still on its way may be lost.
Break(kept) ==
  /\ Breaks
  /\ link = "up"
  /\ link' = "down"
  /\ toHost' = SubSeq(toHost, 1, kept)
  /\ UNCHANGED <<pc, locals, buffers, results, log, toDevice, answered>>

-----------------------------------------------------------------------------
Send == Write \/ (\E n \in 1 .. Len(toHost) : ReadSome(n)) \/ ReadUntil
        \/ GetCommand \/ GetOutput \/ (\E taken \in 0 .. Len(deviceOutput) : Finish(taken))
Fail == (\E sent \in 0 .. Len(ostreamBuffer) : WriteFails(sent)) \/ ReadFails

Next ==
  \/ \E text \in BOOLEAN, quiet \in {Quiet, FALSE} : Call(text, ~quiet)
  \/ Send \/ Fail
  \/ Connect
  \/ DeviceAnswers
  \/ \E kept \in 0 .. Len(toHost) : Break(kept)

Spec == Init /\ [][Next]_vars

\* The caller's thread runs and a device that is there answers; nobody has to
\* call, to connect or to break a connection.
FairSpec == Spec /\ WF_vars(Send) /\ WF_vars(Fail) /\ WF_vars(DeviceAnswers)

-----------------------------------------------------------------------------
\* Types of the controller's and the connection's state (controller.hpp:100-136).
TypeOK ==
  /\ self \in Controllers
  /\ pc \in {"idle", "write", "readUntil", "getCommand", "getOutput", "log"}
  /\ calls \in 0 .. MaxCalls
  /\ {returnsText, readResponse, istreamGood} \subseteq BOOLEAN
  /\ {deviceInput, ostreamBuffer, istreamBuffer, deviceOutput, input, output,
      toDevice, toHost} \subseteq Seq(Char)
  /\ results \in Seq([how : {"threw", "returned"}, asked : BOOLEAN, text : Seq(Char)])
  /\ log \in Seq([input : Seq(Char), output : Seq(Char)])
  /\ answered \in Seq(Seq(Char))
  /\ link \in {"none", "up", "down"}
  /\ Len(results) = IF pc = "idle" THEN calls ELSE calls - 1

\* The answer to call k, or the beginning of that answer if its echo ends like an answer.
IsAnswer(text, k) ==
  IF EndsOnce(self) THEN text = Body(k)
  ELSE \E n \in 0 .. Len(Body(k) \o RESPONSE_END) : text = SubSeq(Body(k) \o RESPONSE_END, 1, n)

\* A call that asked for an answer and returned a text got the whole answer to its
\* own command, in whatever segments it arrived ("A string with a whole response to
\* the command", controller.hpp:86-90).  If the echo ends with RESPONSE_END, as by
\* default, what had not come with the echo is cut off, but no call gets the answer to
\* another one.  A call with readResponse off may return what is left of an earlier answer.
OwnResponse ==
  \A k \in DOMAIN results :
    results[k].how = "returned" /\ results[k].asked => IsAnswer(results[k].text, k)

\* The device takes the commands in the order of the calls, each one once and
\* none garbled ("Send a command to the device", controller.hpp:86-88).
CommandsSentOnce ==
  \A i \in DOMAIN answered :
    /\ \E k \in 1 .. calls : answered[i] \in {<<Ask(k)>>, <<AskQuietly(k)>>}
    /\ \A j \in 1 .. i - 1 : answered[j][1][2] < answered[i][1][2]

Completed == {k \in DOMAIN results : results[k].how = "returned"}

\* What the log keeps of call k: its command and the answer to it.  In front of the command
\* are those of calls that threw, each once, in order and after the last call that returned.
Recorded(k, record) ==
  LET sent == record.input
      own == Len(sent) - Len(REQUEST_END)
  IN  /\ own > 0
      /\ \/ sent[own] = Ask(k) /\ IsAnswer(record.output, k)
         \/ sent[own] = AskQuietly(k) /\ record.output = <<>>
      /\ SubSeq(sent, own + 1, Len(sent)) = REQUEST_END
      /\ \A j \in 1 .. own - 1 : sent[j][1] \in {"command", "quiet"} =>
           /\ sent[j][2] \in 1 .. k - 1
           /\ \A i \in sent[j][2] .. k - 1 : results[i] = Threw
           /\ \A i \in 1 .. j - 1 : sent[i][1] \in {"command", "quiet"} => sent[i][2] < sent[j][2]

\* The log has one record for each call that returned, in order, with its command and its
\* answer.  The command of a call that threw has no record of its own and is in none but that
\* of the next call that returns, where it is at most once (controller.hpp:279-307).
LogMatches ==
  /\ Len(log) = Cardinality(Completed)
  /\ \A k \in Completed : Recorded(k, log[Cardinality({j \in Completed : j <= k})])

\* deviceOutput holds the end of an answer that no call has taken since: the calls after
\* it had readResponse off.
LeftOver ==
  \E k \in DOMAIN log :
    /\ \E n \in 0 .. Len(log[k].output) : deviceOutput = SubSeq(log[k].output, n + 1, Len(log[k].output))
    /\ \A j \in k .. Len(log) : results[j].text = <<>>
    /\ \A j \in k + 1 .. Len(log) : log[j].input = <<AskQuietly(j)>> \o REQUEST_END

\* Between two calls, until one throws, the buffers of controller.hpp:101-109, which outlive
\* every call, hold nothing of an earlier one but the answer that a call for no text left in
\* deviceOutput, for a call with readResponse off to return.  By default, once an answer came
\* later than its echo, `istream' is at its end for good and gives no call anything.
LeavesNothing ==
  pc = "idle" /\ Threw \notin {results[i] : i \in DOMAIN results} =>
    /\ deviceInput = <<>> /\ ostreamBuffer = <<>>
    /\ EndsOnce(self) => istreamGood
    /\ istreamGood => istreamBuffer = <<>>
    /\ deviceOutput = <<>> \/ LeftOver

\* sendCommand comes back, with an answer or by throwing (no timeout protects it:
\* the device has to answer or to go away, controller.hpp:293).
CallsReturn == pc # "idle" ~> pc = "idle"
=============================================================================
