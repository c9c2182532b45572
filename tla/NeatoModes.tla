----------------------------- MODULE NeatoModes -----------------------------
(***************************************************************************)
(* The two modes that a NeatoController switches and remembers             *)
(* (include/regilo/neatocontroller.hpp:197-209), over the sendCommand of   *)
(* controller.hpp: a command that did not get out stays in the buffers and *)
(* goes out in front of a later one.  Controller has the characters; here  *)
(* a command is whole, and an answer only counts.                          *)
(***************************************************************************)
EXTENDS Integers, Sequences

CONSTANT MaxCalls  \* bound: calls of sendCommand

ASSUME NeatoModesAssumption == MaxCalls \in Nat

Flag == {"testMode", "ldsRotation"}
Command(flag, value) == [flag |-> flag, value |-> value]
Plain == Command("none", FALSE)      \* getldsscan, setmotor or gettime
Nothing == Command("nothing", FALSE)
Commands == [flag : Flag \cup {"none"}, value : BOOLEAN]

VARIABLES
  flags,          \* the members testMode and ldsRotation
  deviceInput, ostreamBuffer,
  asked,          \* the command that sendCommand waits for the answer of, or Nothing
  calls,          \* number of sendCommand calls so far
  early,          \* was any of them made before connect()?
  unanswered,     \* the flags never set, or whose last command that could go out has no answer
  link,           \* "none" before connect(), "up", "down" for good once it broke
  toRobot,        \* commands on their way
  replies,        \* answers on their way or in istreamBuffer
  robot           \* the modes the robot is in

buffers == <<deviceInput, ostreamBuffer>>
modes == <<flags, buffers, asked, calls, early, unanswered, link, toRobot, replies, robot>>

\* Nothing asks the robot for its modes: they may be left from before.
ModesInit ==
  /\ flags = [f \in Flag |-> FALSE]
  /\ deviceInput = <<>> /\ ostreamBuffer = <<>>
  /\ asked = Nothing
  /\ calls = 0
  /\ early = FALSE
  /\ unanswered = Flag
  /\ link = "none"
  /\ toRobot = <<>>
  /\ replies = 0
  /\ robot \in [Flag -> BOOLEAN]

-----------------------------------------------------------------------------
(* sendCommand up to its wait for an answer; on a broken connection it      *)
(* throws, and nothing that it leaves behind can go out any more.           *)

Transmit(command) ==
  /\ link = "up"
  /\ toRobot' = toRobot \o (ostreamBuffer \o Append(deviceInput, command))
  /\ deviceInput' = <<>> /\ ostreamBuffer' = <<>>
  /\ asked' = command

Keep(command) ==
  /\ link = "none"
  /\ deviceInput' = Append(deviceInput, command)
  /\ ostreamBuffer' = ostreamBuffer \o deviceInput'
  /\ UNCHANGED <<toRobot, asked>>

SendCommand(command) ==
  /\ asked = Nothing
  /\ calls < MaxCalls
  /\ calls' = calls + 1
  /\ \/ Transmit(command) \/ Keep(command)
     \/ link = "down" /\ UNCHANGED <<buffers, toRobot, asked>>
  /\ early' = (early \/ link = "none")
  /\ unanswered' = IF link = "down" THEN unanswered
                   ELSE unanswered \cup ({command.flag} \cap Flag)
  /\ UNCHANGED <<link, replies, robot>>

\* Mutant: the member is set first.
SetFirst(flag, value) ==
  /\ SendCommand(Command(flag, value))
  /\ flags' = [flags EXCEPT ![flag] = value]

Set(flag, value) == SendCommand(Command(flag, value)) /\ UNCHANGED flags

SendOther == SendCommand(Plain) /\ UNCHANGED flags

\* The next answer is taken, be it to this command or to one before it; the setters
\* go on to set their member.
Answered ==
  /\ asked # Nothing
  /\ replies > 0
  /\ replies' = replies - 1
  /\ asked' = Nothing
  /\ flags' = IF asked.flag \in Flag THEN [flags EXCEPT ![asked.flag] = asked.value] ELSE flags
  /\ unanswered' = unanswered \ {asked.flag}
  /\ UNCHANGED <<buffers, calls, early, link, toRobot, robot>>

Unanswered ==
  /\ asked # Nothing
  /\ link = "down" /\ replies = 0
  /\ asked' = Nothing
  /\ UNCHANGED <<flags, buffers, calls, early, unanswered, link, toRobot, replies, robot>>

-----------------------------------------------------------------------------
(* The connection and the robot *)

Connect ==
  /\ asked = Nothing
  /\ link = "none"
  /\ link' = "up"
  /\ UNCHANGED <<flags, buffers, asked, calls, early, unanswered, toRobot, replies, robot>>

\* The connection breaks, within a write or not; what is on its way may be lost.
Break(taken, heard) ==
  /\ link = "up"
  /\ link' = "down"
  /\ toRobot' = SubSeq(toRobot, 1, taken)
  /\ replies' = heard
  /\ UNCHANGED <<flags, buffers, asked, calls, early, unanswered, robot>>

RobotTakes ==
  /\ toRobot # <<>>
  /\ toRobot' = Tail(toRobot)
  /\ robot' = [f \in Flag |-> IF f = Head(toRobot).flag THEN Head(toRobot).value ELSE robot[f]]
  /\ replies' = IF link = "up" THEN replies + 1 ELSE replies
  /\ UNCHANGED <<flags, buffers, asked, calls, early, unanswered, link>>

Environment ==
  \/ Connect \/ RobotTakes
  \/ \E taken \in 0 .. Len(toRobot), heard \in 0 .. replies : Break(taken, heard)

-----------------------------------------------------------------------------
\* Types of the modes and of the commands (neatocontroller.hpp:92-93).
ModesTypeOK ==
  /\ {flags, robot} \subseteq [Flag -> BOOLEAN]
  /\ {deviceInput, ostreamBuffer, toRobot} \subseteq Seq(Commands)
  /\ asked \in Commands \cup {Nothing}
  /\ calls \in 0 .. MaxCalls
  /\ early \in BOOLEAN
  /\ unanswered \subseteq Flag
  /\ link \in {"none", "up", "down"}
  /\ replies \in Nat

\* The robot is in mode b, or the last command on its way that concerns f sets b.
OnTheWay(f) == {i \in DOMAIN toRobot : toRobot[i].flag = f}
Becomes(f, b) ==
  \/ OnTheWay(f) = {} /\ robot[f] = b
  \/ \E i \in OnTheWay(f) : toRobot[i].value = b /\ \A j \in OnTheWay(f) : j <= i

\* getTestMode() and getLdsRotation() tell the mode of the robot if the last command that
\* could change it was answered ("True if the Neato is in the test mode",
\* neatocontroller.hpp:46-68,197-209).  Commands sent before connect() go out with a later
\* one, and then a call returns with the answer to one of them: the robot gets into the
\* mode that is told when it has taken all that is on its way, if the connection holds.
FlagsAgree ==
  \A f \in Flag \ unanswered :
    /\ ~early => flags[f] = robot[f]
    /\ link = "up" => Becomes(f, flags[f])
=============================================================================
