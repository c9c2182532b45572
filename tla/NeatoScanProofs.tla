-------------------------- MODULE NeatoScanProofs --------------------------
(***************************************************************************)
(* Proofs about NeatoScan: for scans of any length, whole or cut off, and  *)
(* any distances and error codes, a scan that is returned has the rows of  *)
(* the answer; and for any calls before and after connect(), the modes are *)
(* remembered as they are when they are answered.                          *)
(***************************************************************************)
EXTENDS NeatoScan, TLAPS

Kinds == {"header", "row", "footer", "other", "empty"}
Lines == [kind : Kinds, values : Seq(Nat)]

\* Texts of robots and logs: only the last line begins like a footer, with at most
\* one number.
WellFormed(t) ==
  /\ t.lines \in Seq(Lines)
  /\ \A i \in 1 .. Len(t.lines) :
       t.lines[i].kind = "footer" => i = Len(t.lines) /\ Len(t.lines[i].values) <= 1

\* The number of lines that have been read.
Read == Len(text.lines) - Len(in)

\* Before, inside and after the loop.
First ==
  pc = "first" => good /\ in = text.lines
While ==
  pc = "while" =>
    /\ text.lines # <<>> /\ text.lines[1] = LDS_SCAN_HEADER
    /\ ~good => line.kind # "footer"
    /\ good =>
         /\ Read >= 1 /\ in = SubSeq(text.lines, Read + 1, Len(text.lines))
         /\ Len(data) = Read - 1
         /\ \A i \in 1 .. Len(data) : data[i] = Record(i - 1, text.lines[i + 1].values)

Records == {Record(id, values) : id \in Nat, values \in Seq(Nat)}
Locals ==
  /\ WellFormed(text)
  /\ in \in Seq(Lines)
  /\ line \in Lines
  /\ data \in Seq(Records)
  /\ pc \in {"idle", "first"} => data = <<>>

IInv == TypeOK /\ Locals /\ First /\ While /\ OneRecordPerRow

LEMMA LineTypes ==
  /\ Empty \in Lines /\ Other \in Lines /\ LDS_SCAN_HEADER \in Lines /\ LDS_SCAN_FOOTER \in Lines
  /\ Len(Empty.values) = 0 /\ Empty.kind # "footer" /\ LDS_SCAN_HEADER.kind # "footer"
  /\ Other.kind # "footer" /\ Len(LDS_SCAN_FOOTER.values) = 1
  /\ \A r \in Rows : r \in Lines /\ r.kind = "row"
<1>1. <<>> \in Seq(Nat) /\ <<5>> \in Seq(Nat)
  OBVIOUS
<1>2. ASSUME NEW r \in Rows PROVE r \in Lines /\ r.kind = "row"
  <2>1. PICK a \in 1 .. MaxRows, d \in Distances, e \in ErrorCodes : r = Row(a, d, e)
    BY <1>2 DEF Rows
  <2>2. <<a, d, 1, e>> \in Seq(Nat)
    BY NeatoScanAssumption
  <2>3. r = [kind |-> "row", values |-> <<a, d, 1, e>>]
    BY <2>1 DEF Row, Line
  <2> QED
    BY <2>2, <2>3 DEF Lines, Kinds
<1>3. Empty \in Lines /\ Other \in Lines /\ LDS_SCAN_HEADER \in Lines /\ LDS_SCAN_FOOTER \in Lines
  BY <1>1 DEF Empty, Other, LDS_SCAN_HEADER, LDS_SCAN_FOOTER, Line, Lines, Kinds
<1>4. /\ Len(Empty.values) = 0 /\ Empty.kind # "footer" /\ LDS_SCAN_HEADER.kind # "footer"
      /\ Other.kind # "footer" /\ Len(LDS_SCAN_FOOTER.values) = 1
  BY DEF Empty, Other, LDS_SCAN_HEADER, LDS_SCAN_FOOTER, Line
<1> QED
  BY <1>2, <1>3, <1>4

\* What the robot answers is well formed.
LEMMA AnswersWellFormed == ASSUME NEW t \in Answers PROVE WellFormed(t) /\ t.lines # <<>>
<1>1. CASE t = Text(<<Other>>, TRUE)
  BY <1>1, LineTypes DEF WellFormed, Text
<1>2. ASSUME NEW n \in 0 .. MaxRows, NEW rows \in [1 .. n -> Rows], t = Scan(rows)
      PROVE  WellFormed(t) /\ t.lines # <<>>
  <2> DEFINE l == <<LDS_SCAN_HEADER>> \o rows \o <<LDS_SCAN_FOOTER>>
  <2>1. rows \in Seq(Lines) /\ Len(rows) = n /\ n \in Nat
    BY LineTypes, NeatoScanAssumption
  <2>2. l \in Seq(Lines) /\ Len(l) = n + 2
    BY <2>1, LineTypes
  <2>3. /\ l[1] = LDS_SCAN_HEADER /\ l[n + 2] = LDS_SCAN_FOOTER
        /\ \A i \in 2 .. n + 1 : l[i] = rows[i - 1]
    BY <2>1, LineTypes
  <2>4. \A i \in 1 .. n : rows[i].kind = "row"
    BY <2>1, LineTypes
  <2> HIDE DEF l
  <2>5. \A i \in 1 .. n + 1 : l[i].kind # "footer"
    <3> SUFFICES ASSUME NEW i \in 1 .. n + 1 PROVE l[i].kind # "footer"
      OBVIOUS
    <3>1. CASE i = 1
      BY <3>1, <2>3, LineTypes
    <3>2. CASE i \in 2 .. n + 1
      BY <3>2, <2>1, <2>3, <2>4
    <3> QED
      BY <2>1, <3>1, <3>2
  <2>6. t.lines = l
    BY <1>2 DEF Scan, Text, l
  <2>7. ASSUME NEW i \in 1 .. Len(l), l[i].kind = "footer"
        PROVE  i = Len(l) /\ Len(l[i].values) <= 1
    <3>1. i = n + 2
      BY <2>1, <2>2, <2>5, <2>7
    <3> QED
      BY <3>1, <2>2, <2>3, LineTypes
  <2>8. l # <<>>
    BY <2>1, <2>2
  <2> QED
    BY <2>2, <2>6, <2>7, <2>8 DEF WellFormed
<1>3. CASE t \in UNION {{Scan(rows) : rows \in {r \in [1 .. n -> Rows] : \A i \in 1 .. n : r[i].values[1] = i}} :
                        n \in 0 .. MaxRows}
  <2>1. PICK n \in 0 .. MaxRows : \E rows \in [1 .. n -> Rows] : t = Scan(rows)
    BY <1>3
  <2> QED
    BY <2>1, <1>2
<1> QED
  BY <1>1, <1>3 DEF Answers

\* So is what is left of it in a log that was cut off.
LEMMA CutsWellFormed == ASSUME NEW t \in Answers, NEW c \in Cuts(t) PROVE WellFormed(c)
<1> DEFINE l == t.lines
<1>1. l \in Seq(Lines) /\ \A i \in 1 .. Len(l) : l[i].kind = "footer" => i = Len(l) /\ Len(l[i].values) <= 1
  BY AnswersWellFormed DEF WellFormed
<1> HIDE DEF l
<1>2. ASSUME NEW n \in 0 .. Len(l), c.lines = SubSeq(l, 1, n)
      PROVE  WellFormed(c)
  <2>1. n \in Nat /\ SubSeq(l, 1, n) \in Seq(Lines) /\ Len(SubSeq(l, 1, n)) = n
        /\ \A i \in 1 .. n : SubSeq(l, 1, n)[i] = l[i]
    BY <1>1
  <2> QED
    BY <1>1, <1>2, <2>1 DEF WellFormed
<1>3. ASSUME NEW n \in 1 .. Len(l), NEW part \in Parts(l[n]),
             c.lines = Append(SubSeq(l, 1, n - 1), part)
      PROVE  WellFormed(c)
  <2> DEFINE s == SubSeq(l, 1, n - 1)
  <2>1. n \in Nat /\ s \in Seq(Lines) /\ Len(s) = n - 1 /\ \A i \in 1 .. n - 1 : s[i] = l[i]
    BY <1>1
  <2>2. l[n] \in Lines
    BY <1>1
  <2>3. part \in Lines /\ (part.kind = "footer" => Len(part.values) <= 1)
    <3>1. CASE part = Other
      BY <3>1, LineTypes
    <3>2. CASE part = l[n] /\ l[n].kind = "header"
      BY <3>2, <2>2
    <3>3. ASSUME NEW m \in 0 .. Len(l[n].values), part = Line(l[n].kind, SubSeq(l[n].values, 1, m))
          PROVE  part \in Lines /\ (part.kind = "footer" => Len(part.values) <= 1)
      <4>1. l[n].values \in Seq(Nat) /\ l[n].kind \in Kinds
        BY <2>2 DEF Lines
      <4>2. SubSeq(l[n].values, 1, m) \in Seq(Nat) /\ Len(SubSeq(l[n].values, 1, m)) = m
        BY <4>1
      <4>3. l[n].kind = "footer" => m <= 1
        BY <1>1, <4>1
      <4> QED
        BY <3>3, <4>1, <4>2, <4>3 DEF Line, Lines
    <3> QED
      BY <3>1, <3>2, <3>3 DEF Parts
  <2> HIDE DEF s
  <2>4. /\ Append(s, part) \in Seq(Lines) /\ Len(Append(s, part)) = n
        /\ Append(s, part)[n] = part
        /\ \A i \in 1 .. n - 1 : Append(s, part)[i] = l[i]
    BY <2>1, <2>3
  <2>5. c.lines = Append(s, part)
    BY <1>3 DEF s
  <2> QED
    BY <1>1, <2>1, <2>3, <2>4, <2>5 DEF WellFormed
<1> QED
  <2>1. CASE c \in {Text(SubSeq(l, 1, n), TRUE) : n \in 0 .. Len(l)}
    BY <2>1, <1>2 DEF Text
  <2>2. CASE c \in UNION {{Text(Append(SubSeq(l, 1, n - 1), part), FALSE) : part \in Parts(l[n])} :
                          n \in 1 .. Len(l)}
    <3>1. PICK n \in 1 .. Len(l) : \E part \in Parts(l[n]) :
             c = Text(Append(SubSeq(l, 1, n - 1), part), FALSE)
      BY <2>2
    <3>2. PICK part \in Parts(l[n]) : c = Text(Append(SubSeq(l, 1, n - 1), part), FALSE)
      BY <3>1
    <3>3. c.lines = Append(SubSeq(l, 1, n - 1), part)
      BY <3>2 DEF Text
    <3> QED
      BY <3>3, <1>3
  <2> QED
    BY <2>1, <2>2 DEF Cuts, l

LEMMA NoTextWellFormed == WellFormed(NoText) /\ NoText.lines = <<>>
  BY DEF NoText, Text, WellFormed

-----------------------------------------------------------------------------
(* The modes *)

ModeStep ==
  \/ \E flag \in Flag, value \in BOOLEAN : Set(flag, value)
  \/ SendOther \/ Answered \/ Unanswered \/ Environment

\* Before a call came too early, what is on its way is the command that is waited for.
InTime ==
  /\ deviceInput = <<>> /\ ostreamBuffer = <<>>
  /\ \A i \in DOMAIN toRobot : toRobot[i].flag \in unanswered \cup {"none"}
  /\ asked = Nothing /\ link = "up" => toRobot = <<>> /\ replies = 0
  /\ asked # Nothing =>
       \/ toRobot = <<asked>> /\ replies = 0
       \/ /\ toRobot = <<>> /\ replies <= 1
          /\ replies = 1 /\ asked.flag \in Flag => robot[asked.flag] = asked.value

\* A command that is kept, or waited for, is one of a flag without an answer.
Kept ==
  /\ \A i \in DOMAIN deviceInput : deviceInput[i].flag \in unanswered \cup {"none"}
  /\ \A i \in DOMAIN ostreamBuffer : ostreamBuffer[i].flag \in unanswered \cup {"none"}
  /\ link = "none" => toRobot = <<>> /\ asked = Nothing /\ replies = 0 /\ unanswered = Flag
  /\ asked # Nothing =>
       /\ deviceInput = <<>> /\ ostreamBuffer = <<>>
       /\ asked.flag \in unanswered \cup {"none"}
       /\ link = "up" /\ asked.flag \in Flag => Becomes(asked.flag, asked.value)

MInv == ModesTypeOK /\ Kept /\ (~early => InTime) /\ FlagsAgree

LEMMA ModesTypeInit == ModesInit => ModesTypeOK
<1> SUFFICES ASSUME ModesInit PROVE ModesTypeOK
  OBVIOUS
<1>1. flags \in [Flag -> BOOLEAN] /\ robot \in [Flag -> BOOLEAN]
  BY DEF ModesInit
<1>2. deviceInput = <<>> /\ ostreamBuffer = <<>> /\ toRobot = <<>> /\ <<>> \in Seq(Commands)
  BY DEF ModesInit
<1>3. asked = Nothing /\ calls \in 0 .. MaxCalls /\ early = FALSE /\ unanswered = Flag
      /\ link = "none" /\ replies = 0
  BY NeatoModesAssumption DEF ModesInit
<1> QED
  BY <1>1, <1>2, <1>3 DEF ModesTypeOK

LEMMA CommandTypes ==
  /\ Plain \in Commands /\ Nothing \notin Commands
  /\ \A f \in Flag, b \in BOOLEAN : Command(f, b) \in Commands /\ Command(f, b).flag = f
                                    /\ Command(f, b).value = b
  /\ Plain.flag = "none"
  /\ \A c \in Commands : c.flag \in Flag \cup {"none"} /\ c.value \in BOOLEAN
  BY DEF Plain, Nothing, Commands, Command, Flag

LEMMA SendTypes ==
  ASSUME ModesTypeOK, NEW c \in Commands, SendCommand(c), flags' \in [Flag -> BOOLEAN]
  PROVE  ModesTypeOK'
<1> USE DEF ModesTypeOK, SendCommand
<1>1. {deviceInput', ostreamBuffer', toRobot'} \subseteq Seq(Commands) /\ asked' \in Commands \cup {Nothing}
  <2>1. CASE Transmit(c)
    BY <2>1 DEF Transmit
  <2>2. CASE Keep(c)
    BY <2>2 DEF Keep
  <2>3. CASE UNCHANGED <<buffers, toRobot, asked>>
    BY <2>3 DEF buffers
  <2> QED
    BY <2>1, <2>2, <2>3
<1> QED
  BY <1>1, NeatoModesAssumption

LEMMA ModesTypeNext == ModesTypeOK /\ ModeStep => ModesTypeOK'
<1> SUFFICES ASSUME ModesTypeOK, ModeStep PROVE ModesTypeOK'
  OBVIOUS
<1>1. ASSUME NEW f \in Flag, NEW b \in BOOLEAN, Set(f, b) PROVE ModesTypeOK'
  BY <1>1, SendTypes, CommandTypes DEF Set, ModesTypeOK
<1>2. CASE SendOther
  BY <1>2, SendTypes, CommandTypes DEF SendOther, ModesTypeOK
<1>3. CASE Answered
  BY <1>3, CommandTypes DEF Answered, ModesTypeOK, buffers
<1>4. CASE Unanswered
  BY <1>4 DEF Unanswered, ModesTypeOK, buffers
<1>5. CASE Connect
  BY <1>5 DEF Connect, ModesTypeOK, buffers
<1>6. CASE RobotTakes
  <2>1. Head(toRobot) \in Commands /\ Tail(toRobot) \in Seq(Commands)
    BY <1>6 DEF RobotTakes, ModesTypeOK
  <2>2. Head(toRobot).value \in BOOLEAN
    BY <2>1, CommandTypes
  <2> QED
    BY <1>6, <2>1, <2>2 DEF RobotTakes, ModesTypeOK, buffers
<1>7. ASSUME NEW taken \in 0 .. Len(toRobot), NEW heard \in 0 .. replies, Break(taken, heard)
      PROVE  ModesTypeOK'
  BY <1>7 DEF Break, ModesTypeOK, buffers
<1> QED
  BY <1>1, <1>2, <1>3, <1>4, <1>5, <1>6, <1>7 DEF ModeStep, Environment

LEMMA ModesKept ==
  ASSUME UNCHANGED modes
  PROVE  (ModesTypeOK => ModesTypeOK') /\ (MInv => MInv')
  BY DEF modes, buffers, ModesTypeOK, MInv, Kept, InTime, FlagsAgree, Becomes, OnTheWay

LEMMA MInvInit == ModesInit => MInv
<1> SUFFICES ASSUME ModesInit PROVE MInv
  OBVIOUS
<1>1. /\ deviceInput = <<>> /\ ostreamBuffer = <<>> /\ toRobot = <<>> /\ asked = Nothing
      /\ replies = 0 /\ link = "none" /\ unanswered = Flag
  BY DEF ModesInit
<1>2. Kept /\ InTime /\ FlagsAgree
  BY <1>1 DEF Kept, InTime, FlagsAgree
<1> QED
  BY <1>2, ModesTypeInit DEF MInv

\* What is behind it does not concern f.
LEMMA BehindKeeps ==
  ASSUME NEW more \in Seq(Commands), toRobot \in Seq(Commands), toRobot' = toRobot \o more,
         robot' = robot, NEW f, NEW b, Becomes(f, b), \A i \in DOMAIN more : more[i].flag # f
  PROVE  Becomes(f, b)'
<1>1. /\ Len(toRobot') = Len(toRobot) + Len(more) /\ Len(toRobot) \in Nat /\ Len(more) \in Nat
      /\ DOMAIN toRobot' = 1 .. Len(toRobot') /\ DOMAIN toRobot = 1 .. Len(toRobot)
      /\ DOMAIN more = 1 .. Len(more)
      /\ \A i \in 1 .. Len(toRobot) : toRobot'[i] = toRobot[i]
      /\ \A i \in Len(toRobot) + 1 .. Len(toRobot') : toRobot'[i] = more[i - Len(toRobot)]
  OBVIOUS
<1>2. OnTheWay(f)' = OnTheWay(f)
  <2>1. ASSUME NEW i \in OnTheWay(f)' PROVE i \in OnTheWay(f)
    <3>1. i \in 1 .. Len(toRobot') /\ toRobot'[i].flag = f
      BY <1>1, <2>1 DEF OnTheWay
    <3>2. CASE i > Len(toRobot)
      <4>1. i - Len(toRobot) \in DOMAIN more /\ toRobot'[i] = more[i - Len(toRobot)]
        BY <1>1, <3>1, <3>2
      <4> QED
        BY <3>1, <4>1
    <3> QED
      BY <1>1, <3>1, <3>2 DEF OnTheWay
  <2>2. ASSUME NEW i \in OnTheWay(f) PROVE i \in OnTheWay(f)'
    BY <1>1, <2>2 DEF OnTheWay
  <2> QED
    BY <2>1, <2>2
<1>3. \A i \in OnTheWay(f) : toRobot'[i] = toRobot[i]
  BY <1>1 DEF OnTheWay
<1> QED
  BY <1>2, <1>3 DEF Becomes

\* The robot takes the first command.
LEMMA TakingKeeps ==
  ASSUME toRobot \in Seq(Commands), robot \in [Flag -> BOOLEAN], RobotTakes,
         NEW f \in Flag, NEW b, Becomes(f, b)
  PROVE  Becomes(f, b)'
<1> DEFINE n == Len(toRobot)
<1>1. /\ n \in Nat /\ n >= 1 /\ Len(toRobot') = n - 1 /\ DOMAIN toRobot = 1 .. n
      /\ DOMAIN toRobot' = 1 .. n - 1
      /\ \A i \in 1 .. n - 1 : toRobot'[i] = toRobot[i + 1]
      /\ Head(toRobot) = toRobot[1]
  BY DEF RobotTakes
<1>2. robot'[f] = IF toRobot[1].flag = f THEN toRobot[1].value ELSE robot[f]
  BY <1>1 DEF RobotTakes
<1>3. \A i \in 1 .. n - 1 : i \in OnTheWay(f)' <=> i + 1 \in OnTheWay(f)
  BY <1>1 DEF OnTheWay
<1>4. OnTheWay(f) \subseteq 1 .. n /\ OnTheWay(f)' \subseteq 1 .. n - 1
  BY <1>1 DEF OnTheWay
<1>5. 1 \in OnTheWay(f) <=> toRobot[1].flag = f
  BY <1>1 DEF OnTheWay
<1> HIDE DEF n
<1>6. CASE OnTheWay(f) = {}
  <2>1. OnTheWay(f)' = {}
    BY <1>1, <1>3, <1>4, <1>6
  <2> QED
    BY <1>2, <1>5, <1>6, <2>1 DEF Becomes
<1>7. ASSUME NEW i \in OnTheWay(f), toRobot[i].value = b, \A j \in OnTheWay(f) : j <= i
      PROVE  Becomes(f, b)'
  <2>1. CASE i = 1
    <3>1. OnTheWay(f)' = {}
      BY <1>1, <1>3, <1>4, <1>7, <2>1
    <3> QED
      BY <1>2, <1>5, <1>7, <2>1, <3>1 DEF Becomes
  <2>2. CASE i # 1
    <3>1. i - 1 \in 1 .. n - 1 /\ i - 1 + 1 = i
      BY <1>1, <1>4, <2>2
    <3>2. i - 1 \in OnTheWay(f)' /\ toRobot'[i - 1].value = b
      BY <1>1, <1>3, <1>7, <3>1
    <3>3. ASSUME NEW j \in OnTheWay(f)' PROVE j <= i - 1
      <4>1. j + 1 \in OnTheWay(f) /\ j \in 1 .. n - 1
        BY <1>3, <1>4, <3>3
      <4> QED
        BY <1>1, <1>4, <1>7, <4>1
    <3> QED
      BY <3>2, <3>3 DEF Becomes
  <2> QED
    BY <2>1, <2>2
<1> QED
  BY <1>6, <1>7 DEF Becomes

LEMMA LastOf ==
  ASSUME NEW S, NEW head \in Seq(S), NEW tail \in Seq(S), Len(tail) > 0
  PROVE  /\ head \o tail \in Seq(S) /\ Len(head \o tail) = Len(head) + Len(tail)
         /\ (head \o tail)[Len(head) + Len(tail)] = tail[Len(tail)]
<1>1. Len(head) \in Nat /\ Len(tail) \in Nat
  OBVIOUS
<1>2. /\ Len(head) + Len(tail) \in 1 .. Len(head) + Len(tail)
      /\ Len(head) + Len(tail) > Len(head)
      /\ Len(head) + Len(tail) - Len(head) = Len(tail)
  BY <1>1
<1> QED
  BY <1>1, <1>2

LEMMA SendMInv == ASSUME NEW c \in Commands, MInv, SendCommand(c), flags' = flags PROVE MInv'
<1>t. ModesTypeOK /\ ModesTypeOK'
  BY SendTypes DEF MInv, ModesTypeOK
<1>c. c.flag \in Flag \cup {"none"} /\ c # Nothing
  BY CommandTypes
<1>0. asked = Nothing /\ UNCHANGED <<link, replies, robot>> /\ unanswered \subseteq unanswered'
      /\ early' = (early \/ link = "none")
  BY DEF SendCommand
<1>1. CASE Transmit(c)
  <2> DEFINE more == ostreamBuffer \o Append(deviceInput, c)
  <2>1. /\ link = "up" /\ toRobot' = toRobot \o more /\ asked' = c
        /\ deviceInput' = <<>> /\ ostreamBuffer' = <<>>
        /\ unanswered' = unanswered \cup ({c.flag} \cap Flag) /\ early' = early
    BY <1>1, <1>0, <1>t DEF Transmit, SendCommand, ModesTypeOK
  <2>2. /\ more \in Seq(Commands) /\ Len(more) = Len(ostreamBuffer) + Len(deviceInput) + 1
        /\ Len(ostreamBuffer) \in Nat /\ Len(deviceInput) \in Nat
        /\ DOMAIN more = 1 .. Len(more) /\ DOMAIN ostreamBuffer = 1 .. Len(ostreamBuffer)
        /\ DOMAIN deviceInput = 1 .. Len(deviceInput)
        /\ more[Len(more)] = c
        /\ \A i \in 1 .. Len(ostreamBuffer) : more[i] = ostreamBuffer[i]
        /\ \A i \in Len(ostreamBuffer) + 1 .. Len(more) - 1 : more[i] = deviceInput[i - Len(ostreamBuffer)]
    BY <1>t DEF ModesTypeOK
  <2> HIDE DEF more
  <2>3. \A i \in DOMAIN more : more[i].flag \in unanswered' \cup {"none"}
    <3> SUFFICES ASSUME NEW i \in 1 .. Len(more) PROVE more[i].flag \in unanswered' \cup {"none"}
      BY <2>2
    <3>1. CASE i \in 1 .. Len(ostreamBuffer)
      BY <3>1, <2>1, <2>2 DEF MInv, Kept
    <3>2. CASE i \in Len(ostreamBuffer) + 1 .. Len(more) - 1
      <4>1. i - Len(ostreamBuffer) \in DOMAIN deviceInput
        BY <3>2, <2>2
      <4> QED
        BY <3>2, <4>1, <2>1, <2>2 DEF MInv, Kept
    <3>3. CASE i = Len(more)
      BY <3>3, <2>1, <2>2, <1>c
    <3>4. Len(more) \in Nat /\ Len(ostreamBuffer) \in Nat
      BY <2>2
    <3> QED
      BY <3>1, <3>2, <3>3, <3>4
  <2>4. ASSUME NEW f \in Flag \ unanswered' PROVE Becomes(f, flags[f])'
    <3>1. f \notin unanswered /\ f # "none" /\ Becomes(f, flags[f])
      BY <1>0, <2>1, <2>4 DEF MInv, FlagsAgree, Flag
    <3>2. \A i \in DOMAIN more : more[i].flag # f
      BY <2>3, <2>4, <3>1
    <3> DEFINE b == flags[f]
    <3>3. Becomes(f, b) /\ b' = b
      BY <3>1
    <3> HIDE DEF b
    <3>4. toRobot \in Seq(Commands)
      BY <1>t DEF ModesTypeOK
    <3>5. Becomes(f, b)'
      <4>1. \A x : (Becomes(f, x) => Becomes(f, x)')
        BY <2>1, <2>2, <1>0, <3>2, <3>4, BehindKeeps
      <4> QED
        BY <4>1, <3>3
    <3> QED
      BY <3>5 DEF b
  <2>5. c.flag \in Flag => Becomes(c.flag, c.value)'
    <3>0. toRobot \in Seq(Commands) /\ more \in Seq(Commands) /\ Len(more) > 0
      BY <2>2, <1>t DEF ModesTypeOK
    <3>1. /\ Len(toRobot') = Len(toRobot) + Len(more) /\ Len(toRobot) \in Nat /\ Len(more) \in Nat
          /\ DOMAIN toRobot' = 1 .. Len(toRobot') /\ toRobot'[Len(toRobot')] = c
      <4>1. /\ toRobot \o more \in Seq(Commands) /\ Len(toRobot \o more) = Len(toRobot) + Len(more)
            /\ (toRobot \o more)[Len(toRobot) + Len(more)] = more[Len(more)]
        BY <3>0, LastOf
      <4>2. Len(toRobot') = Len(toRobot) + Len(more) /\ toRobot'[Len(toRobot')] = c
        BY <2>1, <2>2, <4>1
      <4>3. DOMAIN toRobot' = 1 .. Len(toRobot')
        BY <2>1, <4>1
      <4> QED
        BY <3>0, <2>2, <4>2, <4>3
    <3>2. Len(toRobot') \in 1 .. Len(toRobot')
      BY <3>0, <3>1
    <3>3. Len(toRobot') \in OnTheWay(c.flag)' /\ \A j \in OnTheWay(c.flag)' : j <= Len(toRobot')
      BY <3>1, <3>2 DEF OnTheWay
    <3> QED
      BY <3>1, <3>3 DEF Becomes
  <2>6. Kept'
    BY <1>0, <1>c, <2>1, <2>5 DEF Kept
  <2>7. ~early' => InTime'
    <3> SUFFICES ASSUME ~early PROVE InTime'
      BY <2>1
    <3>1. toRobot = <<>> /\ replies = 0 /\ deviceInput = <<>> /\ ostreamBuffer = <<>>
      BY <1>0, <2>1 DEF MInv, InTime
    <3>2. toRobot' = <<c>>
      BY <3>1, <1>1 DEF Transmit
    <3> QED
      BY <3>1, <3>2, <1>0, <1>c, <2>1 DEF InTime
  <2>8. FlagsAgree'
    BY <1>0, <2>1, <2>4 DEF MInv, FlagsAgree
  <2> QED
    BY <1>t, <2>6, <2>7, <2>8 DEF MInv
<1>2. CASE Keep(c)
  <2>1. /\ link = "none" /\ early' /\ deviceInput' = Append(deviceInput, c)
        /\ ostreamBuffer' = ostreamBuffer \o deviceInput' /\ UNCHANGED <<toRobot, asked>>
        /\ unanswered' = unanswered \cup ({c.flag} \cap Flag)
    BY <1>2, <1>0 DEF Keep, SendCommand
  <2>2. \A i \in DOMAIN deviceInput' : deviceInput'[i].flag \in unanswered' \cup {"none"}
    <3>1. /\ Len(deviceInput') = Len(deviceInput) + 1 /\ Len(deviceInput) \in Nat
          /\ DOMAIN deviceInput' = 1 .. Len(deviceInput') /\ DOMAIN deviceInput = 1 .. Len(deviceInput)
          /\ deviceInput'[Len(deviceInput')] = c
          /\ \A i \in 1 .. Len(deviceInput) : deviceInput'[i] = deviceInput[i]
      BY <2>1, <1>t DEF ModesTypeOK
    <3> SUFFICES ASSUME NEW i \in 1 .. Len(deviceInput')
                 PROVE  deviceInput'[i].flag \in unanswered' \cup {"none"}
      BY <3>1
    <3>2. CASE i \in 1 .. Len(deviceInput)
      BY <3>1, <3>2, <2>1 DEF MInv, Kept
    <3>3. CASE i = Len(deviceInput')
      BY <3>1, <3>3, <2>1, <1>c
    <3> QED
      BY <3>1, <3>2, <3>3
  <2>3. \A i \in DOMAIN ostreamBuffer' : ostreamBuffer'[i].flag \in unanswered' \cup {"none"}
    <3> DEFINE d == deviceInput'  o == ostreamBuffer
    <3>1. d \in Seq(Commands) /\ o \in Seq(Commands) /\ ostreamBuffer' = o \o d
      BY <1>t, <2>1 DEF ModesTypeOK
    <3>2. \A i \in DOMAIN o : o[i].flag \in unanswered' \cup {"none"}
      BY <2>1 DEF MInv, Kept
    <3>3. \A i \in DOMAIN d : d[i].flag \in unanswered' \cup {"none"}
      BY <2>2
    <3> HIDE DEF d, o
    <3>4. /\ Len(o) \in Nat /\ Len(d) \in Nat /\ DOMAIN (o \o d) = 1 .. Len(o) + Len(d)
          /\ DOMAIN o = 1 .. Len(o) /\ DOMAIN d = 1 .. Len(d)
          /\ \A i \in 1 .. Len(o) : (o \o d)[i] = o[i]
          /\ \A i \in Len(o) + 1 .. Len(o) + Len(d) : (o \o d)[i] = d[i - Len(o)]
      BY <3>1
    <3>5. ASSUME NEW i \in 1 .. Len(o) + Len(d) PROVE (o \o d)[i].flag \in unanswered' \cup {"none"}
      <4>1. CASE i \in 1 .. Len(o)
        BY <4>1, <3>2, <3>4
      <4>2. CASE i \in Len(o) + 1 .. Len(o) + Len(d)
        <5>1. i - Len(o) \in DOMAIN d
          BY <4>2, <3>4
        <5> QED
          BY <4>2, <5>1, <3>3, <3>4
      <4> QED
        BY <3>4, <4>1, <4>2
    <3> QED
      BY <3>1, <3>4, <3>5
  <2>4. Kept'
    BY <1>0, <2>1, <2>2, <2>3 DEF MInv, Kept
  <2>5. FlagsAgree'
    BY <1>0, <2>1 DEF FlagsAgree
  <2> QED
    BY <1>t, <2>1, <2>4, <2>5 DEF MInv
<1>3. CASE link = "down" /\ UNCHANGED <<buffers, toRobot, asked>>
  <2>1. UNCHANGED <<deviceInput, ostreamBuffer, toRobot, asked, unanswered, early>>
    BY <1>0, <1>3, <1>t DEF buffers, SendCommand, ModesTypeOK
  <2>2. Kept' /\ (~early' => InTime') /\ FlagsAgree'
    BY <1>0, <1>3, <2>1 DEF MInv, Kept, InTime, FlagsAgree
  <2> QED
    BY <1>t, <2>2 DEF MInv
<1> QED
  BY <1>1, <1>2, <1>3 DEF SendCommand

LEMMA AnsweredMInv == MInv /\ Answered => MInv'
<1> SUFFICES ASSUME MInv, Answered PROVE MInv'
  OBVIOUS
<1>t. ModesTypeOK /\ ModesTypeOK'
  BY ModesTypeNext DEF MInv, ModeStep
<1>1. /\ asked # Nothing /\ replies > 0 /\ replies' = replies - 1 /\ asked' = Nothing
      /\ UNCHANGED <<deviceInput, ostreamBuffer, early, link, toRobot, robot>>
      /\ unanswered' = unanswered \ {asked.flag}
      /\ \A f \in Flag : flags'[f] = IF f = asked.flag THEN asked.value ELSE flags[f]
  BY <1>t DEF Answered, buffers, ModesTypeOK
<1>2. deviceInput = <<>> /\ ostreamBuffer = <<>> /\ link # "none"
  BY <1>1 DEF MInv, Kept
<1>3. Kept'
  BY <1>1, <1>2 DEF Kept
<1>4. ASSUME ~early
      PROVE  toRobot = <<>> /\ replies = 1 /\ (asked.flag \in Flag => robot[asked.flag] = asked.value)
  BY <1>1, <1>4, <1>t DEF MInv, InTime, ModesTypeOK
<1>5. ~early' => InTime'
  BY <1>1, <1>2, <1>4 DEF InTime
<1>6. ASSUME NEW f \in Flag \ unanswered'
      PROVE  /\ ~early => flags'[f] = robot[f]
             /\ link = "up" => Becomes(f, flags'[f])
  <2>1. CASE f = asked.flag
    BY <1>1, <1>4, <2>1 DEF MInv, Kept
  <2>2. CASE f # asked.flag
    BY <1>1, <1>6, <2>2 DEF MInv, FlagsAgree
  <2> QED
    BY <2>1, <2>2
<1>7. FlagsAgree'
  <2>1. \A f, b : Becomes(f, b)' <=> Becomes(f, b)
    BY <1>1 DEF Becomes, OnTheWay
  <2> QED
    BY <1>1, <1>6, <2>1 DEF FlagsAgree
<1> QED
  BY <1>t, <1>3, <1>5, <1>7 DEF MInv

LEMMA RobotTakesMInv == MInv /\ RobotTakes => MInv'
<1> SUFFICES ASSUME MInv, RobotTakes PROVE MInv'
  OBVIOUS
<1>t. ModesTypeOK /\ ModesTypeOK'
  BY ModesTypeNext DEF MInv, ModeStep, Environment
<1>1. /\ toRobot # <<>> /\ toRobot' = Tail(toRobot)
      /\ robot' = [f \in Flag |-> IF f = Head(toRobot).flag THEN Head(toRobot).value ELSE robot[f]]
      /\ replies' = IF link = "up" THEN replies + 1 ELSE replies
      /\ UNCHANGED <<flags, deviceInput, ostreamBuffer, asked, early, unanswered, link>>
  BY DEF RobotTakes, buffers
<1>2. /\ toRobot \in Seq(Commands) /\ robot \in [Flag -> BOOLEAN] /\ replies \in Nat
      /\ asked \in Commands \cup {Nothing}
  BY <1>t DEF ModesTypeOK
<1>3. \A f \in Flag : \A b : Becomes(f, b) => Becomes(f, b)'
  BY <1>2, TakingKeeps
<1>4. Kept'
  <2>1. asked # Nothing /\ link = "up" /\ asked.flag \in Flag => Becomes(asked.flag, asked.value)'
    <3> DEFINE f == asked.flag  b == asked.value
    <3> SUFFICES ASSUME asked # Nothing, link = "up", f \in Flag PROVE Becomes(f, b)'
      OBVIOUS
    <3>1. Becomes(f, b) /\ f' = f /\ b' = b
      BY <1>1 DEF MInv, Kept
    <3> HIDE DEF f, b
    <3>2. \A x, y : x \in Flag => (Becomes(x, y) => Becomes(x, y)')
      BY <1>3
    <3> QED
      BY <3>1, <3>2 DEF Becomes, OnTheWay
  <2> QED
    BY <1>1, <2>1 DEF MInv, Kept
<1>5. ASSUME ~early PROVE InTime' /\ \A f \in Flag \ unanswered : robot'[f] = robot[f]
  <2>1. InTime
    BY <1>5 DEF MInv
  <2>2. /\ Head(toRobot) = toRobot[1] /\ 1 \in DOMAIN toRobot
        /\ DOMAIN Tail(toRobot) = 1 .. Len(toRobot) - 1 /\ Len(toRobot) \in Nat
        /\ DOMAIN toRobot = 1 .. Len(toRobot)
        /\ \A i \in 1 .. Len(toRobot) - 1 : Tail(toRobot)[i] = toRobot[i + 1]
    BY <1>1, <1>2
  <2>3. \A f \in Flag \ unanswered : robot'[f] = robot[f]
    <3>1. Head(toRobot).flag \in unanswered \cup {"none"}
      BY <2>1, <2>2 DEF InTime
    <3> QED
      BY <1>1, <3>1 DEF Flag
  <2>4. \A i \in DOMAIN toRobot' : toRobot'[i].flag \in unanswered \cup {"none"}
    <3> SUFFICES ASSUME NEW i \in 1 .. Len(toRobot) - 1
                 PROVE  toRobot'[i].flag \in unanswered \cup {"none"}
      BY <1>1, <2>2
    <3>1. i + 1 \in DOMAIN toRobot /\ toRobot'[i] = toRobot[i + 1]
      BY <1>1, <2>2
    <3> QED
      BY <2>1, <3>1 DEF InTime
  <2>5. CASE asked = Nothing
    <3>1. link # "up"
      BY <1>1, <2>1, <2>5 DEF InTime
    <3>2. /\ deviceInput' = <<>> /\ ostreamBuffer' = <<>> /\ unanswered' = unanswered
          /\ asked' = Nothing /\ link' # "up"
      BY <1>1, <2>1, <2>5, <3>1 DEF InTime
    <3>3. InTime'
      BY <2>4, <3>2 DEF InTime
    <3> QED
      BY <2>3, <3>3
  <2>6. CASE asked # Nothing
    <3>1. toRobot = <<asked>> /\ replies = 0
      BY <1>1, <2>1, <2>6 DEF InTime
    <3>2. toRobot' = <<>> /\ Head(toRobot) = asked
      BY <1>1, <3>1
    <3>3. asked.flag \in Flag => robot'[asked.flag] = asked.value
      BY <1>1, <3>2
    <3> QED
      BY <1>1, <1>2, <2>1, <2>3, <2>4, <2>6, <3>1, <3>2, <3>3 DEF InTime
  <2> QED
    BY <2>3, <2>5, <2>6
<1>6. FlagsAgree'
  BY <1>1, <1>3, <1>5 DEF MInv, FlagsAgree
<1> QED
  BY <1>t, <1>1, <1>4, <1>5, <1>6 DEF MInv

LEMMA BreakMInv ==
  ASSUME MInv, NEW taken \in 0 .. Len(toRobot), NEW heard \in 0 .. replies, Break(taken, heard)
  PROVE  MInv'
<1>t. ModesTypeOK /\ ModesTypeOK'
  BY ModesTypeNext DEF MInv, ModeStep, Environment
<1>1. /\ link = "up" /\ link' = "down" /\ toRobot' = SubSeq(toRobot, 1, taken) /\ replies' = heard
      /\ UNCHANGED <<flags, deviceInput, ostreamBuffer, asked, early, unanswered, robot>>
  BY DEF Break, buffers
<1>2. /\ toRobot \in Seq(Commands) /\ Len(toRobot) \in Nat /\ DOMAIN toRobot = 1 .. Len(toRobot)
      /\ DOMAIN toRobot' = 1 .. taken /\ \A i \in 1 .. taken : toRobot'[i] = toRobot[i]
      /\ replies \in Nat /\ heard \in Nat /\ heard <= replies /\ taken \in Nat /\ taken <= Len(toRobot)
  BY <1>1, <1>t DEF ModesTypeOK
<1>3. Kept' /\ FlagsAgree'
  BY <1>1 DEF MInv, Kept, FlagsAgree
<1>4. ASSUME ~early PROVE InTime'
  <2>1. InTime
    BY <1>4 DEF MInv
  <2>2. \A i \in DOMAIN toRobot' : toRobot'[i].flag \in unanswered \cup {"none"}
    BY <1>2, <2>1 DEF InTime
  <2>3. CASE asked = Nothing
    BY <1>1, <2>1, <2>2, <2>3 DEF InTime
  <2>4. CASE asked # Nothing /\ toRobot = <<asked>> /\ replies = 0
    <3>1. heard = 0 /\ taken \in {0, 1}
      BY <1>2, <2>4
    <3>2. toRobot' = <<>> \/ toRobot' = <<asked>>
      <4>1. CASE taken = 0
        BY <1>1, <1>2, <4>1
      <4>2. CASE taken = 1
        <5>1. toRobot' \in Seq(Commands) /\ Len(toRobot') = 1 /\ toRobot'[1] = asked
          BY <1>1, <1>2, <2>4, <4>2
        <5> QED
          BY <5>1
      <4> QED
        BY <3>1, <4>1, <4>2
    <3> QED
      BY <1>1, <2>1, <2>2, <2>4, <3>1, <3>2 DEF InTime
  <2>5. CASE asked # Nothing /\ toRobot = <<>>
    <3>1. toRobot' = <<>> /\ (heard = 1 => replies = 1) /\ heard <= 1
      BY <1>1, <1>2, <2>1, <2>5 DEF InTime
    <3> QED
      BY <1>1, <2>1, <2>2, <2>5, <3>1 DEF InTime
  <2> QED
    BY <2>1, <2>3, <2>4, <2>5 DEF InTime
<1> QED
  BY <1>t, <1>1, <1>3, <1>4 DEF MInv

LEMMA MInvNext == MInv /\ ModeStep => MInv'
<1> SUFFICES ASSUME MInv, ModeStep PROVE MInv'
  OBVIOUS
<1>1. ASSUME NEW f \in Flag, NEW b \in BOOLEAN, Set(f, b) PROVE MInv'
  BY <1>1, SendMInv, CommandTypes DEF Set
<1>2. CASE SendOther
  BY <1>2, SendMInv, CommandTypes DEF SendOther
<1>3. CASE Unanswered \/ Connect
  <2>t. ModesTypeOK'
    BY ModesTypeNext DEF MInv
  <2>1. \A f, b : Becomes(f, b)' <=> Becomes(f, b)
    BY <1>3 DEF Unanswered, Connect, Becomes, OnTheWay
  <2>2. CASE Unanswered
    <3>1. Kept' /\ (~early' => InTime') /\ FlagsAgree'
      BY <2>1, <2>2 DEF MInv, Unanswered, Kept, InTime, FlagsAgree, buffers
    <3> QED
      BY <2>t, <3>1 DEF MInv
  <2>3. CASE Connect
    <3>1. toRobot = <<>> /\ replies = 0 /\ asked = Nothing /\ unanswered = Flag
      BY <2>3 DEF MInv, Kept, Connect
    <3>2. Kept' /\ (~early' => InTime')
      BY <2>3, <3>1 DEF MInv, Connect, Kept, InTime, buffers
    <3>3. FlagsAgree'
      BY <2>3, <3>1 DEF Connect, FlagsAgree
    <3> QED
      BY <2>t, <3>2, <3>3 DEF MInv
  <2> QED
    BY <1>3, <2>2, <2>3
<1> QED
  BY <1>1, <1>2, <1>3, AnsweredMInv, RobotTakesMInv, BreakMInv DEF ModeStep, Environment

-----------------------------------------------------------------------------
(* The scans *)

LEMMA InitIInv == Init => IInv
<1> SUFFICES ASSUME Init PROVE IInv
  OBVIOUS
<1> USE DEF Init
<1>1. TypeOK
  BY ModesTypeInit DEF TypeOK
<1>2. Locals
  BY NoTextWellFormed, LineTypes DEF Locals
<1>3. First /\ While /\ OneRecordPerRow
  BY DEF First, While, OneRecordPerRow
<1> QED
  BY <1>1, <1>2, <1>3 DEF IInv

LEMMA ModeStepIInv == IInv /\ ModeStep /\ UNCHANGED <<pc, call, lastScanId>> => IInv'
<1> SUFFICES ASSUME IInv, ModeStep, UNCHANGED <<pc, call, lastScanId>> PROVE IInv'
  OBVIOUS
<1>1. UNCHANGED <<pc, text, in, good, line, lastId, data, lastScanId>>
  BY DEF call
<1>2. Locals' /\ First' /\ While' /\ OneRecordPerRow'
  BY <1>1 DEF IInv, Locals, First, While, OneRecordPerRow, Read
<1>3. TypeOK'
  BY <1>1, ModesTypeNext DEF IInv, TypeOK
<1> QED
  BY <1>2, <1>3 DEF IInv

LEMMA GetScanIInv == IInv /\ GetScan => IInv'
<1> SUFFICES ASSUME IInv, GetScan PROVE IInv'
  OBVIOUS
<1>1. /\ pc = "idle" /\ pc' = "first" /\ in' = text'.lines /\ good' = TRUE
      /\ UNCHANGED <<line, lastId, data, lastScanId>>
  BY DEF GetScan
<1>m. ModesTypeOK'
  <2>1. Answered \/ UNCHANGED modes
    BY DEF GetScan
  <2> QED
    BY <2>1, ModesTypeNext, ModesKept DEF IInv, TypeOK, ModeStep
<1>2. WellFormed(text')
  <2>1. text' \in Answers \cup UNION {Cuts(a) : a \in Answers}
    BY DEF GetScan
  <2>2. CASE text' \in Answers
    BY <2>2, AnswersWellFormed
  <2>3. CASE text' \in UNION {Cuts(a) : a \in Answers}
    <3>1. PICK a \in Answers : text' \in Cuts(a)
      BY <2>3
    <3> QED
      BY <3>1, CutsWellFormed
  <2> QED
    BY <2>1, <2>2, <2>3
<1>3. Locals'
  BY <1>1, <1>2 DEF IInv, Locals, WellFormed
<1>4. TypeOK' /\ First' /\ While' /\ OneRecordPerRow'
  BY <1>1, <1>m DEF IInv, TypeOK, First, While, OneRecordPerRow
<1> QED
  BY <1>3, <1>4 DEF IInv

\* The line and the stream after std::getline.
LEMMA GetlineFacts ==
  ASSUME IInv, Getline
  PROVE  /\ line' \in Lines /\ in' \in Seq(Lines) /\ good' \in BOOLEAN
         /\ ~good => line' = line /\ in' = in /\ ~good'
         /\ good /\ in = <<>> => line' = Empty /\ ~good'
         /\ good /\ in # <<>> => line' = in[1] /\ in' = Tail(in) /\ Len(in') = Len(in) - 1
<1>1. in \in Seq(Lines) /\ line \in Lines /\ good \in BOOLEAN
  BY DEF IInv, Locals, TypeOK
<1>2. CASE ~good
  BY <1>1, <1>2 DEF Getline, NextLine
<1>3. CASE good /\ in = <<>>
  BY <1>1, <1>3, LineTypes DEF Getline, NextLine
<1>4. CASE good /\ in # <<>>
  <2>1. in[1] \in Lines /\ Tail(in) \in Seq(Lines) /\ Len(Tail(in)) = Len(in) - 1 /\ Head(in) = in[1]
    BY <1>1, <1>4
  <2>2. line' = Head(in) /\ in' = Tail(in)
    BY <1>4 DEF Getline, NextLine
  <2>3. good' \in BOOLEAN
    BY DEF Getline
  <2> QED
    BY <2>1, <2>2, <2>3, <1>4
<1> QED
  BY <1>1, <1>2, <1>3, <1>4

LEMMA ReadFirstLineIInv == IInv /\ ReadFirstLine => IInv'
<1> SUFFICES ASSUME IInv, ReadFirstLine PROVE IInv'
  OBVIOUS
<1>1. /\ pc = "first" /\ Getline /\ pc' = IF line' = LDS_SCAN_HEADER THEN "while" ELSE "end"
      /\ UNCHANGED <<modes, text, lastId, data, lastScanId>>
  BY DEF ReadFirstLine
<1>2. good /\ in = text.lines /\ data = <<>> /\ Len(data) = 0 /\ text.lines \in Seq(Lines)
  BY <1>1 DEF IInv, First, Locals, WellFormed
<1>3. Locals' /\ TypeOK' /\ First'
  BY <1>1, ModesKept, GetlineFacts DEF IInv, Locals, TypeOK, First
<1>4. CASE in = <<>>
  <2>1. pc' = "end" /\ text'.lines = <<>> /\ data' = <<>>
    BY <1>1, <1>2, <1>4, GetlineFacts DEF Empty, LDS_SCAN_HEADER, Line
  <2> QED
    BY <2>1, <1>3 DEF IInv, While, OneRecordPerRow
<1>5. CASE in # <<>>
  <2>1. line' = text.lines[1] /\ in' = Tail(text.lines) /\ text.lines # <<>>
    BY <1>1, <1>2, <1>5, GetlineFacts
  <2>2. CASE line' = LDS_SCAN_HEADER
    <3>1. pc' = "while" /\ Read' = 1 /\ in' = SubSeq(text.lines, 2, Len(text.lines))
      BY <1>1, <1>2, <2>1, <2>2 DEF Read
    <3>2. While'
      BY <3>1, <1>1, <1>2, <2>1, <2>2, LineTypes DEF While
    <3> QED
      BY <3>1, <3>2, <1>3 DEF IInv, OneRecordPerRow
  <2>3. CASE line' # LDS_SCAN_HEADER
    BY <1>1, <1>2, <1>3, <2>1, <2>3 DEF IInv, While, OneRecordPerRow
  <2> QED
    BY <2>2, <2>3
<1> QED
  BY <1>4, <1>5

\* Inside the loop, on a stream that is good and not at its end, the line read is the
\* next one of the text.
LEMMA NextLineFacts ==
  ASSUME IInv, Getline, pc = "while", good, in # <<>>, UNCHANGED text
  PROVE  /\ Read \in Nat /\ Read >= 1 /\ Read + 1 <= Len(text.lines) /\ Len(text.lines) \in Nat
         /\ line' = text.lines[Read + 1] /\ Read' = Read + 1
         /\ in' = SubSeq(text.lines, Read + 2, Len(text.lines))
<1>1. text.lines \in Seq(Lines) /\ in \in Seq(Lines)
  BY DEF IInv, Locals, WellFormed
<1>2. Read >= 1 /\ in = SubSeq(text.lines, Read + 1, Len(text.lines)) /\ Read \in Int
  <2>1. Read \in Int
    BY <1>1 DEF Read
  <2> QED
    BY <2>1 DEF IInv, While
<1>3. Len(in) \in Nat /\ Len(in) > 0 /\ Len(in') = Len(in) - 1 /\ in' = Tail(in) /\ line' = in[1]
  BY <1>1, GetlineFacts
<1>4. Read + 1 <= Len(text.lines) /\ Read' = Read + 1
  BY <1>1, <1>2, <1>3 DEF Read
<1> DEFINE k == Read
           l == text.lines
<1>5. k \in Nat /\ k >= 1 /\ k + 1 <= Len(l) /\ l \in Seq(Lines) /\ in = SubSeq(l, k + 1, Len(l))
  BY <1>1, <1>2, <1>4
<1> HIDE DEF k, l
<1>6. in[1] = l[k + 1] /\ Tail(in) = SubSeq(l, k + 2, Len(l))
  BY <1>5
<1> QED
  BY <1>3, <1>4, <1>5, <1>6 DEF k, l

LEMMA ReadRowIInv == IInv /\ ReadRow => IInv'
<1> SUFFICES ASSUME IInv, ReadRow PROVE IInv'
  OBVIOUS
<1>1. /\ pc = "while" /\ pc' = "while" /\ Getline /\ Len(line'.values) = 4
      /\ lastId' = lastId + 1 /\ data' = Append(data, Record(lastId, line'.values))
      /\ UNCHANGED <<modes, text, lastScanId>>
  BY DEF ReadRow
<1>2. lastId = Len(data) /\ lastId \in Nat /\ data \in Seq(Records)
  BY DEF IInv, TypeOK, Locals
<1>3. line'.values \in Seq(Nat)
  BY <1>1, GetlineFacts DEF Lines
<1>4. /\ data' \in Seq(Records) /\ Len(data') = lastId + 1
      /\ data'[lastId + 1] = Record(lastId, line'.values)
      /\ \A i \in 1 .. lastId : data'[i] = data[i]
  <2>1. Record(lastId, line'.values) \in Records
    BY <1>2, <1>3 DEF Records
  <2> QED
    BY <1>1, <1>2, <2>1
<1>5. Locals' /\ TypeOK' /\ First' /\ OneRecordPerRow'
  BY <1>1, <1>2, <1>4, ModesKept, GetlineFacts DEF IInv, Locals, TypeOK, First, OneRecordPerRow
<1>6. text.lines # <<>> /\ text.lines[1] = LDS_SCAN_HEADER /\ (~good => line.kind # "footer")
  BY <1>1 DEF IInv, While
<1>7. CASE ~good
  BY <1>1, <1>6, <1>7, <1>5, GetlineFacts DEF IInv, While
<1>8. CASE good /\ in = <<>>
  <2>1. line' = Empty
    BY <1>1, <1>8, GetlineFacts
  <2>2. Len(line'.values) = 0 /\ Len(line'.values) = 4
    BY <1>1, <2>1, LineTypes
  <2>3. FALSE
    BY <2>2
  <2> QED
    BY <2>3
<1>9. CASE good /\ in # <<>>
  <2>1. /\ Read \in Nat /\ Read >= 1 /\ Read + 1 <= Len(text.lines) /\ Len(text.lines) \in Nat
        /\ line' = text.lines[Read + 1] /\ Read' = Read + 1
        /\ in' = SubSeq(text.lines, Read + 2, Len(text.lines))
    BY <1>1, <1>9, NextLineFacts
  <2>2. lastId = Read - 1 /\ \A i \in 1 .. lastId : data[i] = Record(i - 1, text.lines[i + 1].values)
    BY <1>1, <1>2, <1>9 DEF IInv, While
  <2>3. line'.kind # "footer"
    <3>1. text.lines[Read + 1].kind = "footer" => Len(text.lines[Read + 1].values) <= 1
      BY <2>1 DEF IInv, Locals, WellFormed
    <3>2. Len(line'.values) = 4 /\ line' = text.lines[Read + 1]
      BY <1>1, <2>1
    <3>3. line'.kind = "footer" => Len(line'.values) <= 1
      BY <3>1, <3>2, Zenon
    <3>4. ~(4 <= 1)
      OBVIOUS
    <3> QED
      BY <3>2, <3>3, <3>4, Zenon
  <2>4. \A i \in 1 .. Len(data') : data'[i] = Record(i - 1, text.lines[i + 1].values)
    <3>1. Len(data') = lastId + 1 /\ lastId \in Nat /\ lastId = Read - 1
      BY <1>2, <1>4, <2>2
    <3>2. data'[lastId + 1] = Record(lastId, text.lines[lastId + 2].values)
      BY <1>4, <2>1, <3>1
    <3>3. \A i \in 1 .. lastId : data'[i] = Record(i - 1, text.lines[i + 1].values)
      BY <1>4, <2>2
    <3>4. ASSUME NEW i \in 1 .. Len(data'), i = lastId + 1
          PROVE  data'[i] = Record(i - 1, text.lines[i + 1].values)
      <4>1. i - 1 = lastId /\ i + 1 = lastId + 2
        BY <3>1, <3>4
      <4> QED
        BY <3>2, <3>4, <4>1
    <3>5. ASSUME NEW i \in 1 .. Len(data') PROVE i = lastId + 1 \/ i \in 1 .. lastId
      BY <3>1
    <3> QED
      BY <3>3, <3>4, <3>5
  <2>5. text' = text /\ Read' >= 1 /\ Read' + 1 = Read + 2 /\ Len(data') = Read' - 1
    BY <1>1, <1>4, <2>1, <2>2
  <2>6. in' = SubSeq(text'.lines, Read' + 1, Len(text'.lines))
    BY <2>1, <2>5
  <2>7. While'
    BY <1>6, <2>3, <2>4, <2>5, <2>6, Zenon DEF While
  <2> QED
    BY <1>5, <2>7 DEF IInv
<1> QED
  BY <1>7, <1>8, <1>9

LEMMA ReadFooterIInv == IInv /\ ReadFooter => IInv'
<1> SUFFICES ASSUME IInv, ReadFooter PROVE IInv'
  OBVIOUS
<1>1. /\ pc = "while" /\ pc' = "end" /\ Getline /\ line'.kind = "footer"
      /\ UNCHANGED <<modes, text, lastId, data, lastScanId>>
  BY DEF ReadFooter
<1>2. Locals' /\ TypeOK' /\ First' /\ While'
  BY <1>1, ModesKept, GetlineFacts DEF IInv, Locals, TypeOK, First, While
<1>3. text.lines # <<>> /\ text.lines[1] = LDS_SCAN_HEADER /\ (~good => line.kind # "footer")
  BY <1>1 DEF IInv, While
<1>4. good /\ in # <<>>
  BY <1>1, <1>3, GetlineFacts, LineTypes DEF IInv, TypeOK
<1>5. /\ Read \in Nat /\ Read >= 1 /\ Read + 1 <= Len(text.lines) /\ Len(text.lines) \in Nat
      /\ line' = text.lines[Read + 1]
  BY <1>1, <1>4, NextLineFacts
<1>6. Read + 1 = Len(text.lines)
  BY <1>1, <1>5 DEF IInv, Locals, WellFormed
<1>7. /\ Len(data) = Len(text.lines) - 2
      /\ \A i \in 1 .. Len(data) : data[i] = Record(i - 1, text.lines[i + 1].values)
  <2>1. Len(data) = Read - 1
    BY <1>1, <1>4 DEF IInv, While
  <2>2. \A i \in 1 .. Len(data) : data[i] = Record(i - 1, text.lines[i + 1].values)
    BY <1>1, <1>4 DEF IInv, While
  <2> QED
    BY <2>1, <2>2, <1>5, <1>6
<1>8. data = [i \in 1 .. Len(text.lines) - 2 |-> Record(i - 1, text.lines[i + 1].values)]
  <2>1. data \in Seq(Records)
    BY DEF IInv, Locals
  <2> QED
    BY <1>7, <2>1
<1>9. OneRecordPerRow'
  BY <1>1, <1>3, <1>8 DEF OneRecordPerRow
<1> QED
  BY <1>2, <1>9 DEF IInv

LEMMA ReadFailsIInv == IInv /\ ReadFails => IInv'
<1> SUFFICES ASSUME IInv, ReadFails PROVE IInv'
  OBVIOUS
<1>1. /\ pc' = "idle" /\ text' = NoText /\ in' = <<>> /\ good' = TRUE /\ line' = Empty
      /\ lastId' = 0 /\ data' = <<>> /\ UNCHANGED <<modes, lastScanId>>
  BY DEF ReadFails, Forget
<1>2. Locals'
  BY <1>1, NoTextWellFormed, LineTypes DEF Locals, WellFormed
<1>3. TypeOK' /\ First' /\ While' /\ OneRecordPerRow'
  BY <1>1, ModesKept DEF IInv, TypeOK, First, While, OneRecordPerRow
<1> QED
  BY <1>2, <1>3 DEF IInv

LEMMA ReturnIInv == IInv /\ Return => IInv'
<1> SUFFICES ASSUME IInv, Return PROVE IInv'
  OBVIOUS
<1>1. /\ pc' = "idle" /\ text' = NoText /\ in' = <<>> /\ good' = TRUE /\ line' = Empty
      /\ lastId' = 0 /\ data' = <<>> /\ UNCHANGED modes
      /\ lastScanId' = IF data = <<>> THEN lastScanId ELSE lastScanId + 1
  BY DEF Return, Forget
<1>2. Locals'
  BY <1>1, NoTextWellFormed, LineTypes DEF Locals, WellFormed
<1>3. TypeOK' /\ First' /\ While' /\ OneRecordPerRow'
  BY <1>1, ModesKept DEF IInv, TypeOK, First, While, OneRecordPerRow
<1> QED
  BY <1>2, <1>3 DEF IInv

\* A step of the modes or of getScan.
LEMMA Steps ==
  ASSUME [Next]_vars
  PROVE  \/ ModeStep /\ UNCHANGED <<pc, call, lastScanId>>
         \/ GetScan \/ Parse \/ UNCHANGED vars
  BY DEF Next, Switch, ModeStep

LEMMA Inductive == Spec => []IInv
<1>1. IInv /\ [Next]_vars => IInv'
  <2> SUFFICES ASSUME IInv, [Next]_vars PROVE IInv'
    OBVIOUS
  <2>1. CASE ModeStep /\ UNCHANGED <<pc, call, lastScanId>>
    BY <2>1, ModeStepIInv
  <2>2. CASE GetScan \/ Parse
    BY <2>2, GetScanIInv, ReadFirstLineIInv, ReadRowIInv, ReadFooterIInv, ReadFailsIInv, ReturnIInv
       DEF Parse
  <2>3. CASE UNCHANGED vars
    BY <2>3, ModesKept DEF vars, call, IInv, TypeOK, Locals, First, While, OneRecordPerRow, Read
  <2> QED
    BY <2>1, <2>2, <2>3, Steps
<1> QED
  BY <1>1, InitIInv, PTL DEF Spec

\* The members and the locals of a call keep their types, and as many rows have been
\* counted as there are records.
THEOREM TypeCorrect == Spec => []TypeOK
<1>1. IInv => TypeOK
  BY DEF IInv
<1> QED
  BY <1>1, Inductive, PTL

LEMMA ModesInductive == Spec => []MInv
<1>1. MInv /\ [Next]_vars => MInv'
  <2> SUFFICES ASSUME MInv, [Next]_vars PROVE MInv'
    OBVIOUS
  <2>1. CASE ModeStep
    BY <2>1, MInvNext
  <2>2. CASE UNCHANGED modes
    BY <2>2, ModesKept
  <2>3. ModeStep \/ UNCHANGED modes
    BY Steps DEF ModeStep, GetScan, Parse, ReadFirstLine, ReadRow, ReadFooter, ReadFails, Return, vars
  <2> QED
    BY <2>1, <2>2, <2>3
<1>2. Init => MInv
  BY MInvInit DEF Init
<1> QED
  BY <1>1, <1>2, PTL DEF Spec

\* getTestMode() and getLdsRotation() tell the mode of the robot when the last command
\* that could change it was answered, or, after calls before connect(), the mode that it
\* is going to be in (neatocontroller.hpp:197-209, controller.hpp:276-304).
THEOREM FlagsAreRight == Spec => []FlagsAgree
<1>1. MInv => FlagsAgree
  BY DEF MInv
<1> QED
  BY <1>1, ModesInductive, PTL

\* For scans of any length, whole or cut off, parseScanData returns the rows of the
\* answer, each once, in order and numbered from zero (neatocontroller.hpp:218-264).
THEOREM RecordsAreRows == Spec => []OneRecordPerRow
<1>1. IInv => OneRecordPerRow
  BY DEF IInv
<1> QED
  BY <1>1, Inductive, PTL
-----------------------------------------------------------------------------
(* How long a scan can take *)

\* What is left to be done of a call of getScan: the lines, the end of the stream and
\* what follows the loop.
StepsLeft ==
  (IF good THEN Len(in) + 1 ELSE 0)
  + CASE pc = "first" -> 3 [] pc = "while" -> 2 [] pc = "end" -> 1 [] pc = "idle" -> 0
EveryStepCounts ==
  [][pc # "idle" /\ ~BreaksOffInRow => pc' = "idle" \/ StepsLeft' < StepsLeft]_<<pc, call>>

\* At the end of the stream the line that stays is no row, but for a cut in a row.
LastLine == pc = "while" /\ ~good => BreaksOffInRow \/ Len(line.values) # 4

LEMMA LastLineNext == IInv /\ LastLine /\ [Next]_vars => LastLine'
<1> SUFFICES ASSUME IInv, LastLine, [Next]_vars, pc' = "while", ~good'
             PROVE  BreaksOffInRow' \/ Len(line'.values) # 4
  BY DEF LastLine
<1>1. CASE ReadFirstLine
  <2>1. line' = LDS_SCAN_HEADER
    BY <1>1 DEF ReadFirstLine
  <2> QED
    BY <2>1 DEF LDS_SCAN_HEADER, Line
<1>2. CASE ReadRow
  <2>1. pc = "while" /\ Getline /\ text' = text
    BY <1>2 DEF ReadRow
  <2>2. BreaksOffInRow' = BreaksOffInRow
    BY <2>1 DEF BreaksOffInRow
  <2>3. CASE ~good
    BY <2>1, <2>2, <2>3, GetlineFacts DEF LastLine
  <2>4. CASE good /\ in = <<>>
    BY <2>1, <2>4, GetlineFacts DEF Empty, Line
  <2>5. CASE good /\ in # <<>>
    <3>1. ~text.newline /\ Len(in) <= 1
      <4>1. Len(in) \in Nat
        BY DEF IInv, Locals
      <4>2. ~(Len(in) > 1 \/ text.newline)
        BY <2>1, <2>5, Zenon DEF Getline
      <4> QED
        BY <4>1, <4>2
    <3>2. Read + 1 = Len(text.lines) /\ line' = text.lines[Read + 1]
      <4>1. in \in Seq(Lines) /\ text.lines \in Seq(Lines)
        BY DEF IInv, Locals, WellFormed
      <4>2. Read + 1 <= Len(text.lines) /\ line' = text.lines[Read + 1]
        BY <2>1, <2>5, NextLineFacts
      <4> QED
        BY <3>1, <4>1, <4>2 DEF Read
    <3> QED
      BY <2>2, <3>1, <3>2 DEF BreaksOffInRow
  <2> QED
    BY <2>3, <2>4, <2>5
<1>3. CASE UNCHANGED <<pc, call>>
  BY <1>3 DEF call, LastLine, BreaksOffInRow
<1> QED
  BY <1>1, <1>2, <1>3, Steps DEF GetScan, Parse, ReadFooter, ReadFails, Return, vars

LEMMA GetlineCounts ==
  ASSUME IInv, Getline
  PROVE  /\ Len(in) \in Nat /\ Len(in') \in Nat
         /\ (IF good' THEN Len(in') + 1 ELSE 0) <= (IF good THEN Len(in) + 1 ELSE 0)
         /\ good => (IF good' THEN Len(in') + 1 ELSE 0) < Len(in) + 1
<1>1. Len(in) \in Nat /\ Len(in') \in Nat
  BY GetlineFacts DEF IInv, Locals
<1>2. CASE ~good
  BY <1>1, <1>2, GetlineFacts
<1>3. CASE good /\ in = <<>>
  BY <1>1, <1>3, GetlineFacts
<1>4. CASE good /\ in # <<>>
  <2>1. Len(in') = Len(in) - 1
    BY <1>4, GetlineFacts
  <2> QED
    BY <1>1, <1>4, <2>1
<1> QED
  BY <1>1, <1>2, <1>3, <1>4

\* parseScanData takes at most as many steps as its text has lines and four, on every
\* text but one that breaks off after the last number of a row: a row is taken from a
\* stream that goes on, and what std::getline leaves in the line at the end of the
\* stream is no row (neatocontroller.hpp:229-258).
THEOREM EndsInTime == Spec => EveryStepCounts
<1>1. Init => LastLine
  BY DEF Init, LastLine
<1>2. IInv /\ LastLine /\ [Next]_vars
      => [pc # "idle" /\ ~BreaksOffInRow => pc' = "idle" \/ StepsLeft' < StepsLeft]_<<pc, call>>
  <2> SUFFICES ASSUME IInv, LastLine, [Next]_vars, ~UNCHANGED <<pc, call>>, pc # "idle",
                      ~BreaksOffInRow, pc' # "idle"
               PROVE  StepsLeft' < StepsLeft
    OBVIOUS
  <2> DEFINE open == IF good THEN Len(in) + 1 ELSE 0
  <2>1. Len(in) \in Nat /\ open \in Nat
    BY DEF IInv, Locals
  <2>2. CASE ReadFirstLine
    <3>1. pc = "first" /\ pc' \in {"while", "end"} /\ open' <= open /\ open' \in Int
      BY <2>2, GetlineCounts DEF ReadFirstLine
    <3>2. StepsLeft = open + 3 /\ StepsLeft' \in {open' + 1, open' + 2}
      BY <3>1 DEF StepsLeft
    <3> QED
      BY <2>1, <3>1, <3>2
  <2>3. CASE ReadRow
    <3>1. pc = "while" /\ pc' = "while" /\ Getline /\ Len(line'.values) = 4
      BY <2>3 DEF ReadRow
    <3>2. good
      BY <3>1, GetlineFacts DEF LastLine
    <3>3. open' < open /\ open' \in Int
      BY <3>1, <3>2, GetlineCounts
    <3>4. StepsLeft = open + 2 /\ StepsLeft' = open' + 2
      BY <3>1 DEF StepsLeft
    <3> QED
      BY <2>1, <3>3, <3>4
  <2>4. CASE ReadFooter
    <3>1. pc = "while" /\ pc' = "end" /\ open' <= open /\ open' \in Int
      BY <2>4, GetlineCounts DEF ReadFooter
    <3>2. StepsLeft = open + 2 /\ StepsLeft' = open' + 1
      BY <3>1 DEF StepsLeft
    <3> QED
      BY <2>1, <3>1, <3>2
  <2> QED
    BY <2>2, <2>3, <2>4, Steps DEF GetScan, Parse, ReadFails, Return, vars
<1> QED
  BY <1>1, <1>2, LastLineNext, Inductive, PTL DEF Spec, EveryStepCounts
=============================================================================
