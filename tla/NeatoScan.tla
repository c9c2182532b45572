------------------------------ MODULE NeatoScan ------------------------------
(***************************************************************************)
(* A NeatoController (include/regilo/neatocontroller.hpp, with the getScan *)
(* of scancontroller.hpp): the scans it parses from the robot or from a    *)
(* log, beside the modes of NeatoModes.                                    *)
(*                                                                         *)
(* A text is a sequence of lines, a line what it begins with and the       *)
(* numbers in it, and `newline' says whether the last line is ended.  A    *)
(* log that was cut off may end anywhere: between two lines, in a word, or *)
(* in a line, with the numbers before it.  (A number cut in two is taken   *)
(* for the number.)                                                        *)
(***************************************************************************)
EXTENDS NeatoModes

CONSTANTS
  Distances,
  ErrorCodes,  \* 0 stands for no error
  MaxRows,     \* bound: rows of a scan
  MaxScans     \* bound: scans with records

ASSUME NeatoScanAssumption ==
  /\ Distances \subseteq Nat
  /\ ErrorCodes \subseteq Nat
  /\ {MaxRows, MaxScans} \subseteq Nat

Line(kind, values) == [kind |-> kind, values |-> values]
LDS_SCAN_HEADER == Line("header", <<>>)
Row(angle, distance, errorCode) == Line("row", <<angle, distance, 1, errorCode>>)
LDS_SCAN_FOOTER == Line("footer", <<5>>)  \* with the rotation speed
Other == Line("other", <<>>)              \* a message, or a part of a word
Empty == Line("empty", <<>>)

Text(lines, newline) == [lines |-> lines, newline |-> newline]

\* What the robot answers: a scan, or a message about the command.
Rows == {Row(a, d, e) : a \in 1 .. MaxRows, d \in Distances, e \in ErrorCodes}
Scan(rows) == Text(<<LDS_SCAN_HEADER>> \o rows \o <<LDS_SCAN_FOOTER>>, TRUE)
Answers ==
  {Text(<<Other>>, TRUE)} \cup
  UNION {{Scan(rows) : rows \in {r \in [1 .. n -> Rows] : \A i \in 1 .. n : r[i].values[1] = i}} :
         n \in 0 .. MaxRows}

\* What is left of a text in a log that was cut off.
Parts(line) ==
  {Other} \cup
  (IF line.kind = "header" THEN {line}
   ELSE {Line(line.kind, SubSeq(line.values, 1, n)) : n \in 0 .. Len(line.values)})
Cuts(text) ==
  {Text(SubSeq(text.lines, 1, n), TRUE) : n \in 0 .. Len(text.lines)} \cup
  UNION {{Text(Append(SubSeq(text.lines, 1, n - 1), part), FALSE) : part \in Parts(text.lines[n])} :
         n \in 1 .. Len(text.lines)}

VARIABLES
  pc,          \* what getScan is about to do with its answer
  text,        \* the answer
  in,          \* the lines still to be read
  good,        \* the state of the stream they are in
  line, lastId, data,
  lastScanId

call == <<text, in, good, line, lastId, data>>
vars == <<modes, pc, call, lastScanId>>

NoText == Text(<<>>, TRUE)
Forget == text' = NoText /\ in' = <<>> /\ good' = TRUE /\ line' = Empty /\ lastId' = 0 /\ data' = <<>>

Init ==
  /\ ModesInit
  /\ pc = "idle"
  /\ text = NoText /\ in = <<>> /\ good = TRUE /\ line = Empty /\ lastId = 0 /\ data = <<>>
  /\ lastScanId = 0

-----------------------------------------------------------------------------
(* getScan *)

\* The text comes from a log, or, at its end, from nowhere, or it is the next answer of
\* the robot.  A call whose sendCommand throws changes nothing.
GetScan ==
  /\ pc = "idle"
  /\ lastScanId < MaxScans
  /\ \/ asked = Nothing /\ UNCHANGED modes
     \/ asked = Plain /\ Answered
  /\ text' \in Answers \cup UNION {Cuts(a) : a \in Answers}
  /\ in' = text'.lines /\ good' = TRUE
  /\ pc' = "first"
  /\ UNCHANGED <<line, lastId, data, lastScanId>>

\* std::getline: the last line is read up to the end of the stream if no newline
\* ends it; after that the line stays what it was.
NextLine == IF ~good THEN line ELSE IF in = <<>> THEN Empty ELSE Head(in)
Getline ==
  /\ line' = NextLine
  /\ in' = IF good /\ in # <<>> THEN Tail(in) ELSE in
  /\ good' = (good /\ in # <<>> /\ (Len(in) > 1 \/ text.newline))

ReadFirstLine ==
  /\ pc = "first"
  /\ Getline
  /\ pc' = IF line' = LDS_SCAN_HEADER THEN "while" ELSE "end"
  /\ UNCHANGED <<modes, text, lastId, data, lastScanId>>

Record(id, values) ==
  LET error == values[4] # 0
  IN  [id |-> id, angle |-> values[1], distance |-> IF error THEN -1 ELSE values[2],
       errorCode |-> values[4], error |-> error]

ReadFooter ==
  /\ pc = "while" /\ Getline
  /\ line'.kind = "footer" /\ line'.values # <<>>
  /\ pc' = "end"
  /\ UNCHANGED <<modes, text, lastId, data, lastScanId>>

\* Mutant: the rows are not counted.
ReadRowUncounted ==
  /\ pc = "while" /\ Getline
  /\ Len(line'.values) = 4
  /\ Len(data) < MaxRows + 2
  /\ data' = Append(data, Record(lastId, line'.values))
  /\ UNCHANGED <<modes, pc, text, lastId, lastScanId>>

\* The bound leaves room for a record that comes back.
ReadRow ==
  /\ pc = "while" /\ Getline
  /\ Len(line'.values) = 4
  /\ Len(data) < MaxRows + 2
  /\ lastId' = lastId + 1
  /\ data' = Append(data, Record(lastId, line'.values))
  /\ UNCHANGED <<modes, pc, text, lastScanId>>

\* Mutant: a line that is not understood is skipped.
ReadSkips ==
  /\ pc = "while" /\ Getline
  /\ Len(line'.values) # IF line'.kind = "footer" THEN 1 ELSE 4
  /\ UNCHANGED <<modes, pc, text, lastId, data, lastScanId>>

\* std::stod, std::stoi or values.at() throws, and the scan is lost.
ReadFails ==
  /\ pc = "while"
  /\ Len(NextLine.values) # IF NextLine.kind = "footer" THEN 1 ELSE 4
  /\ pc' = "idle"
  /\ Forget
  /\ UNCHANGED <<modes, lastScanId>>

Return ==
  /\ pc = "end"
  /\ pc' = "idle"
  /\ lastScanId' = IF data = <<>> THEN lastScanId ELSE lastScanId + 1
  /\ Forget
  /\ UNCHANGED modes

Parse == ReadFirstLine \/ ReadRow \/ ReadFooter \/ ReadFails \/ Return

\* One thread calls: it sends nothing while it parses.
Switch ==
  /\ pc = "idle"
  /\ SendOther \/ Answered \/ Unanswered \/ \E flag \in Flag, value \in BOOLEAN : Set(flag, value)
  /\ UNCHANGED <<pc, call, lastScanId>>

Next ==
  \/ Switch \/ GetScan \/ Parse
  \/ Environment /\ UNCHANGED <<pc, call, lastScanId>>

Spec == Init /\ [][Next]_vars

\* The caller's thread runs; nobody has to ask for a scan.
FairSpec == Spec /\ WF_vars(Parse)

-----------------------------------------------------------------------------
\* Types of the members and of the locals of a call (neatocontroller.hpp:92-93,
\* scancontroller.hpp:57).
TypeOK ==
  /\ ModesTypeOK
  /\ pc \in {"idle", "first", "while", "end"}
  /\ good \in BOOLEAN
  /\ lastId = Len(data)
  /\ lastScanId \in Nat

\* A scan that is returned has the rows of the answer, each once and in order, and an
\* answer that is no scan gives none; that also holds for what is left of a log
\* (neatocontroller.hpp:218-264, scancontroller.hpp:82-108).
OneRecordPerRow ==
  pc = "end" =>
    data = IF text.lines = <<>> \/ text.lines[1] # LDS_SCAN_HEADER THEN <<>>
           ELSE [i \in 1 .. Len(text.lines) - 2 |-> Record(i - 1, text.lines[i + 1].values)]

\* The parser ends, with a scan or an exception, on every text but the one that
\* breaks off after the last number of a row: of that row it makes records for ever
\* (neatocontroller.hpp:229-258).
BreaksOffInRow ==
  /\ ~text.newline
  /\ Len(text.lines[Len(text.lines)].values) = 4
ParserEnds == pc # "idle" /\ ~BreaksOffInRow ~> pc = "idle"
=============================================================================
