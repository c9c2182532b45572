----------------------------- MODULE HokuyoScan -----------------------------
(***************************************************************************)
(* Scans of a HokuyoController (include/regilo/hokuyocontroller.hpp and    *)
(* the getScan of scancontroller.hpp): the parameters of a scan, the       *)
(* answer as characters and the loop that parses it.                       *)
(*                                                                         *)
(* A distance comes as two digits of base 64, one pair for each step from  *)
(* fromStep to toStep, after the status.  A digit is its character less    *)
(* '0'.  White space is skipped by the stream and left out.                *)
(***************************************************************************)
EXTENDS Integers, Sequences, FiniteSets

CONSTANTS
  validFromStep, validToStep, maxStep,
  Size,      \* number of values of a size_t
  Requests,  \* the arguments setScanParameters is called with
  Distances, \* what the scanner measures
  Garbage,   \* the digits that a character which was not read may stand for
  MaxScans   \* bound: calls of getScan

Digit == 0 .. 63
Measured == [1 .. maxStep + 1 -> Distances]  \* step s is at s + 1

ASSUME HokuyoScanAssumption ==
  /\ {validFromStep, validToStep, maxStep, MaxScans} \subseteq Nat
  /\ validFromStep <= validToStep /\ validToStep <= maxStep
  /\ Size \in Nat /\ maxStep + 1 < Size
  /\ \A r \in Requests : {r.from, r.to, r.count} \subseteq Nat
  /\ Distances \subseteq 0 .. 4095
  /\ Garbage \subseteq Digit

VARIABLES
  pc,
  fromStep, toStep, clusterCount,
  lastScanId,
  answer,    \* to the scan at hand: "scan", "refused", "nothing"
  measured,  \* by the scanner, for a "scan"
  in,        \* the characters still to be parsed
  good,      \* the state of the stream they are in
  step,
  data,
  scanIds    \* the scanId of every scan so far that had records

parameters == <<fromStep, toStep, clusterCount>>
call == <<answer, measured, in, good, step, data>>
vars == <<pc, parameters, lastScanId, scanIds, call>>

Init ==
  /\ pc = "idle"
  /\ fromStep = 0 /\ toStep = maxStep /\ clusterCount = 1
  /\ lastScanId = 0
  /\ scanIds = <<>>
  /\ answer = "nothing" /\ measured = <<>> /\ in = <<>> /\ good = TRUE
  /\ step = 0 /\ data = <<>>

\* The arguments that do not throw, which leave the parameters as they are.
Accepted(r) == r.from <= maxStep /\ r.to <= maxStep /\ r.count <= 99 /\ r.from <= r.to

SetScanParameters(r) ==
  /\ pc = "idle"
  /\ Accepted(r)
  /\ fromStep' = r.from /\ toStep' = r.to /\ clusterCount' = r.count
  /\ UNCHANGED <<pc, lastScanId, scanIds, call>>

-----------------------------------------------------------------------------
(* getScan *)

\* The scanner: the steps of a cluster are merged, here into the first one.
Cluster == IF clusterCount = 0 THEN 1 ELSE clusterCount
Pairs(m) ==
  LET Of(i) == m[fromStep + ((i - 1) \div 2) * Cluster + 1]
  IN  [i \in 1 .. 2 * ((toStep - fromStep) \div Cluster + 1) |->
         IF i % 2 = 1 THEN Of(i) \div 64 ELSE Of(i) % 64]

\* Mutant: the step before the first one is below zero.
GetScanSigned ==
  /\ pc = "idle"
  /\ Len(scanIds) < MaxScans
  /\ answer' = "scan" /\ measured' \in Measured /\ in' = Pairs(measured') /\ good' = TRUE
  /\ step' = fromStep - 1
  /\ pc' = "while" /\ data' = <<>>
  /\ UNCHANGED <<parameters, lastScanId, scanIds>>

\* The command is answered by a scan, by another status, or, at the end of a log,
\* by nothing: then the status is not set and may be taken for any, '0' included.
GetScan ==
  /\ pc = "idle"
  /\ Len(scanIds) < MaxScans
  /\ answer' \in {"scan", "refused", "nothing"}
  /\ measured' \in IF answer' = "scan" THEN Measured ELSE {<<>>}
  /\ in' = IF answer' = "scan" THEN Pairs(measured') ELSE <<>>
  /\ good' = (answer' # "nothing")
  /\ pc' \in CASE answer' = "scan" -> {"while"}
               [] answer' = "refused" -> {"end"}
               [] answer' = "nothing" -> {"while", "end"}
  /\ step' = (fromStep - 1) % Size
  /\ data' = <<>>
  /\ UNCHANGED <<parameters, lastScanId, scanIds>>

Record(id, s, d) == [id |-> id, step |-> s, distance |-> IF d < 20 THEN -1 ELSE d,
                     errorCode |-> IF d < 20 THEN d ELSE 0, error |-> d < 20]

\* in >> high >> low: what is not read is not set.
High == IF Len(in) >= 1 THEN {in[1]} ELSE Garbage
Low == IF Len(in) >= 2 THEN {in[2]} ELSE Garbage
ReadPair ==
  /\ good' = (Len(in) >= 2)
  /\ in' = IF good' THEN SubSeq(in, 3, Len(in)) ELSE <<>>

\* Mutant: an off-by-one at the last valid step.
OutsideByOne(s) == s < validFromStep \/ s >= validToStep

Outside(s) == s < validFromStep \/ s > validToStep

\* Mutant: the state of the stream is not looked at.
IterateAlways ==
  /\ pc = "while"
  /\ step' = (step + 1) % Size
  /\ ReadPair
  /\ UNCHANGED <<pc, parameters, lastScanId, scanIds, answer, measured, data>>

\* One iteration; the pair is not known to have been read when it is used.
Iterate ==
  /\ pc = "while" /\ good
  /\ step' = (step + 1) % Size
  /\ ReadPair
  /\ IF Outside(step') THEN data' = data
     ELSE \E high \in High, low \in Low :
            data' = Append(data, Record(Len(data), step', 64 * high + low))
  /\ UNCHANGED <<pc, parameters, lastScanId, scanIds, answer, measured>>

EndLoop ==
  /\ pc = "while" /\ ~good
  /\ pc' = "end"
  /\ UNCHANGED <<parameters, lastScanId, scanIds, call>>

\* Mutant: every scan gets a number.
ReturnNumbered ==
  /\ pc = "end"
  /\ pc' = "idle"
  /\ lastScanId' = lastScanId + 1
  /\ scanIds' = IF data # <<>> THEN Append(scanIds, lastScanId) ELSE scanIds
  /\ answer' = "nothing" /\ measured' = <<>> /\ in' = <<>> /\ good' = TRUE
  /\ step' = 0 /\ data' = <<>>
  /\ UNCHANGED parameters

\* Only a scan with records gets a number; the locals of the call are gone.
Return ==
  /\ pc = "end"
  /\ pc' = "idle"
  /\ IF data = <<>> THEN UNCHANGED <<lastScanId, scanIds>>
     ELSE lastScanId' = lastScanId + 1 /\ scanIds' = Append(scanIds, lastScanId)
  /\ answer' = "nothing" /\ measured' = <<>> /\ in' = <<>> /\ good' = TRUE
  /\ step' = 0 /\ data' = <<>>
  /\ UNCHANGED parameters

Next == (\E r \in Requests : SetScanParameters(r)) \/ GetScan \/ Iterate \/ EndLoop \/ Return

Spec == Init /\ [][Next]_vars

\* The caller's thread runs; nobody has to ask for a scan.
FairSpec == Spec /\ WF_vars(Iterate \/ EndLoop \/ Return)

-----------------------------------------------------------------------------
\* Types; the step is unsigned and one before the first one at the start
\* (hokuyocontroller.hpp:61-67,184-199), and the parameters stay in the ranges of
\* setScanParameters.
TypeOK ==
  /\ pc \in {"idle", "while", "end"}
  /\ Accepted([from |-> fromStep, to |-> toStep, count |-> clusterCount])
  /\ lastScanId \in Nat
  /\ good \in BOOLEAN
  /\ measured \in Measured \cup {<<>>}
  /\ in \in Seq(Digit)
  /\ step \in 0 .. Size - 1

\* A scan has one record for each step that was asked for and is valid, in order and
\* with the distance measured there, and an answer without a scan has none
\* (hokuyocontroller.hpp:190-213; "The ending step", :104).
Wanted == {s \in fromStep .. toStep : s >= validFromStep /\ s <= validToStep}
First == CHOOSE s \in Wanted : \A t \in Wanted : s <= t
OneRecordPerStep ==
  pc = "end" =>
    data = IF answer # "scan" THEN <<>>
           ELSE [i \in 1 .. Cardinality(Wanted) |->
                   Record(i - 1, First + i - 1, measured[First + i])]

\* The scans that have records are numbered from zero without a gap, whatever
\* empty ones are between them ("A scan id (starting from zero) that is used for new
\* scans", scancontroller.hpp:57,106).
NumberedInOrder == \A i \in DOMAIN scanIds : scanIds[i] = i - 1

\* The parser ends on every answer (hokuyocontroller.hpp:190).
ParserEnds == pc # "idle" ~> pc = "idle"
=============================================================================
