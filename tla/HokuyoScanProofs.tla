-------------------------- MODULE HokuyoScanProofs --------------------------
(***************************************************************************)
(* Proofs about HokuyoScan: for a scanner of any size, any distances and   *)
(* any garbage, a scan has one record for each valid step, provided that   *)
(* the requests ask for no clusters and end outside the valid steps or at  *)
(* the last one; scans with records are numbered without a gap.            *)
(***************************************************************************)
EXTENDS HokuyoScan, FiniteSetTheorems, SequenceTheorems, TLAPS

\* The step after the last one is not valid, and one pair comes for each step.
Harmless(to, count) == count <= 1 /\ Outside(to + 1)
Scope == \A r \in Requests : Accepted(r) => Harmless(r.to, r.count)

Parameters ==
  /\ fromStep \in Nat /\ toStep \in Nat /\ clusterCount \in Nat
  /\ fromStep <= toStep /\ toStep <= maxStep /\ clusterCount <= 99
  /\ Scope => Harmless(toStep, clusterCount)

Numbers == scanIds \in Seq(Nat) /\ lastScanId = Len(scanIds) /\ NumberedInOrder

Locals ==
  /\ pc \in {"idle", "while", "end"}
  /\ answer \in {"scan", "refused", "nothing"}
  /\ answer = "scan" => measured \in Measured
  /\ measured \in Measured \cup {<<>>}
  /\ good \in BOOLEAN
  /\ in \in Seq(Digit)
  /\ step \in 0 .. Size - 1

\* The records of the valid steps that were asked for and are below s.
lo == IF fromStep < validFromStep THEN validFromStep ELSE fromStep
Count(s) == IF s <= lo THEN 0 ELSE IF s <= validToStep + 1 THEN s - lo ELSE validToStep + 1 - lo
RecordsUpTo(s) == [i \in 1 .. Count(s) |-> Record(i - 1, lo + i - 1, measured[lo + i])]

\* What is left to be parsed when step s is the next one: the pairs from s on.
Left(s) ==
  /\ s \in fromStep .. toStep + 1
  /\ Len(in) = 2 * (toStep + 1 - s)
  /\ \A t \in s .. toStep : /\ in[2 * (t - s) + 1] = measured[t + 1] \div 64
                            /\ in[2 * (t - s) + 2] = measured[t + 1] % 64
Upcoming == (step + 1) % Size

While ==
  pc = "while" =>
    /\ answer # "refused"
    /\ answer = "nothing" => ~good /\ data = <<>>
    /\ answer = "scan" /\ good => Left(Upcoming) /\ data = RecordsUpTo(Upcoming)
    /\ answer = "scan" /\ ~good => data = RecordsUpTo(toStep + 1)
End == pc = "end" => data = IF answer = "scan" THEN RecordsUpTo(toStep + 1) ELSE <<>>

IInv == Parameters /\ Numbers /\ Locals /\ (Scope => While /\ End)

LEMMA Sizes ==
  /\ validFromStep \in Nat /\ validToStep \in Nat /\ maxStep \in Nat
  /\ validFromStep <= validToStep /\ validToStep <= maxStep
  /\ Size \in Nat /\ maxStep + 1 < Size
  /\ \A r \in Requests : r.from \in Nat /\ r.to \in Nat /\ r.count \in Nat
  /\ Garbage \subseteq Digit
<1>1. \A r \in Requests : r.from \in Nat /\ r.to \in Nat /\ r.count \in Nat
  BY HokuyoScanAssumption
<1>2. validFromStep \in Nat /\ validToStep \in Nat /\ maxStep \in Nat
  BY HokuyoScanAssumption
<1>3. Size \in Nat /\ maxStep + 1 < Size /\ Garbage \subseteq Digit
      /\ validFromStep <= validToStep /\ validToStep <= maxStep
  BY HokuyoScanAssumption
<1> QED
  BY <1>1, <1>2, <1>3

\* The step before the first one wraps to the last size_t, and comes back.
LEMMA Wrap ==
  ASSUME NEW s \in Nat, s <= maxStep + 1
  PROVE  /\ s >= 1 => (s - 1) % Size = s - 1
         /\ (s - 1) % Size \in 0 .. Size - 1
         /\ (((s - 1) % Size) + 1) % Size = s
         /\ s % Size = s
<1>1. Size \in Nat /\ s < Size /\ Size > 0
  BY Sizes
<1>2. CASE s >= 1
  <2>1. (s - 1) % Size = s - 1 /\ s % Size = s
    BY <1>1, <1>2
  <2> QED
    BY <1>1, <1>2, <2>1
<1>3. CASE s = 0
  <2>1. (s - 1) % Size = Size - 1
    BY <1>1, <1>3
  <2>2. Size % Size = 0 /\ 0 % Size = 0
    BY <1>1
  <2> QED
    BY <1>1, <1>3, <2>1, <2>2
<1> QED
  BY <1>2, <1>3

LEMMA Multiple ==
  ASSUME NEW d \in Nat, NEW c \in Nat, c > 0, NEW k \in 0 .. d \div c
  PROVE  d \div c \in Nat /\ k * c \in Nat /\ k * c <= d
<1> DEFINE q == d \div c
<1>1. q \in Nat /\ c * q <= d
  OBVIOUS
<1> HIDE DEF q
<1>2. k \in Nat /\ k <= q
  BY <1>1 DEF q
<1>3. k * c <= q * c
  BY <1>1, <1>2
<1>4. q * c = c * q /\ k * c \in Nat
  BY <1>1, <1>2
<1> QED
  BY <1>1, <1>2, <1>3, <1>4 DEF q

Distance == 0 .. 4095  \* two digits of base 64

LEMMA DistanceFacts ==
  /\ Distances \subseteq Distance
  /\ \A d \in Distance : d \div 64 \in Digit /\ d % 64 \in Digit
<1>1. Distances \subseteq Distance
  BY HokuyoScanAssumption DEF Distance
<1>2. ASSUME NEW d \in Distance PROVE d \div 64 \in Digit /\ d % 64 \in Digit
  BY <1>2 DEF Distance, Digit
<1> QED
  BY <1>1, <1>2, Zenon

LEMMA TwoDigits ==
  ASSUME NEW d \in Distance, NEW high \in Int, NEW low \in Int, high = d \div 64, low = d % 64
  PROVE  64 * high + low = d
<1>1. d \in Int
  BY DEF Distance
<1> QED
  BY <1>1, Z3

LEMMA PairsDigits ==
  ASSUME Parameters, NEW m \in Measured
  PROVE  Pairs(m) \in Seq(Digit)
<1> DEFINE n == (toStep - fromStep) \div Cluster
           Of(i) == m[fromStep + ((i - 1) \div 2) * Cluster + 1]
<1>1. Cluster \in Nat /\ Cluster > 0 /\ toStep - fromStep \in Nat /\ fromStep \in Nat /\ toStep \in Nat
  BY DEF Parameters, Cluster
<1>2. n \in Nat
  BY <1>1
<1> HIDE DEF n
<1>3. ASSUME NEW i \in 1 .. 2 * (n + 1) PROVE Of(i) \in Distance
  <2> DEFINE k == (i - 1) \div 2
  <2>1. k \in 0 .. n
    BY <1>2, <1>3
  <2> HIDE DEF k
  <2>2. k * Cluster \in Nat /\ k * Cluster <= toStep - fromStep
    BY <1>1, <2>1, Multiple DEF n
  <2>3. fromStep + k * Cluster + 1 \in 1 .. maxStep + 1
    BY <1>1, <2>2, Sizes DEF Parameters
  <2>4. m[fromStep + k * Cluster + 1] \in Distances
    BY <2>3 DEF Measured
  <2>5. Of(i) = m[fromStep + k * Cluster + 1]
    BY DEF k
  <2> QED
    BY <2>4, <2>5, DistanceFacts, Zenon
<1>4. Pairs(m) = [i \in 1 .. 2 * (n + 1) |-> IF i % 2 = 1 THEN Of(i) \div 64 ELSE Of(i) % 64]
  BY DEF Pairs, n
<1> HIDE DEF Of
<1>5. \A i \in 1 .. 2 * (n + 1) : Of(i) \div 64 \in Digit /\ Of(i) % 64 \in Digit
  BY <1>3, DistanceFacts, Zenon
<1>6. Pairs(m) \in [1 .. 2 * (n + 1) -> Digit]
  BY <1>4, <1>5
<1>7. 2 * (n + 1) \in Nat
  BY <1>2
<1> QED
  BY <1>6, <1>7

\* Without clusters the scanner sends the pair of every step.
LEMMA PairsLeft ==
  ASSUME Parameters, NEW m \in Measured, clusterCount <= 1
  PROVE  /\ Len(Pairs(m)) = 2 * (toStep + 1 - fromStep)
         /\ \A t \in fromStep .. toStep :
              /\ Pairs(m)[2 * (t - fromStep) + 1] = m[t + 1] \div 64
              /\ Pairs(m)[2 * (t - fromStep) + 2] = m[t + 1] % 64
<1>1. Cluster = 1 /\ fromStep \in Nat /\ toStep \in Nat /\ fromStep <= toStep
  BY DEF Parameters, Cluster
<1>2. 2 * ((toStep - fromStep) \div Cluster + 1) = 2 * (toStep + 1 - fromStep)
  BY <1>1
<1> DEFINE Of(i) == m[fromStep + ((i - 1) \div 2) * Cluster + 1]
           n == 2 * (toStep + 1 - fromStep)
<1>3. Pairs(m) = [i \in 1 .. n |-> IF i % 2 = 1 THEN Of(i) \div 64 ELSE Of(i) % 64]
  BY <1>2 DEF Pairs
<1>4. n \in Nat
  BY <1>1
<1>5. ASSUME NEW t \in fromStep .. toStep
      PROVE  /\ Pairs(m)[2 * (t - fromStep) + 1] = m[t + 1] \div 64
             /\ Pairs(m)[2 * (t - fromStep) + 2] = m[t + 1] % 64
  <2> DEFINE i == 2 * (t - fromStep) + 1
             j == 2 * (t - fromStep) + 2
  <2>1. i \in 1 .. n /\ j \in 1 .. n
    BY <1>1
  <2>2. i % 2 = 1 /\ (i - 1) \div 2 = t - fromStep /\ j % 2 = 0 /\ (j - 1) \div 2 = t - fromStep
    BY <1>1
  <2>3. fromStep + (t - fromStep) * Cluster + 1 = t + 1
    BY <1>1
  <2> HIDE DEF i, j, n
  <2>4. Pairs(m)[i] = Of(i) \div 64 /\ Pairs(m)[j] = Of(j) % 64
    BY <1>3, <2>1, <2>2
  <2>5. Of(i) = m[t + 1] /\ Of(j) = m[t + 1]
    BY <2>2, <2>3
  <2> QED
    BY <2>4, <2>5 DEF i, j
<1> HIDE DEF n
<1>6. Len(Pairs(m)) = n
  BY <1>3, <1>4
<1> QED
  BY <1>5, <1>6 DEF n

\* The records of one step more.
LEMMA NoMoreRecords ==
  ASSUME Parameters, NEW s \in fromStep .. toStep, Outside(s)
  PROVE  RecordsUpTo(s + 1) = RecordsUpTo(s)
<1>1. fromStep \in Nat /\ toStep \in Nat /\ validFromStep \in Nat /\ validToStep \in Nat /\ lo \in Nat
  BY Sizes DEF Parameters, lo
<1>2. s < lo \/ s > validToStep
  BY <1>1 DEF Outside, lo
<1>3. Count(s) \in Int /\ Count(s + 1) \in Int
      /\ (Count(s) = Count(s + 1) \/ (Count(s) <= 0 /\ Count(s + 1) <= 0))
  BY <1>1, <1>2 DEF Count
<1>4. 1 .. Count(s) = 1 .. Count(s + 1)
  BY <1>3
<1> QED
  BY <1>4 DEF RecordsUpTo

LEMMA OneMoreRecord ==
  ASSUME Parameters, NEW s \in fromStep .. toStep, ~Outside(s)
  PROVE  /\ Len(RecordsUpTo(s)) \in Nat
         /\ RecordsUpTo(s + 1) =
              Append(RecordsUpTo(s), Record(Len(RecordsUpTo(s)), s, measured[s + 1]))
<1>1. fromStep \in Nat /\ toStep \in Nat /\ validFromStep \in Nat /\ validToStep \in Nat /\ lo \in Nat
  BY Sizes DEF Parameters, lo
<1>2. lo <= s /\ s <= validToStep /\ s \in Nat
  BY <1>1 DEF Outside, lo
<1>3. Count(s) = s - lo /\ Count(s + 1) = s + 1 - lo
  BY <1>1, <1>2 DEF Count
<1> DEFINE n == s - lo
           f(i) == Record(i - 1, lo + i - 1, measured[lo + i])
<1>4. n \in Nat /\ RecordsUpTo(s) = [i \in 1 .. n |-> f(i)] /\ RecordsUpTo(s + 1) = [i \in 1 .. n + 1 |-> f(i)]
  <2>1. n \in Nat /\ s + 1 - lo = n + 1
    BY <1>1, <1>2
  <2> QED
    BY <1>3, <2>1 DEF RecordsUpTo
<1>5. ASSUME NEW i \in Int, i = n + 1 PROVE f(i) = Record(n, s, measured[s + 1])
  <2>1. i - 1 = n /\ lo + i - 1 = s /\ lo + i = s + 1
    BY <1>1, <1>2, <1>5
  <2> QED
    BY <2>1, Zenon
<1> HIDE DEF n, f
<1>8. f(n + 1) = Record(n, s, measured[s + 1])
  BY <1>4, <1>5
<1>6. Len(RecordsUpTo(s)) = n
  BY <1>4
<1>7. [i \in 1 .. n + 1 |-> f(i)] = Append([i \in 1 .. n |-> f(i)], f(n + 1))
  BY <1>4
<1> QED
  BY <1>4, <1>6, <1>7, <1>8

-----------------------------------------------------------------------------
LEMMA InitIInv == Init => IInv
<1> SUFFICES ASSUME Init PROVE IInv
  OBVIOUS
<1> USE DEF Init
<1>1. Parameters
  BY Sizes DEF Parameters, Harmless, Outside
<1>2. Numbers
  BY DEF Numbers, NumberedInOrder
<1>3. Locals
  BY Sizes DEF Locals
<1>4. While /\ End
  BY DEF While, End
<1> QED
  BY <1>1, <1>2, <1>3, <1>4 DEF IInv

\* Nothing between two calls is about a scan.
LEMMA Idle == Locals /\ pc = "idle" => While /\ End
  BY DEF While, End

LEMMA SetIInv == ASSUME NEW r \in Requests PROVE IInv /\ SetScanParameters(r) => IInv'
<1> SUFFICES ASSUME IInv, SetScanParameters(r) PROVE IInv'
  OBVIOUS
<1>1. /\ pc = "idle" /\ Accepted(r)
      /\ fromStep' = r.from /\ toStep' = r.to /\ clusterCount' = r.count
      /\ UNCHANGED <<pc, lastScanId, scanIds, answer, measured, in, good, step, data>>
  BY DEF SetScanParameters, call
<1>2. Parameters'
  BY <1>1, Sizes DEF Parameters, Accepted, Scope, Harmless, Outside
<1>3. Numbers'
  BY <1>1 DEF IInv, Numbers, NumberedInOrder
<1>4. Locals'
  BY <1>1 DEF IInv, Locals
<1>5. While' /\ End'
  BY <1>1 DEF While, End
<1> QED
  BY <1>2, <1>3, <1>4, <1>5 DEF IInv

LEMMA GetScanIInv == IInv /\ GetScan => IInv'
<1> SUFFICES ASSUME IInv, GetScan PROVE IInv'
  OBVIOUS
<1>1. /\ answer' \in {"scan", "refused", "nothing"}
      /\ measured' \in IF answer' = "scan" THEN Measured ELSE {<<>>}
      /\ in' = IF answer' = "scan" THEN Pairs(measured') ELSE <<>>
      /\ good' = (answer' # "nothing")
      /\ pc' \in CASE answer' = "scan" -> {"while"}
                   [] answer' = "refused" -> {"end"}
                   [] answer' = "nothing" -> {"while", "end"}
      /\ step' = (fromStep - 1) % Size
      /\ data' = <<>>
      /\ UNCHANGED <<fromStep, toStep, clusterCount, lastScanId, scanIds>>
  BY DEF GetScan, parameters
<1>2. Parameters /\ fromStep \in Nat /\ fromStep <= maxStep + 1 /\ fromStep <= toStep /\ toStep \in Nat
  BY Sizes DEF IInv, Parameters
<1>3. Parameters'
  BY <1>1, <1>2 DEF Parameters
<1>4. Numbers'
  BY <1>1 DEF IInv, Numbers, NumberedInOrder
<1>5. Locals'
  <2>1. in' \in Seq(Digit)
    BY <1>1, <1>2, PairsDigits
  <2>2. step' \in 0 .. Size - 1
    BY <1>1, <1>2, Wrap
  <2>3. pc' \in {"idle", "while", "end"}
    BY <1>1
  <2>4. measured' \in Measured \cup {<<>>} /\ (answer' = "scan" => measured' \in Measured)
    BY <1>1
  <2> QED
    BY <1>1, <2>1, <2>2, <2>3, <2>4 DEF Locals
<1>6. ASSUME Scope PROVE While' /\ End'
  <2>1. CASE answer' = "refused"
    BY <1>1, <2>1 DEF While, End
  <2>2. CASE answer' = "nothing"
    BY <1>1, <2>2 DEF While, End
  <2>3. CASE answer' = "scan"
    <3>1. pc' = "while" /\ good' /\ in' = Pairs(measured') /\ measured' \in Measured
      BY <1>1, <2>3
    <3>2. Upcoming' = fromStep
      BY <1>1, <1>2, Wrap DEF Upcoming
    <3>3. clusterCount <= 1
      BY <1>6, <1>2 DEF Parameters, Harmless
    <3>4. Left(fromStep)'
      <4>1. /\ Len(in') = 2 * (toStep + 1 - fromStep)
            /\ \A t \in fromStep .. toStep :
                 /\ in'[2 * (t - fromStep) + 1] = measured'[t + 1] \div 64
                 /\ in'[2 * (t - fromStep) + 2] = measured'[t + 1] % 64
        BY <1>2, <3>1, <3>3, PairsLeft
      <4>2. fromStep \in fromStep .. toStep + 1
        BY <1>2
      <4> QED
        BY <1>1, <4>1, <4>2 DEF Left
    <3>5. data' = RecordsUpTo(fromStep)'
      <4>1. RecordsUpTo(fromStep)' = <<>>
        BY <1>1, <1>2, Sizes DEF RecordsUpTo, Count, lo
      <4> QED
        BY <1>1, <4>1
    <3> QED
      BY <3>1, <3>2, <3>4, <3>5, <2>3, <1>1 DEF While, End
  <2> QED
    BY <1>1, <2>1, <2>2, <2>3
<1> QED
  BY <1>3, <1>4, <1>5, <1>6 DEF IInv, Scope, Accepted, Harmless, Outside

LEMMA IterateIInv == IInv /\ Iterate => IInv'
<1> SUFFICES ASSUME IInv, Iterate PROVE IInv'
  OBVIOUS
<1> DEFINE u == Upcoming
<1>1. /\ pc = "while" /\ good /\ step' = u /\ ReadPair
      /\ UNCHANGED <<pc, fromStep, toStep, clusterCount, lastScanId, scanIds, answer, measured>>
  BY DEF Iterate, parameters, Upcoming
<1>2. IF Outside(u) THEN data' = data
      ELSE \E high \in High, low \in Low : data' = Append(data, Record(Len(data), u, 64 * high + low))
  BY DEF Iterate, Upcoming
<1>3. Parameters' /\ Numbers'
  BY <1>1 DEF IInv, Parameters, Numbers, NumberedInOrder
<1>4. in \in Seq(Digit) /\ step \in Nat /\ Size \in Nat /\ Size > 0
  BY Sizes DEF IInv, Locals
<1>5. u \in 0 .. Size - 1
  BY <1>4 DEF Upcoming
<1>6. /\ Len(in) \in Nat
      /\ good' = (Len(in) >= 2)
      /\ in' = IF Len(in) >= 2 THEN SubSeq(in, 3, Len(in)) ELSE <<>>
  <2>1. Len(in) \in Nat /\ good' = (Len(in) >= 2) /\ in' = IF good' THEN SubSeq(in, 3, Len(in)) ELSE <<>>
    BY <1>1, <1>4 DEF ReadPair
  <2>2. CASE Len(in) >= 2
    <3>1. good'
      BY <2>1, <2>2, Zenon
    <3> QED
      BY <2>1, <2>2, <3>1
  <2>3. CASE ~(Len(in) >= 2)
    <3>1. ~good'
      BY <2>1, <2>3, Zenon
    <3> QED
      BY <2>1, <2>3, <3>1
  <2> QED
    BY <2>2, <2>3
<1>7. in' \in Seq(Digit)
  BY <1>4, <1>6
<1>8. Locals'
  BY <1>1, <1>5, <1>6, <1>7 DEF IInv, Locals
<1>9. ASSUME Scope PROVE While' /\ End'
  <2>1. Parameters /\ While /\ Locals /\ Outside(toStep + 1)
        /\ fromStep \in Nat /\ toStep \in Nat /\ toStep <= maxStep
    BY <1>9 DEF IInv, Parameters, Harmless
  <2>2. answer = "scan" /\ Left(u) /\ data = RecordsUpTo(u) /\ measured \in Measured
    BY <1>1, <2>1 DEF While, Locals
  <2> HIDE DEF u
  <2>3. u \in Nat /\ u >= fromStep /\ u <= toStep + 1 /\ Len(in) = 2 * (toStep + 1 - u)
    BY <2>1, <2>2 DEF Left
  <2>5. CASE u = toStep + 1
    <3>1. ~good' /\ data' = data
      <4>1. Len(in) = 0
        BY <2>1, <2>3, <2>5
      <4>2. Outside(u)
        BY <2>1, <2>5, Zenon
      <4>3. ~(Len(in) >= 2)
        BY <4>1
      <4>4. ~good'
        BY <1>6, <4>3, Zenon
      <4> QED
        BY <1>2, <4>2, <4>4, Zenon
    <3>2. data' = RecordsUpTo(toStep + 1)'
      <4>1. RecordsUpTo(toStep + 1)' = RecordsUpTo(toStep + 1)
        BY <1>1 DEF RecordsUpTo, Count, lo
      <4> QED
        BY <2>2, <2>5, <3>1, <4>1, Zenon
    <3> QED
      BY <1>1, <2>2, <3>1, <3>2 DEF While, End
  <2>6. CASE u <= toStep
    <3>1. good' /\ Len(in) >= 2 /\ in' = SubSeq(in, 3, Len(in)) /\ u \in fromStep .. toStep
      <4>1. Len(in) >= 2 /\ u \in fromStep .. toStep
        BY <2>1, <2>3, <2>6
      <4> QED
        BY <1>6, <4>1
    <3>2. Upcoming' = u + 1
      <4>1. u + 1 \in Nat /\ u + 1 <= maxStep + 1
        BY <2>1, <2>3, <2>6, Sizes
      <4>2. Upcoming' = (u + 1) % Size
        BY <1>1 DEF Upcoming
      <4> QED
        BY <4>1, <4>2, Wrap
    <3>3. Left(Upcoming)'
      <4>1. Len(in') = 2 * (toStep + 1 - (u + 1)) /\ Len(in') = Len(in) - 2
            /\ \A k \in 1 .. Len(in) - 2 : in'[k] = in[k + 2]
        BY <1>4, <1>6, <2>1, <2>3, <2>6, <3>1
      <4>2. ASSUME NEW t \in u + 1 .. toStep
            PROVE  /\ in'[2 * (t - (u + 1)) + 1] = measured[t + 1] \div 64
                   /\ in'[2 * (t - (u + 1)) + 2] = measured[t + 1] % 64
        <5> DEFINE k == 2 * (t - (u + 1)) + 1
                   l == 2 * (t - (u + 1)) + 2
        <5>1. t \in Int /\ k \in 1 .. Len(in) - 2 /\ l \in 1 .. Len(in) - 2 /\ t \in u .. toStep
          BY <2>1, <2>3, <2>6
        <5>2. k + 2 = 2 * (t - u) + 1 /\ l + 2 = 2 * (t - u) + 2
          BY <2>3, <5>1
        <5>3. in[2 * (t - u) + 1] = measured[t + 1] \div 64 /\ in[2 * (t - u) + 2] = measured[t + 1] % 64
          BY <2>2, <5>1 DEF Left
        <5> HIDE DEF k, l
        <5>4. in'[k] = measured[t + 1] \div 64 /\ in'[l] = measured[t + 1] % 64
          BY <4>1, <5>1, <5>2, <5>3
        <5> QED
          BY <5>4 DEF k, l
      <4>3. u + 1 \in fromStep .. toStep + 1
        BY <2>1, <2>3, <2>6
      <4> QED
        BY <1>1, <3>2, <4>1, <4>2, <4>3 DEF Left
    <3>4. data' = RecordsUpTo(u + 1)
      <4>1. CASE Outside(u)
        BY <1>2, <2>1, <2>2, <3>1, <4>1, NoMoreRecords
      <4>2. CASE ~Outside(u)
        <5>1. PICK high \in High, low \in Low :
                data' = Append(data, Record(Len(data), u, 64 * high + low))
          BY <1>2, <4>2
        <5>2. in[1] = measured[u + 1] \div 64 /\ in[2] = measured[u + 1] % 64
          <6>1. in[2 * (u - u) + 1] = measured[u + 1] \div 64 /\ in[2 * (u - u) + 2] = measured[u + 1] % 64
            BY <2>2, <2>3, <2>6, <2>1 DEF Left
          <6>2. 2 * (u - u) + 1 = 1 /\ 2 * (u - u) + 2 = 2
            BY <2>3
          <6> QED
            BY <6>1, <6>2
        <5>3. high = in[1] /\ low = in[2] /\ high \in Int /\ low \in Int
          <6>1. high = in[1] /\ low = in[2]
            BY <3>1, <5>1, <1>6 DEF High, Low
          <6>2. in[1] \in Digit /\ in[2] \in Digit
            BY <1>4, <3>1
          <6> QED
            BY <6>1, <6>2 DEF Digit
        <5>4. measured[u + 1] \in Distance
          <6>1. measured[u + 1] \in Distances
            BY <2>1, <2>2, <2>3, <2>6, Sizes DEF Measured
          <6> QED
            BY <6>1, DistanceFacts, Zenon
        <5>5. 64 * high + low = measured[u + 1]
          BY <5>2, <5>3, <5>4, TwoDigits
        <5> QED
          BY <2>1, <2>2, <3>1, <4>2, <5>1, <5>5, OneMoreRecord
      <4> QED
        BY <4>1, <4>2
    <3>5. RecordsUpTo(Upcoming)' = RecordsUpTo(u + 1)
      BY <1>1, <3>2 DEF RecordsUpTo, Count, lo
    <3> QED
      BY <1>1, <2>2, <3>1, <3>3, <3>4, <3>5 DEF While, End
  <2> QED
    BY <2>3, <2>1, <2>5, <2>6
<1>10. Scope' = Scope
  BY DEF Scope, Accepted, Harmless, Outside
<1> QED
  BY <1>3, <1>8, <1>9, <1>10 DEF IInv

LEMMA EndLoopIInv == IInv /\ EndLoop => IInv'
<1> SUFFICES ASSUME IInv, EndLoop PROVE IInv'
  OBVIOUS
<1>1. /\ pc = "while" /\ ~good /\ pc' = "end"
      /\ UNCHANGED <<fromStep, toStep, clusterCount, lastScanId, scanIds, answer, measured, in, good, step, data>>
  BY DEF EndLoop, parameters, call
<1>2. Parameters' /\ Numbers' /\ Locals'
  BY <1>1 DEF IInv, Parameters, Numbers, NumberedInOrder, Locals
<1>3. ASSUME Scope PROVE While' /\ End'
  <2>1. While /\ answer \in {"scan", "refused", "nothing"}
    BY <1>3 DEF IInv, Locals
  <2>2. RecordsUpTo(toStep + 1)' = RecordsUpTo(toStep + 1)
    BY <1>1 DEF RecordsUpTo, Count, lo
  <2> QED
    BY <1>1, <2>1, <2>2 DEF While, End
<1>4. Scope' = Scope
  BY DEF Scope, Accepted, Harmless, Outside
<1> QED
  BY <1>2, <1>3, <1>4 DEF IInv

LEMMA ReturnIInv == IInv /\ Return => IInv'
<1> SUFFICES ASSUME IInv, Return PROVE IInv'
  OBVIOUS
<1>1. /\ pc' = "idle" /\ answer' = "nothing" /\ measured' = <<>> /\ in' = <<>> /\ good' = TRUE
      /\ step' = 0 /\ data' = <<>>
      /\ UNCHANGED <<fromStep, toStep, clusterCount>>
      /\ \/ UNCHANGED <<lastScanId, scanIds>>
         \/ lastScanId' = lastScanId + 1 /\ scanIds' = Append(scanIds, lastScanId)
  BY DEF Return, parameters
<1>2. Parameters' /\ Locals'
  BY <1>1, Sizes DEF IInv, Parameters, Locals
<1>3. Numbers'
  <2>1. CASE UNCHANGED <<lastScanId, scanIds>>
    BY <2>1 DEF IInv, Numbers, NumberedInOrder
  <2>2. CASE lastScanId' = lastScanId + 1 /\ scanIds' = Append(scanIds, lastScanId)
    BY <2>2 DEF IInv, Numbers, NumberedInOrder
  <2> QED
    BY <1>1, <2>1, <2>2
<1>4. While' /\ End'
  BY <1>1 DEF While, End
<1> QED
  BY <1>2, <1>3, <1>4 DEF IInv

LEMMA Inductive == Spec => []IInv
<1>1. IInv /\ [Next]_vars => IInv'
  <2> SUFFICES ASSUME IInv, [Next]_vars PROVE IInv'
    OBVIOUS
  <2>1. CASE UNCHANGED vars
    <3>1. UNCHANGED <<pc, fromStep, toStep, clusterCount, lastScanId, scanIds,
                      answer, measured, in, good, step, data>>
      BY <2>1 DEF vars, parameters, call
    <3> QED
      BY <3>1 DEF IInv, Parameters, Numbers, NumberedInOrder, Locals, While, End, Left, Upcoming,
                  RecordsUpTo, Count, lo
  <2> QED
    BY <2>1, SetIInv, GetScanIInv, IterateIInv, EndLoopIInv, ReturnIInv DEF Next
<1> QED
  BY <1>1, InitIInv, PTL DEF Spec

-----------------------------------------------------------------------------
\* The members of a HokuyoController stay in their ranges and the characters of a scan
\* are digits, for any size of a scanner and of a size_t beyond it, and any clusters
\* (hokuyocontroller.hpp:61-67,167-199).
THEOREM TypeCorrect == Spec => []TypeOK
<1>1. IInv => TypeOK
  <2> SUFFICES ASSUME IInv PROVE TypeOK
    OBVIOUS
  <2>1. Accepted([from |-> fromStep, to |-> toStep, count |-> clusterCount])
    BY Sizes DEF IInv, Parameters, Accepted
  <2>2. lastScanId \in Nat
    BY DEF IInv, Numbers
  <2> QED
    BY <2>1, <2>2, Zenon DEF IInv, Locals, TypeOK
<1> QED
  BY <1>1, Inductive, PTL

\* Whatever is refused, empty or asked for in between, the n-th scan that has records
\* has the number n - 1 (scancontroller.hpp:106).
THEOREM NumbersHaveNoGap == Spec => []NumberedInOrder
<1>1. IInv => NumberedInOrder
  BY DEF IInv, Numbers
<1> QED
  BY <1>1, Inductive, PTL

\* The steps that were asked for and are valid.
LEMMA WantedSteps ==
  ASSUME Parameters
  PROVE  [i \in 1 .. Cardinality(Wanted) |-> Record(i - 1, First + i - 1, measured[First + i])]
           = RecordsUpTo(toStep + 1)
<1> DEFINE hi == IF toStep < validToStep THEN toStep ELSE validToStep
<1>1. fromStep \in Nat /\ toStep \in Nat /\ fromStep <= toStep
      /\ validFromStep \in Nat /\ validToStep \in Nat /\ lo \in Nat /\ hi \in Nat
  BY Sizes DEF Parameters, lo
<1>2. Wanted = lo .. hi
  BY <1>1 DEF Wanted, lo
<1>3. CASE lo <= hi
  <2>1. Count(toStep + 1) = hi - lo + 1
    BY <1>1, <1>3 DEF Count
  <2>2. Cardinality(Wanted) = hi - lo + 1
    BY <1>1, <1>2, <1>3, FS_Interval
  <2>3. First = lo
    <3>1. lo \in Wanted /\ \A t \in Wanted : lo <= t
      BY <1>1, <1>2, <1>3
    <3>2. ASSUME NEW s \in Wanted, \A t \in Wanted : s <= t PROVE s = lo
      BY <1>1, <1>2, <3>1, <3>2
    <3> QED
      BY <3>1, <3>2 DEF First
  <2> QED
    BY <2>1, <2>2, <2>3 DEF RecordsUpTo
<1>4. CASE lo > hi
  <2>1. Count(toStep + 1) \in Int /\ Count(toStep + 1) <= 0
    BY <1>1, <1>4 DEF Count, lo
  <2>2. Cardinality(Wanted) = 0
    BY <1>1, <1>2, <1>4, FS_Interval
  <2>3. 1 .. Cardinality(Wanted) = {} /\ 1 .. Count(toStep + 1) = {}
    BY <2>1, <2>2
  <2> QED
    BY <2>3 DEF RecordsUpTo
<1> QED
  BY <1>1, <1>3, <1>4

\* If no request asks for clusters or ends inside the valid steps before the last one,
\* a scan has one record for each valid step, with what was measured there: the
\* iteration that comes after the last pair is not seen (hokuyocontroller.hpp:190-213).
THEOREM RecordsAreSteps == ASSUME Scope PROVE Spec => []OneRecordPerStep
<1>1. IInv => OneRecordPerStep
  <2> SUFFICES ASSUME IInv, pc = "end" PROVE OneRecordPerStep
    BY DEF OneRecordPerStep
  <2>1. Parameters /\ End
    BY DEF IInv
  <2> QED
    BY <2>1, WantedSteps DEF End, OneRecordPerStep
<1> QED
  BY <1>1, Inductive, PTL
-----------------------------------------------------------------------------
(* How long a scan can take *)

\* What is left to be done of a call of getScan: the characters, the end of the loop
\* and the return.
StepsLeft ==
  IF pc = "idle" THEN 0
  ELSE (IF pc = "while" THEN 2 ELSE 1) + (IF good THEN Len(in) + 1 ELSE 0)
EveryStepCounts == [][pc # "idle" => StepsLeft' < StepsLeft]_vars

LEMMA PairTaken ==
  ASSUME NEW s \in Seq(Digit), Len(s) >= 2
  PROVE  Len(SubSeq(s, 3, Len(s))) = Len(s) - 2
<1> DEFINE n == Len(s)
           taken == Len(SubSeq(s, 3, n))
<1>1. n \in Nat /\ n >= 2 /\ \A i \in 3 .. n : s[i] \in Digit
  OBVIOUS
<1>2. n \in Int /\ 3 \in Int
  BY <1>1
<1>3. taken = IF 3 <= n THEN n - 3 + 1 ELSE 0
  <2> HIDE DEF n
  <2> QED
    BY <1>1, <1>2, SubSeqProperties
<1> HIDE DEF n, taken
<1>4. taken = n - 2
  BY <1>1, <1>3
<1> QED
  BY <1>4 DEF n, taken

\* The parser takes at most four steps more than the answer has characters, for every
\* request, clusters and steps that wrap included: an iteration that reads no
\* character of a pair takes the stream out of its good state, which ends the loop
\* (hokuyocontroller.hpp:190-213).
THEOREM EndsInTime == Spec => [](StepsLeft \in Nat) /\ EveryStepCounts
<1>1. Locals => StepsLeft \in Nat
  <2> SUFFICES ASSUME Locals PROVE StepsLeft \in Nat
    OBVIOUS
  <2>1. Len(in) \in Nat
    BY DEF Locals
  <2>2. (IF good THEN Len(in) + 1 ELSE 0) \in Nat
    BY <2>1
  <2>3. CASE pc = "idle"
    BY <2>3 DEF StepsLeft
  <2>4. CASE pc = "while"
    BY <2>2, <2>4 DEF StepsLeft
  <2>5. CASE pc = "end"
    BY <2>2, <2>5 DEF StepsLeft
  <2> QED
    BY <2>3, <2>4, <2>5 DEF Locals
<1>2. Locals /\ [Next]_vars => [pc # "idle" => StepsLeft' < StepsLeft]_vars
  <2> SUFFICES ASSUME Locals, Next, pc # "idle" PROVE StepsLeft' < StepsLeft
    OBVIOUS
  <2>1. in \in Seq(Digit) /\ Len(in) \in Nat /\ good \in BOOLEAN
    BY DEF Locals
  <2>2. CASE Iterate
    <3>1. pc = "while" /\ pc' = "while" /\ good /\ ReadPair
      BY <2>2 DEF Iterate
    <3>2. CASE Len(in) >= 2
      <4>1. good' /\ in' = SubSeq(in, 3, Len(in))
        BY <3>1, <3>2 DEF ReadPair
      <4>2. Len(in') = Len(in) - 2
        <5>1. Len(SubSeq(in, 3, Len(in))) = Len(in) - 2
          BY <2>1, <3>2, PairTaken
        <5> QED
          BY <4>1, <5>1
      <4> QED
        <5>1. StepsLeft = 2 + (Len(in) + 1) /\ StepsLeft' = 2 + (Len(in') + 1)
          BY <3>1, <4>1 DEF StepsLeft
        <5> QED
          BY <2>1, <4>2, <5>1
    <3>3. CASE ~(Len(in) >= 2)
      <4>1. ~good'
        BY <3>1, <3>3 DEF ReadPair
      <4> QED
        BY <2>1, <3>1, <4>1 DEF StepsLeft
    <3> QED
      BY <3>2, <3>3
  <2>3. CASE EndLoop
    <3>1. pc = "while" /\ pc' = "end" /\ ~good /\ good' = good
      BY <2>3 DEF EndLoop, call
    <3> QED
      BY <3>1 DEF StepsLeft
  <2>4. CASE Return
    <3>1. pc = "end" /\ pc' = "idle"
      BY <2>4 DEF Return
    <3> QED
      BY <2>1, <3>1 DEF StepsLeft
  <2> QED
    BY <2>2, <2>3, <2>4 DEF Next, SetScanParameters, GetScan
<1>3. IInv => Locals
  BY DEF IInv
<1> QED
  BY <1>1, <1>2, <1>3, Inductive, PTL DEF Spec, EveryStepCounts
=============================================================================
