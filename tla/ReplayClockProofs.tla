------------------------- MODULE ReplayClockProofs -------------------------
(***************************************************************************)
(* Proofs about ReplayClock: for any number of threads, any units and any  *)
(* recording the records are handed out in their order, and if the unit of *)
(* the reader divides that of the log, a synchronised read returns none    *)
(* before its time.                                                        *)
(***************************************************************************)
EXTENDS ReplayClock, TLAPS

kw == Base \div unit[1]     \* ticks of the clock in a unit of the log
kr == Base \div unit[2]     \* and in a unit of the object that replays it

\* A thread that has found a record and not yet returned it.
Holding(r) == pc[r] \in {"elapsed", "sleeping"}

\* What the recording has written, as far as the truncated clock tells.
Recording ==
  /\ Len(times) <= MaxWrites
  /\ Len(written) = IF writing = "time" THEN Len(times) + 1 ELSE Len(times)
  /\ writing # "no" => Len(times) < MaxWrites
  /\ firstWriteTime = min <=> Len(written) = 0
  /\ \A i \in 1 .. Len(written) : written[i] <= now
  /\ Len(written) > 0 => firstWriteTime = written[1] \div kw
  /\ \A i \in 1 .. Len(times) : times[i] >= written[i] \div kw - written[1] \div kw
  /\ replaying => writing = "no"

\* One thread at a time is in read().
Locked == \A r \in Reader : pc[r] # "idle" <=> streamMutex = r

\* The records returned and held are those taken.
Order ==
  /\ taken <= Len(times)
  /\ ~replaying => taken = 0 /\ returned.record = 0 /\ \A r \in Reader : pc[r] = "idle"
  /\ returned.record # End => returned.record <= taken
  /\ returned.record = End => taken = Len(times)
  /\ \A r \in Reader : Holding(r) =>
       \/ record[r] = End /\ taken = Len(times)
       \/ record[r] = taken /\ taken > 0 /\ returned.record < taken

\* What the thread that waits compares the clock with.
Clock ==
  /\ syncedAt # 0 => firstReadTime = syncedAt \div kr
  /\ \A r \in Reader : Holding(r) /\ record[r] # End =>
       lastCommandTime = LastCommandTime(times[record[r]])

\* The unit of the reader divides that of the log: otherwise times come out too short.
Finer == \A u \in Units : u[2] % u[1] = 0
Timely == Finer => NotEarly

IInv == TypeOK /\ Recording /\ Locked /\ Order /\ Clock /\ Timely

\* What a fraction that is truncated leaves of its numerator.
LEMMA DivBounds ==
  ASSUME NEW a \in Int, NEW k \in Nat, k > 0
  PROVE  a \div k \in Int /\ k * (a \div k) <= a /\ a < k * (a \div k) + k
  OBVIOUS

\* Truncation keeps the order.
LEMMA DivMono ==
  ASSUME NEW a \in Int, NEW b \in Int, NEW k \in Nat, k > 0, a <= b
  PROVE  a \div k <= b \div k
<1> DEFINE x == a \div k
           y == b \div k
<1>1. x \in Int /\ y \in Int /\ k * x <= a /\ b < k * y + k
  BY DivBounds
<1>2. k * x < k * (y + 1)
  BY <1>1
<1> HIDE DEF x, y
<1>3. x < y + 1
  BY <1>1, <1>2
<1> QED
  BY <1>1, <1>3 DEF x, y

\* A divisor times its quotient.
LEMMA DivExact ==
  ASSUME NEW a \in Nat, NEW k \in Nat, k > 0, a % k = 0
  PROVE  a \div k \in Nat /\ a = k * (a \div k)
  OBVIOUS

\* The units of the log and of the object that replays it: the first is the second one
\* times the ratio that read() computes.
LEMMA Ratio ==
  ASSUME unit \in Units, Finer
  PROVE  /\ kw \in Nat /\ kw > 0 /\ kr \in Nat /\ kr > 0
         /\ unit[2] \div unit[1] \in Nat
         /\ kw = kr * (unit[2] \div unit[1])
<1> DEFINE a == unit[1]
           b == unit[2]
           m == b \div a
           w == Base \div a
           r == Base \div b
<1>1. a \in Nat /\ b \in Nat /\ a > 0 /\ b > 0 /\ Base % a = 0 /\ Base % b = 0 /\ b % a = 0
      /\ Base \in Nat /\ Base > 0
  BY ReplayClockAssumption DEF Finer
<1> HIDE DEF a, b
<1>2. m \in Nat /\ b = a * m /\ w \in Nat /\ Base = a * w /\ r \in Nat /\ Base = b * r
  BY <1>1, DivExact
<1> HIDE DEF m, w, r
<1>3. a * w = a * (r * m)
  <2>1. (a * m) * r = a * (r * m)
    BY <1>1, <1>2
  <2> QED
    BY <1>2, <2>1
<1>4. w = r * m
  <2>1. r * m \in Nat
    BY <1>2
  <2> DEFINE n == r * m
  <2> HIDE DEF n
  <2>2. n \in Nat /\ a * w = a * n
    BY <1>3, <2>1 DEF n
  <2>3. w = n
    BY <1>1, <1>2, <2>2
  <2> QED
    BY <2>3 DEF n
<1>5. w > 0 /\ r > 0
  BY <1>1, <1>2
<1> QED
  BY <1>2, <1>4, <1>5 DEF kw, kr, a, b, m, w, r

\* Whatever the units are, they have ticks.
LEMMA Positive ==
  ASSUME unit \in Units
  PROVE  /\ kw \in Nat /\ kw > 0 /\ kr \in Nat /\ kr > 0
         /\ unit[2] \div unit[1] \in Int
<1> DEFINE a == unit[1]
           b == unit[2]
           w == Base \div a
           r == Base \div b
<1>1. a \in Nat /\ b \in Nat /\ a > 0 /\ b > 0 /\ Base % a = 0 /\ Base % b = 0
      /\ Base \in Nat /\ Base > 0
  BY ReplayClockAssumption
<1> HIDE DEF a, b
<1>2. w \in Nat /\ Base = a * w /\ r \in Nat /\ Base = b * r /\ b \div a \in Int
  BY <1>1, DivExact
<1> HIDE DEF w, r
<1>3. w > 0 /\ r > 0
  BY <1>1, <1>2
<1> QED
  BY <1>2, <1>3 DEF kw, kr, a, b, w, r

LEMMA Consts ==
  /\ Big \in Nat /\ Big > 0 /\ MaxNow < Big /\ MaxNow \in Nat /\ Start \in Nat /\ Start <= MaxNow
  /\ MaxWrites \in Nat /\ End \in Nat /\ End > MaxWrites /\ End > 0
  /\ Garbage \subseteq Int /\ Nobody \notin Reader /\ LastWrite \in Nat
  BY ReplayClockAssumption DEF End

LEMMA InitIInv == Init => IInv
<1> SUFFICES ASSUME Init PROVE IInv
  OBVIOUS
<1> USE Consts DEF Init
<1>1. TypeOK
  <2>1. times \in Seq(Int) /\ written \in Seq(Nat)
    OBVIOUS
  <2>2. returned \in [record : 0 .. End, at : Nat, since : Nat]
    OBVIOUS
  <2>3. pc \in [Reader -> {"idle", "locked", "elapsed", "sleeping"}] /\ record \in [Reader -> 0 .. End]
        /\ wake \in [Reader -> Int]
    OBVIOUS
  <2>4. now \in Nat /\ now <= MaxNow /\ firstWriteTime \in Int /\ firstReadTime \in Int
        /\ taken \in Nat /\ lastCommandTime \in Int /\ syncedAt \in Nat
    BY DEF min, zero
  <2>5. unit \in Units /\ writing \in {"no", "record", "time"} /\ replaying \in BOOLEAN
        /\ streamMutex \in Reader \cup {Nobody}
    OBVIOUS
  <2> QED
    BY ONLY <2>1, <2>2, <2>3, <2>4, <2>5 DEF TypeOK
<1>2. Recording
  BY DEF Recording
<1>3. Locked /\ Order /\ Clock
  BY DEF Locked, Order, Clock, Holding
<1>4. Timely
  BY DEF Timely, NotEarly
<1> QED
  BY <1>1, <1>2, <1>3, <1>4 DEF IInv

LEMMA TickIInv == IInv /\ Tick => IInv'
<1> SUFFICES ASSUME IInv, Tick PROVE IInv'
  OBVIOUS
<1> USE DEF IInv, Tick, recording, reading
<1>1. TypeOK'
  BY Consts DEF TypeOK
<1>2. Recording'
  <2>1. \A i \in 1 .. Len(written) : written[i] \in Nat
    BY DEF TypeOK
  <2>2. kw' = kw
    BY DEF kw
  <2> QED
    BY <2>1, <2>2 DEF TypeOK, Recording
<1>3. Locked' /\ Order' /\ Clock'
  BY DEF Locked, Order, Clock, Holding, kr, LastCommandTime
<1>4. Timely'
  BY DEF Timely, NotEarly
<1> QED
  BY <1>1, <1>2, <1>3, <1>4

LEMMA WriteIInv == IInv /\ Write => IInv'
<1> SUFFICES ASSUME IInv, Write PROVE IInv'
  OBVIOUS
<1> USE DEF IInv, Write, reading
<1>1. TypeOK'
  BY DEF TypeOK
<1>2. Recording'
  BY DEF Recording, kw
<1>3. Locked' /\ Order' /\ Clock' /\ Timely'
  BY DEF Locked, Order, Clock, Timely, NotEarly, Holding, kr, LastCommandTime
<1> QED
  BY <1>1, <1>2, <1>3

LEMMA FirstTimeIInv == IInv /\ FirstTime => IInv'
<1> SUFFICES ASSUME IInv, FirstTime PROVE IInv'
  OBVIOUS
<1> USE DEF IInv, FirstTime, reading
<1>0. kw \in Nat /\ kw > 0
  BY Positive DEF TypeOK
<1>a. now \div kw \in Int /\ Epoch(unit[1]) = now \div kw
  BY <1>0, DivBounds DEF TypeOK, kw, Epoch
<1>1. TypeOK'
  BY <1>a DEF TypeOK
<1>2. Recording'
  <2>1. /\ Len(written') = Len(written) + 1
        /\ \A i \in 1 .. Len(written) : written'[i] = written[i]
        /\ written'[Len(written) + 1] = now
    BY DEF TypeOK
  <2>2. kw' = kw
    BY DEF kw
  <2>3. now \div kw >= 0
    BY <1>0, DivMono, 0 \div kw = 0 DEF TypeOK
  <2>4. firstWriteTime' # min
    BY <1>a, <2>3, Consts DEF min, TypeOK
  <2>5. firstWriteTime' = written'[1] \div kw
    BY <1>a, <2>1 DEF Recording, TypeOK
  <2>6. /\ Len(times) \in Nat /\ Len(written) \in Nat /\ Len(written) = Len(times) /\ writing = "record"
        /\ \A i \in 1 .. Len(written) : written[i] <= now
        /\ \A i \in 1 .. Len(times) : times[i] >= written[i] \div kw - written[1] \div kw
    BY DEF Recording, TypeOK
  <2>7. \A i \in 1 .. Len(written') : written'[i] <= now
    <3>1. ASSUME NEW i \in 1 .. Len(written) + 1 PROVE written'[i] <= now
      <4>1. CASE i \in 1 .. Len(written)
        BY <2>1, <2>6, <4>1
      <4>2. CASE i = Len(written) + 1
        BY <2>1, <4>2 DEF TypeOK
      <4> QED
        BY <2>6, <4>1, <4>2
    <3> QED
      BY <2>1, <3>1
  <2>8. \A i \in 1 .. Len(times) : times[i] >= written'[i] \div kw - written'[1] \div kw
    <3>1. \A i \in 1 .. Len(times) :
            1 \in 1 .. Len(written) /\ written'[1] = written[1] /\ written'[i] = written[i]
      BY <2>1, <2>6
    <3> QED
      BY <2>6, <3>1
  <2>9. /\ now' = now /\ times' = times /\ writing' = "time" /\ ~replaying' /\ Len(times) < MaxWrites
    BY DEF Recording
  <2>10. Len(written') = Len(times') + 1 /\ Len(times') <= MaxWrites /\ Len(written') > 0
    BY <2>1, <2>6, <2>9, Consts
  <2> HIDE DEF IInv, FirstTime, reading
  <2> QED
    BY <2>2, <2>4, <2>5, <2>7, <2>8, <2>9, <2>10 DEF Recording
<1>3. Locked' /\ Order' /\ Clock'
  BY DEF TypeOK, Recording, Locked, Order, Clock, Holding, kr, LastCommandTime
<1>4. Timely'
  BY <1>1, Consts DEF Recording, Order, Timely, NotEarly, TypeOK
<1> QED
  BY <1>1, <1>2, <1>3, <1>4

LEMMA WriteTimeIInv == IInv /\ WriteTime => IInv'
<1> SUFFICES ASSUME IInv, WriteTime PROVE IInv'
  OBVIOUS
<1> USE DEF IInv, WriteTime, reading
<1>0. kw \in Nat /\ kw > 0
  BY Positive DEF TypeOK
<1>a. now \div kw \in Int /\ Epoch(unit[1]) = now \div kw
  BY <1>0, DivBounds DEF TypeOK, kw, Epoch
<1>1. TypeOK'
  <2>1. times' \in Seq(Int)
    BY <1>a DEF TypeOK
  <2> QED
    BY <2>1 DEF TypeOK
<1>b. /\ Len(times') = Len(times) + 1
      /\ \A i \in 1 .. Len(times) : times'[i] = times[i]
      /\ times'[Len(times) + 1] = now \div kw - firstWriteTime
  BY <1>a DEF TypeOK
<1>2. Recording'
  <2> DEFINE n == Len(times) + 1
  <2>1. n \in Nat /\ n <= Len(written) /\ written[n] \in Nat /\ written[n] <= now
    BY DEF Recording, TypeOK
  <2>2. written[n] \div kw <= now \div kw
    <3>1. now \in Int /\ written[n] \in Int
      BY <2>1 DEF TypeOK
    <3> HIDE DEF n
    <3> QED
      BY <1>0, <2>1, <3>1, DivMono
  <2>3. firstWriteTime = written[1] \div kw
    BY <2>1 DEF Recording
  <2>4. times'[n] >= written[n] \div kw - written[1] \div kw
    <3>1. written[n] \div kw \in Int /\ written[1] \div kw \in Int
      BY <1>0, <2>1, DivBounds DEF TypeOK
    <3>2. times'[n] = now \div kw - written[1] \div kw
      BY <1>b, <2>3
    <3> QED
      BY <3>1, <3>2, <2>2, <1>a
  <2>5. kw' = kw
    BY DEF kw
  <2>6. Len(written) = n /\ n <= MaxWrites
    BY Consts DEF Recording, TypeOK
  <2>7. ASSUME NEW i \in 1 .. Len(times')
        PROVE  times'[i] >= written[i] \div kw - written[1] \div kw
    <3>1. CASE i = n
      BY <3>1, <2>4
    <3>2. CASE i \in 1 .. Len(times)
      BY <3>2, <1>b DEF Recording
    <3> QED
      <4>1. Len(times) \in Nat
        BY DEF TypeOK
      <4> QED
        BY <1>b, <3>1, <3>2, <4>1
  <2> QED
    BY <1>b, <2>5, <2>6, <2>7 DEF Recording, TypeOK
<1>3. ~replaying
  BY DEF Recording
<1>4. Locked' /\ Order' /\ Clock'
  BY <1>3, <1>b, Consts DEF TypeOK, Locked, Order, Clock, Holding, kr
<1>5. Timely'
  BY <1>1, <1>3, Consts DEF Order, Timely, NotEarly, TypeOK
<1> QED
  BY <1>1, <1>2, <1>4, <1>5

LEMMA OpenIInv == IInv /\ Open => IInv'
<1> SUFFICES ASSUME IInv, Open PROVE IInv'
  OBVIOUS
<1> USE DEF IInv, Open, recording, reading
<1>1. TypeOK' /\ Recording'
  BY DEF TypeOK, Recording, kw
<1>2. Locked' /\ Order' /\ Clock' /\ Timely'
  BY DEF Locked, Order, Clock, Timely, NotEarly, Holding, kr, LastCommandTime
<1> QED
  BY <1>1, <1>2

LEMMA SyncIInv == ASSUME NEW sync \in BOOLEAN PROVE IInv /\ SyncTime(sync) => IInv'
<1> SUFFICES ASSUME IInv, SyncTime(sync) PROVE IInv'
  OBVIOUS
<1> USE DEF IInv, SyncTime, recording
<1>1. TypeOK'
  BY Consts DEF TypeOK, max, zero
<1>2. Recording'
  BY DEF Recording, kw
<1>3. Locked' /\ Order' /\ Clock' /\ Timely'
  BY DEF Locked, Order, Clock, Timely, NotEarly, Holding, kr, LastCommandTime
<1> QED
  BY <1>1, <1>2, <1>3

LEMMA LockIInv == ASSUME NEW r \in Reader PROVE IInv /\ Lock(r) => IInv'
<1> SUFFICES ASSUME IInv, Lock(r) PROVE IInv'
  OBVIOUS
<1> USE DEF IInv, Lock, recording
<1>1. TypeOK'
  BY DEF TypeOK
<1>2. Recording'
  BY DEF Recording, kw
<1>3. Locked' /\ Order' /\ Clock' /\ Timely'
  BY Consts DEF TypeOK, Locked, Order, Clock, Timely, NotEarly, Holding, kr, LastCommandTime
<1> QED
  BY <1>1, <1>2, <1>3

\* Whoever is in read() is there alone.
LEMMA Alone ==
  ASSUME IInv, NEW r \in Reader, pc[r] # "idle"
  PROVE  streamMutex = r /\ replaying /\ \A q \in Reader \ {r} : pc[q] = "idle"
  BY DEF IInv, Locked, Order

LEMMA ReadRecordIInv == ASSUME NEW r \in Reader PROVE IInv /\ ReadRecord(r) => IInv'
<1> SUFFICES ASSUME IInv, ReadRecord(r) PROVE IInv'
  OBVIOUS
<1> USE DEF recording
<1>1. pc[r] = "locked" /\ streamMutex = r /\ replaying /\ \A q \in Reader \ {r} : pc[q] = "idle"
  BY Alone DEF ReadRecord, Take
<1>2. kr \in Nat /\ kr > 0 /\ unit[2] \div unit[1] \in Int
  BY Positive DEF IInv, TypeOK
<1>3. now \div kr \in Int /\ Epoch(unit[2]) = now \div kr
  BY <1>2, DivBounds DEF IInv, TypeOK, kr, Epoch
<1>4. /\ taken' \in Nat /\ taken' <= Len(times) /\ taken <= taken' /\ Len(times) \in Nat
      /\ Len(times) <= MaxWrites
      /\ \/ Found = End /\ taken' = taken /\ taken' = Len(times)
         \/ Found = taken + 1 /\ taken' = Found /\ Found <= MaxWrites
  <2>1. taken \in Nat /\ Len(times) \in Nat /\ taken <= Len(times) /\ Len(times) <= MaxWrites
    BY DEF IInv, TypeOK, Recording, Order
  <2>2. taken' = IF taken < Len(times) THEN taken + 1 ELSE taken
    BY DEF ReadRecord, Take
  <2> QED
    BY <2>1, <2>2, Consts DEF Found
<1>5. Found \in 0 .. End /\ Found # 0
  BY <1>4, Consts DEF IInv, TypeOK
<1>6. /\ lastCommandTime' \in Int
      /\ Found # End => lastCommandTime' = LastCommandTime(times[Found])
  <2>1. PICK count \in (IF taken < Len(times) THEN {times[taken + 1]} ELSE Garbage) :
           lastCommandTime' = LastCommandTime(count)
    BY DEF ReadRecord, Take
  <2>2. count \in Int
    <3>1. \A i \in 1 .. Len(times) : times[i] \in Int
      BY DEF IInv, TypeOK
    <3>2. taken \in Nat /\ (taken < Len(times) => taken + 1 \in 1 .. Len(times))
      BY <1>4 DEF IInv, TypeOK
    <3> QED
      BY <2>1, <3>1, <3>2, Consts
  <2> QED
    BY <1>2, <1>4, <2>1, <2>2, Consts DEF LastCommandTime, Found
<1>7. UNCHANGED <<now, unit, recording, replaying, wake, reads>>
  BY DEF ReadRecord, Take
<1>8. Recording'
  BY <1>7 DEF IInv, Recording, kw
<1>9. CASE firstReadTime = max
  <2>1. /\ firstReadTime' = now \div kr /\ syncedAt' = now
        /\ pc' = [pc EXCEPT ![r] = "idle"] /\ record' = [record EXCEPT ![r] = 0]
        /\ streamMutex' = Nobody
        /\ returned' = [record |-> Found, at |-> now, since |-> 0]
    BY <1>9, <1>3 DEF ReadRecord, Return
  <2>2. TypeOK'
    <3>1. returned' \in [record : 0 .. End, at : Nat, since : Nat]
      BY <2>1, <1>5 DEF IInv, TypeOK
    <3>2. pc' \in [Reader -> {"idle", "locked", "elapsed", "sleeping"}] /\ record' \in [Reader -> 0 .. End]
      BY <2>1, Consts DEF IInv, TypeOK
    <3> QED
      BY <2>1, <3>1, <3>2, <1>3, <1>4, <1>6, <1>7 DEF IInv, TypeOK
  <2>3. \A q \in Reader : pc'[q] = "idle"
    BY <2>1, <1>1 DEF IInv, TypeOK
  <2>4. Locked' /\ Clock' /\ Timely'
    BY <2>1, <2>3, <1>7, Consts DEF Locked, Clock, Timely, NotEarly, Holding, kr
  <2>5. Order'
    BY <2>1, <2>3, <1>1, <1>4, <1>7, Consts DEF Order, Holding
  <2> QED
    BY <2>2, <2>4, <2>5, <1>8 DEF IInv
<1>10. CASE firstReadTime # max
  <2>1. /\ pc' = [pc EXCEPT ![r] = "elapsed"] /\ record' = [record EXCEPT ![r] = Found]
        /\ UNCHANGED <<firstReadTime, syncedAt, streamMutex, returned>>
    BY <1>10 DEF ReadRecord
  <2>2. TypeOK'
    BY <2>1, <1>4, <1>5, <1>6, <1>7 DEF IInv, TypeOK
  <2>3. record'[r] = Found /\ pc'[r] = "elapsed" /\ \A q \in Reader \ {r} : pc'[q] = "idle"
    BY <2>1, <1>1 DEF IInv, TypeOK
  <2>4. Locked'
    BY <2>1, <2>3, <1>1 DEF Locked
  <2>5. Clock'
    BY <2>1, <2>3, <1>6, <1>7 DEF IInv, Clock, Holding, kr, LastCommandTime
  <2>6. Timely'
    BY <2>1, <1>7 DEF IInv, Timely, NotEarly
  <2>7. Order'
    BY <2>1, <2>3, <1>1, <1>4, <1>5, <1>7, Consts DEF IInv, TypeOK, Order, Holding
  <2> QED
    BY <2>2, <2>4, <2>5, <2>6, <2>7, <1>8 DEF IInv
<1> QED
  BY <1>9, <1>10

LEMMA WakeIInv == ASSUME NEW r \in Reader PROVE IInv /\ Wake(r) => IInv'
<1> SUFFICES ASSUME IInv, Wake(r) PROVE IInv'
  OBVIOUS
<1> USE DEF IInv, Wake, recording
<1>1. TypeOK'
  BY DEF TypeOK
<1>2. Recording'
  BY DEF Recording, kw
<1>3. Locked' /\ Order' /\ Clock' /\ Timely'
  BY DEF TypeOK, Locked, Order, Clock, Timely, NotEarly, Holding, kr, LastCommandTime
<1> QED
  BY <1>1, <1>2, <1>3

\* A clock that has gone on by as many units of the reader as the record's time has gone
\* on by at least as much as the recording's did, but for a truncated unit of each.
LEMMA Elapsed ==
  ASSUME NEW at \in Nat, NEW s \in Nat, NEW w \in Nat, NEW v \in Nat, NEW count \in Int,
         NEW k \in Nat, NEW l \in Nat, NEW m \in Nat, k > 0, l > 0, k = l * m,
         count >= w \div k - v \div k,
         count * m <= at \div l - s \div l
  PROVE  at - s > w - v - k - l
<1> DEFINE a == at \div l
           b == s \div l
           x == w \div k
           y == v \div k
           d == count
<1>1. a \in Int /\ b \in Int /\ x \in Int /\ y \in Int
      /\ l * a <= at /\ s < l * b + l /\ w < k * x + k /\ k * y <= v
  BY DivBounds
<1>2. d \in Int /\ d >= x - y /\ d * m <= a - b
  OBVIOUS
<1> HIDE DEF a, b, x, y, d
<1>3. l * (d * m) <= l * (a - b)
  <2> DEFINE e == d * m
             f == a - b
  <2>1. e \in Int /\ f \in Int /\ e <= f
    BY <1>1, <1>2
  <2> HIDE DEF e, f
  <2>2. l * e <= l * f
    BY <2>1
  <2> QED
    BY <2>2 DEF e, f
<1>4. l * (d * m) = k * d
  BY <1>2
<1>5. k * (x - y) <= k * d
  <2> DEFINE e == x - y
  <2>1. e \in Int /\ e <= d
    BY <1>1, <1>2
  <2> HIDE DEF e
  <2>2. k * e <= k * d
    BY <2>1, <1>2
  <2> QED
    BY <2>2 DEF e
<1>6. k * (x - y) = k * x - k * y /\ l * (a - b) = l * a - l * b
  BY <1>1
<1> QED
  BY <1>1, <1>2, <1>3, <1>4, <1>5, <1>6

LEMMA WaitIInv == ASSUME NEW r \in Reader PROVE IInv /\ Wait(r) => IInv'
<1> SUFFICES ASSUME IInv, Wait(r) PROVE IInv'
  OBVIOUS
<1> USE DEF recording
<1> DEFINE left == lastCommandTime - (Epoch(unit[2]) - firstReadTime)
           m == unit[2] \div unit[1]
<1>1. pc[r] = "elapsed" /\ streamMutex = r /\ replaying /\ \A q \in Reader \ {r} : pc[q] = "idle"
  BY Alone DEF Wait
<1>2. kr \in Nat /\ kr > 0 /\ kw \in Nat /\ kw > 0
  BY Positive DEF IInv, TypeOK
<1>3. now \div kr \in Int /\ Epoch(unit[2]) = now \div kr
  BY <1>2, DivBounds DEF IInv, TypeOK, kr, Epoch
<1>4. left \in Int
  BY <1>3 DEF IInv, TypeOK
<1>5. UNCHANGED <<now, unit, recording, replaying, taken, lastCommandTime, firstReadTime, syncedAt,
                  reads>>
  BY DEF Wait
<1>6. Recording'
  BY <1>5 DEF IInv, Recording, kw
<1>7. \/ record[r] = End /\ taken = Len(times)
      \/ record[r] = taken /\ taken > 0 /\ returned.record < taken
  BY <1>1 DEF IInv, Order, Holding
<1>8. CASE left > 0
  <2>1. /\ pc' = [pc EXCEPT ![r] = "sleeping"]
        /\ wake' = [wake EXCEPT ![r] = now + left * (Base \div unit[2])]
        /\ UNCHANGED <<streamMutex, record, returned>>
    BY <1>8 DEF Wait
  <2>2. now + left * (Base \div unit[2]) \in Int
    <3>1. Base \div unit[2] \in Int
      BY <1>2 DEF kr
    <3> QED
      BY <3>1, <1>4 DEF IInv, TypeOK
  <2>3. TypeOK'
    BY <2>1, <2>2, <1>5 DEF IInv, TypeOK
  <2>4. Locked' /\ Order' /\ Clock' /\ Timely'
    BY <2>1, <1>1, <1>5 DEF IInv, TypeOK, Locked, Order, Clock, Timely, NotEarly, Holding, kr, LastCommandTime
  <2> QED
    BY <2>3, <2>4, <1>6 DEF IInv
<1>9. CASE ~(left > 0)
  <2>1. /\ pc' = [pc EXCEPT ![r] = "idle"] /\ record' = [record EXCEPT ![r] = 0]
        /\ wake' = [wake EXCEPT ![r] = 0]
        /\ streamMutex' = Nobody
        /\ returned' = [record |-> record[r], at |-> now, since |-> syncedAt]
    BY <1>9 DEF Wait, Return
  <2>2. record[r] \in 0 .. End
    BY DEF IInv, TypeOK
  <2>3. TypeOK'
    <3>1. returned' \in [record : 0 .. End, at : Nat, since : Nat]
      BY <2>1, <2>2 DEF IInv, TypeOK
    <3> QED
      BY <2>1, <3>1, <1>5, Consts DEF IInv, TypeOK
  <2>4. \A q \in Reader : pc'[q] = "idle"
    BY <2>1, <1>1 DEF IInv, TypeOK
  <2>5. Locked' /\ Clock'
    BY <2>1, <2>4, <1>5, Consts DEF IInv, Locked, Clock, Holding, kr
  <2>6. Order'
    <3>1. taken \in Nat /\ Len(times) \in Nat /\ taken <= Len(times) /\ Len(times) <= MaxWrites
      BY DEF IInv, TypeOK, Recording, Order
    <3>2. returned'.record = record[r] /\ UNCHANGED <<taken, times, replaying>>
      BY <2>1, <1>5
    <3> QED
      BY <3>1, <3>2, <2>4, <1>1, <1>7, Consts DEF Order, Holding
  <2>7. Timely'
    <3> DEFINE n == record[r]
    <3> SUFFICES ASSUME Finer, n \in DOMAIN times, syncedAt # 0
                 PROVE  now - syncedAt > written[n] - written[1] - kw - kr
      BY <2>1, <1>5 DEF Timely, NotEarly, kw, kr
    <3>0. m \in Nat /\ kw = kr * m
      BY Ratio DEF IInv, TypeOK
    <3>1. n \in 1 .. Len(times) /\ n # End /\ Len(written) >= Len(times)
      <4>0. times \in Seq(Int) /\ Len(times) <= MaxWrites
        BY DEF IInv, TypeOK, Recording
      <4>1. Len(times) \in Nat /\ Len(times) <= MaxWrites /\ n \in 1 .. Len(times)
        BY <4>0
      <4>2. Len(written) >= Len(times)
        BY <4>1 DEF IInv, Recording
      <4> QED
        BY <4>1, <4>2, Consts
    <3>2. lastCommandTime = times[n] * m /\ firstReadTime = syncedAt \div kr
      BY <3>1, <1>1 DEF IInv, Clock, Holding, LastCommandTime
    <3>3. times[n] \in Int /\ written[n] \in Nat /\ written[1] \in Nat /\ now \in Nat /\ syncedAt \in Nat
      <4>1. now \in Nat /\ syncedAt \in Nat /\ times \in Seq(Int) /\ written \in Seq(Nat)
        BY DEF IInv, TypeOK
      <4> HIDE DEF n
      <4>2. times[n] \in Int
        BY <3>1, <4>1
      <4>3. 1 \in 1 .. Len(written) /\ n \in 1 .. Len(written)
        BY <3>1, <4>1
      <4> QED
        BY <4>1, <4>2, <4>3
    <3>4. times[n] >= written[n] \div kw - written[1] \div kw
      BY <3>1 DEF IInv, Recording
    <3>5. times[n] * m <= now \div kr - syncedAt \div kr
      <4>1. left = lastCommandTime - (now \div kr - firstReadTime)
        BY <1>3
      <4>2. syncedAt \div kr \in Int /\ times[n] * m \in Int
        BY <3>0, <3>3, <1>2, DivBounds
      <4> QED
        BY <4>1, <4>2, <3>2, <1>3, <1>9
    <3> HIDE DEF n, m
    <3> QED
      BY <1>2, <3>0, <3>3, <3>4, <3>5, Elapsed
  <2> QED
    BY <2>3, <2>5, <2>6, <2>7, <1>6 DEF IInv
<1> QED
  BY <1>4, <1>8, <1>9

LEMMA StepIInv == IInv /\ [Next]_vars => IInv'
<1> SUFFICES ASSUME IInv, [Next]_vars PROVE IInv'
  OBVIOUS
<1>1. CASE Tick
  BY <1>1, TickIInv
<1>2. CASE Write \/ FirstTime
  BY <1>2, WriteIInv, FirstTimeIInv
<1>3. CASE WriteTime
  BY <1>3, WriteTimeIInv
<1>4. CASE Open
  BY <1>4, OpenIInv
<1>5. ASSUME NEW sync \in BOOLEAN, SyncTime(sync) PROVE IInv'
  BY <1>5, SyncIInv
<1>6. ASSUME NEW r \in Reader, Lock(r) PROVE IInv'
  BY <1>6, LockIInv
<1>7. ASSUME NEW r \in Reader, ReaderStep(r) PROVE IInv'
  BY <1>7, ReadRecordIInv, WaitIInv, WakeIInv DEF ReaderStep
<1>8. CASE UNCHANGED vars
  <2> USE DEF vars, recording, reading
  <2>1. TypeOK' /\ Recording'
    BY <1>8 DEF IInv, TypeOK, Recording, kw
  <2>2. Locked' /\ Order' /\ Clock' /\ Timely'
    BY <1>8 DEF IInv, Locked, Order, Clock, Timely, NotEarly, Holding, kr, LastCommandTime
  <2> QED
    BY <2>1, <2>2 DEF IInv
<1> QED
  BY <1>1, <1>2, <1>3, <1>4, <1>5, <1>6, <1>7, <1>8 DEF Next

LEMMA Inductive == Spec => []IInv
<1>1. IInv /\ [Next]_vars => IInv'
  BY StepIInv
<1> QED
  BY <1>1, InitIInv, PTL DEF Spec

\* The members of a TimedLog and the locals of its readers keep their types.
THEOREM TypeCorrect == Spec => []TypeOK
<1>1. IInv => TypeOK
  BY DEF IInv
<1> QED
  BY <1>1, Inductive, PTL

\* A synchronised read never returns before its record is due, counted from the end of the
\* first Log::write() and up to a tick of each unit, for any number of threads and any
\* recording, in the log's own unit or in one that divides it (log.hpp:276-291, 301-306).
THEOREM NeverEarly == ASSUME \A u \in Units : u[2] % u[1] = 0 PROVE Spec => []NotEarly
<1>1. IInv => NotEarly
  BY DEF IInv, Timely, Finer
<1> QED
  BY <1>1, Inductive, PTL

\* A read returns the record after those returned before it, or the end of the log
\* after all of them (log.hpp:264-291: one mutex from the reading to the end of the wait).
THEOREM InOrder == Spec => NoOvertaking
<1> DEFINE A == returned' # returned =>
                  returned.record < returned'.record \/ {returned.record, returned'.record} = {End}
<1>1. ASSUME IInv, [Next]_vars PROVE [A]_vars
  <2>0. /\ taken \in Nat /\ Len(times) \in Nat /\ taken <= Len(times) /\ Len(times) <= MaxWrites
        /\ returned.record \in 0 .. End
        /\ returned.record # End => returned.record <= taken
        /\ returned.record = End => taken = Len(times)
    BY <1>1 DEF IInv, TypeOK, Recording, Order
  <2>1. ASSUME NEW r \in Reader, ReadRecord(r), returned' # returned PROVE A
    <3>1. returned'.record = Found
      BY <2>1 DEF ReadRecord, Return
    <3> QED
      BY <2>0, <3>1, Consts DEF Found
  <2>2. ASSUME NEW r \in Reader, Wait(r), returned' # returned PROVE A
    <3>1. returned'.record = record[r] /\ Holding(r)
      BY <2>2 DEF Wait, Return, Holding
    <3>2. \/ record[r] = End /\ taken = Len(times)
          \/ record[r] = taken /\ taken > 0 /\ returned.record < taken
      BY <1>1, <3>1 DEF IInv, Order
    <3> QED
      BY <2>0, <3>1, <3>2, Consts
  <2>3. ASSUME NEW r \in Reader, Lock(r) \/ Wake(r) PROVE returned' = returned
    BY <2>3 DEF Lock, Wake
  <2>4. Tick \/ Write \/ FirstTime \/ WriteTime \/ Open \/ (\E sync \in BOOLEAN : SyncTime(sync)) =>
          returned' = returned
    BY DEF Tick, Write, FirstTime, WriteTime, Open, SyncTime, reading
  <2>5. UNCHANGED vars => returned' = returned
    BY DEF vars, reading
  <2> QED
    BY <1>1, <2>1, <2>2, <2>3, <2>4, <2>5 DEF Next, ReaderStep
<1> QED
  BY <1>1, Inductive, PTL DEF Spec, NoOvertaking
=============================================================================
