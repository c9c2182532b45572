-------------------------- MODULE ControllerProofs --------------------------
(***************************************************************************)
(* Proofs about Controller: for controllers with any delimiters, the       *)
(* default ones among them, any number of calls, any segmentation of the   *)
(* answers and a connection that breaks anywhere, a call gets the answer   *)
(* to its own command, whole unless its echo ends like an answer, the      *)
(* device takes each command once and nothing is left that a later call    *)
(* takes for its own, provided that nobody sends before connect().         *)
(***************************************************************************)
EXTENDS Controller, SequenceTheorems, WellFoundedInduction, FiniteSetTheorems, TLAPS

\* What the device sends for the present call, and what is left of it behind the echo.
Mine == Reply(self, <<Ask(calls)>>, calls)
Rest == Body(calls) \o RESPONSE_END

Begins(text, whole) == \E n \in 0 .. Len(whole) : text = SubSeq(whole, 1, n)

\* Where the answer to the present call is while `istream' is good. In a segmentation that is
\* still going on it is in istreamBuffer and toHost, or all that will ever come has come.
Segments ==
  /\ pc \in {"idle", "write", "log"} => toHost = <<>> /\ ~Found(istreamBuffer, RESPONSE_END)
  /\ pc = "readUntil" =>
       \/ toHost = <<>> /\ ~Found(istreamBuffer, RESPONSE_END)
       \/ Begins(istreamBuffer \o toHost, Mine)
  /\ pc = "getCommand" =>
       Found(istreamBuffer, RESPONSE_END) /\ Begins(istreamBuffer \o toHost, Mine)
  /\ pc = "getOutput" =>
       /\ Begins(istreamBuffer \o toHost, Rest)
       /\ EndsOnce(self) => istreamBuffer = Rest /\ toHost = <<>>

\* Only an echo that ends like an answer brings `istream' to its end.
Incoming ==
  /\ EndsOnce(self) => istreamGood
  /\ istreamGood => Segments
  /\ pc \in {"readUntil", "getCommand", "getOutput"} => readResponse
  /\ pc = "getCommand" => readCommand
  /\ pc = "log" /\ readResponse => IsAnswer(deviceOutput, calls)

\* Until a call throws the buffers hold nothing but what the present call has put there.
NoThrow == Threw \notin {results[i] : i \in DOMAIN results}
Own == IF readResponse THEN Ask(calls) ELSE AskQuietly(calls)
Clean ==
  /\ link # "down" => NoThrow
  /\ NoThrow =>
       /\ pc # "write" => deviceInput = <<>> /\ ostreamBuffer = <<>>
       /\ pc = "write" => ostreamBuffer = <<Own>> \o REQUEST_END
       /\ istreamGood /\ pc \in {"idle", "write", "log"} => istreamBuffer = <<>>

\* A text of whole requests.
IsCommand(x) == x[1] \in {"command", "quiet"}
Requests(text, end) ==
  /\ text # <<>> => IsCommand(text[1])
  /\ \A p \in 1 .. Len(text) : IsCommand(text[p]) =>
       /\ p + Len(end) <= Len(text)
       /\ \A q \in 1 .. Len(end) : text[p + q] = end[q]
       /\ p + Len(end) < Len(text) => IsCommand(text[p + Len(end) + 1])

\* The device has whole requests before it. While `istream' is good a call has its answer before
\* the next one begins, and the last request may be the present call's.
Last == IF pc = "write" THEN calls - 1 ELSE calls
Pending ==
  /\ \A p \in 1 .. Len(toDevice) : toDevice[p][1] = "command" =>
       pc = "readUntil" /\ p + Len(REQUEST_END) = Len(toDevice)
  /\ pc = "readUntil" =>
       \/ toDevice = <<>> /\ istreamBuffer \o toHost = Mine
       \/ /\ toDevice # <<>> /\ istreamBuffer = <<>> /\ toHost = <<>>
          /\ \A p \in 1 .. Len(toDevice) :
               p + Len(REQUEST_END) = Len(toDevice) => toDevice[p] = Ask(calls)
Outgoing ==
  /\ link = "none" => pc = "idle" /\ toDevice = <<>>
  /\ link = "up" => Requests(toDevice, REQUEST_END) /\ (istreamGood => Pending)
InOrder ==
  /\ CommandsSentOnce
  /\ \A i \in DOMAIN answered : answered[i][1][2] <= Last
  /\ link = "up" =>
       \A p \in 1 .. Len(toDevice) : IsCommand(toDevice[p]) =>
         /\ toDevice[p][2] \in 1 .. Last
         /\ \A i \in DOMAIN answered : answered[i][1][2] < toDevice[p][2]
         /\ \A q \in 1 .. p - 1 : IsCommand(toDevice[q]) => toDevice[q][2] < toDevice[p][2]

IInv == TypeOK /\ (~SendsEarly => Incoming /\ Clean /\ Outgoing /\ InOrder /\ OwnResponse)

-----------------------------------------------------------------------------
(* Texts and the delimiters in them *)

LEMMA FirstEndIsFirst ==
  ASSUME NEW S, NEW text \in Seq(S), NEW delim \in Seq(S), Found(text, delim)
  PROVE  /\ FirstEnd(text, delim) \in Len(delim) .. Len(text)
         /\ SubSeq(text, FirstEnd(text, delim) - Len(delim) + 1, FirstEnd(text, delim)) = delim
         /\ \A i \in Ends(text, delim) : FirstEnd(text, delim) <= i
<1>1. Ends(text, delim) \in SUBSET Nat
  BY DEF Ends
<1>2. PICK n \in Ends(text, delim) : TRUE
  BY DEF Found
<1>3. \E m \in Ends(text, delim) : \A i \in Ends(text, delim) : m <= i
  <2>1. Ends(text, delim) # {}
    BY <1>2
  <2>2. PICK m \in Ends(text, delim) :
          \A i \in Ends(text, delim) : ~ (<<i, m>> \in OpToRel(<, Nat))
    BY <1>1, <2>1, WFMin, NatLessThanWellFounded
  <2>3. ASSUME NEW i \in Ends(text, delim), i < m
        PROVE  FALSE
    <3>1. <<i, m>> \in Nat \X Nat /\ <<i, m>>[1] < <<i, m>>[2]
      BY <1>1, <2>3
    <3>2. <<i, m>> \in OpToRel(<, Nat)
      BY <3>1, Zenon DEF OpToRel
    <3> QED
      BY <2>2, <3>2
  <2> QED
    BY <1>1, <2>3
<1>4. FirstEnd(text, delim) \in Ends(text, delim)
      /\ \A i \in Ends(text, delim) : FirstEnd(text, delim) <= i
  BY <1>3 DEF FirstEnd
<1> QED
  BY <1>4 DEF Ends

\* A text with a delimiter is what is before it, the delimiter and what is after it.
LEMMA SplitText ==
  ASSUME NEW S, NEW text \in Seq(S), NEW delim \in Seq(S), Found(text, delim)
  PROVE  /\ Before(text, delim) \in Seq(S)
         /\ After(text, delim) \in Seq(S)
         /\ Len(After(text, delim)) = Len(text) - FirstEnd(text, delim)
         /\ text = (Before(text, delim) \o delim) \o After(text, delim)
<1> DEFINE e == FirstEnd(text, delim)
<1>1. e \in Len(delim) .. Len(text) /\ SubSeq(text, e - Len(delim) + 1, e) = delim
  BY FirstEndIsFirst
<1>2. Len(text) \in Nat /\ Len(delim) \in Nat
  OBVIOUS
<1> HIDE DEF e
<1>3. /\ 1 \in 1 .. Len(text) + 1 /\ e - Len(delim) \in 1 - 1 .. Len(text)
      /\ e \in e - Len(delim) .. Len(text)
      /\ e \in 1 - 1 .. Len(text) /\ Len(text) \in e .. Len(text)
  BY <1>1, <1>2
<1>4. SubSeq(text, 1, e - Len(delim)) \o SubSeq(text, (e - Len(delim)) + 1, e) = SubSeq(text, 1, e)
  BY <1>3, ConcatAdjacentSubSeq
<1>5. SubSeq(text, 1, e) \o SubSeq(text, e + 1, Len(text)) = SubSeq(text, 1, Len(text))
  BY <1>3, ConcatAdjacentSubSeq
<1>6. SubSeq(text, 1, Len(text)) = text
  BY SubSeqFull
<1>7. /\ SubSeq(text, 1, e - Len(delim)) \in Seq(S)
      /\ SubSeq(text, e + 1, Len(text)) \in Seq(S)
      /\ Len(SubSeq(text, e + 1, Len(text))) = Len(text) - e
  BY <1>1, <1>2
<1> QED
  BY <1>1, <1>4, <1>5, <1>6, <1>7 DEF Before, After, e

LEMMA DelimiterInPrefix ==
  ASSUME NEW S, NEW text \in Seq(S), NEW delim \in Seq(S), NEW n \in 0 .. Len(text)
  PROVE  Ends(SubSeq(text, 1, n), delim) \subseteq {i \in Ends(text, delim) : i <= n}
<1> DEFINE start == SubSeq(text, 1, n)
<1>1. start \in Seq(S) /\ Len(start) = n /\ Len(delim) \in Nat /\ Len(text) \in Nat
      /\ \A i \in 1 .. n : start[i] = text[i]
  OBVIOUS
<1> HIDE DEF start
<1>2. ASSUME NEW i \in Ends(start, delim)
      PROVE  i \in Ends(text, delim) /\ i <= n
  <2>1. i \in Len(delim) .. n /\ SubSeq(start, i - Len(delim) + 1, i) = delim
    BY <1>1, <1>2 DEF Ends
  <2>2. SubSeq(text, i - Len(delim) + 1, i) = SubSeq(start, i - Len(delim) + 1, i)
    <3> DEFINE m == i - Len(delim) + 1
    <3>1. m \in Nat /\ m >= 1 /\ i \in Nat /\ i <= n /\ n <= Len(text)
      BY <1>1, <2>1
    <3> HIDE DEF m
    <3>2. SubSeq(text, m, i) = [j \in 1 .. i - m + 1 |-> text[m + j - 1]]
          /\ SubSeq(start, m, i) = [j \in 1 .. i - m + 1 |-> start[m + j - 1]]
      BY <1>1, <3>1
    <3>3. \A j \in 1 .. i - m + 1 : start[m + j - 1] = text[m + j - 1]
      BY <1>1, <3>1
    <3>4. SubSeq(text, m, i) = SubSeq(start, m, i)
      BY <3>2, <3>3
    <3> QED
      BY <3>4 DEF m
  <2>3. i \in Len(delim) .. Len(text) /\ i <= n
    BY <1>1, <2>1
  <2> QED
    BY <2>1, <2>2, <2>3 DEF Ends
<1> QED
  BY <1>2 DEF start

LEMMA DelimiterInSuffix ==
  ASSUME NEW S, NEW head \in Seq(S), NEW text \in Seq(S), NEW delim \in Seq(S),
         NEW i \in Ends(text, delim)
  PROVE  Len(head) + i \in Ends(head \o text, delim)
<1> DEFINE d == Len(delim)  h == Len(head)  m == i - d + 1
<1>1. /\ h \in Nat /\ d \in Nat /\ Len(text) \in Nat /\ i \in d .. Len(text) /\ SubSeq(text, i - d + 1, i) = delim
      /\ head \o text \in Seq(S) /\ Len(head \o text) = h + Len(text)
      /\ \A j \in 1 .. Len(text) : (head \o text)[h + j] = text[j]
  BY DEF Ends
<1>2. SubSeq(head \o text, h + i - d + 1, h + i) = SubSeq(text, i - d + 1, i)
  <2>1. SubSeq(text, i - d + 1, i) = [j \in 1 .. d |-> text[i - d + j]]
    BY <1>1
  <2>2. SubSeq(head \o text, h + i - d + 1, h + i) = [j \in 1 .. d |-> (head \o text)[h + (i - d + j)]]
    BY <1>1
  <2>3. \A j \in 1 .. d : (head \o text)[h + (i - d + j)] = text[i - d + j]
    BY <1>1
  <2> QED
    BY <2>1, <2>2, <2>3
<1>3. h + i \in d .. Len(head \o text)
  BY <1>1
<1>4. SubSeq(head \o text, h + i - d + 1, h + i) = delim
  BY <1>1, <1>2
<1> QED
  BY <1>3, <1>4 DEF Ends

\* What the first delimiter separates when it ends at e and nowhere before.
LEMMA FirstDelimiter ==
  ASSUME NEW S, NEW text \in Seq(S), NEW delim \in Seq(S), NEW e \in Ends(text, delim),
         \A i \in Ends(text, delim) : e <= i
  PROVE  /\ Found(text, delim)
         /\ Before(text, delim) = SubSeq(text, 1, e - Len(delim))
         /\ After(text, delim) = SubSeq(text, e + 1, Len(text))
<1>1. Found(text, delim)
  BY DEF Found
<1>2. Ends(text, delim) \subseteq Nat
  BY DEF Ends
<1>3. FirstEnd(text, delim) \in Ends(text, delim)
      /\ \A i \in Ends(text, delim) : FirstEnd(text, delim) <= i
  <2>1. /\ FirstEnd(text, delim) \in Len(delim) .. Len(text)
        /\ SubSeq(text, FirstEnd(text, delim) - Len(delim) + 1, FirstEnd(text, delim)) = delim
        /\ \A i \in Ends(text, delim) : FirstEnd(text, delim) <= i
    BY <1>1, FirstEndIsFirst
  <2>2. FirstEnd(text, delim) \in Ends(text, delim)
    BY <2>1 DEF Ends
  <2> QED
    BY <2>1, <2>2
<1>4. FirstEnd(text, delim) = e
  BY <1>2, <1>3
<1> QED
  BY <1>1, <1>4 DEF Before, After

\* A command in front of its delimiter.
LEMMA FirstLine ==
  ASSUME NEW S, NEW x \in S, NEW rest \in Seq(S), NEW delim \in Seq(S),
         delim # <<>>, x # delim[1]
  PROVE  /\ Found((<<x>> \o delim) \o rest, delim)
         /\ Before((<<x>> \o delim) \o rest, delim) = <<x>>
         /\ After((<<x>> \o delim) \o rest, delim) = rest
<1> DEFINE text == (<<x>> \o delim) \o rest  d == Len(delim)
<1>1. /\ d \in Nat /\ d >= 1 /\ Len(rest) \in Nat
      /\ text \in Seq(S) /\ Len(text) = 1 + d + Len(rest)
      /\ text[1] = x
      /\ \A j \in 1 .. d : text[1 + j] = delim[j]
      /\ \A j \in 1 .. Len(rest) : text[1 + d + j] = rest[j]
  <2>1. <<x>> \o delim \in Seq(S) /\ Len(<<x>> \o delim) = 1 + d
    OBVIOUS
  <2> QED
    BY <2>1
<1> HIDE DEF text
<1>2. 1 + d \in Ends(text, delim)
  <2>1. SubSeq(text, 2, 1 + d) \in Seq(S) /\ Len(SubSeq(text, 2, 1 + d)) = d
        /\ \A j \in 1 .. d : SubSeq(text, 2, 1 + d)[j] = text[1 + j]
    BY <1>1
  <2>2. SubSeq(text, 2, 1 + d) = delim
    BY <1>1, <2>1, SeqEqual
  <2>3. 1 + d - d + 1 = 2
    BY <1>1
  <2> QED
    BY <1>1, <2>2, <2>3 DEF Ends
<1>3. ASSUME NEW i \in Ends(text, delim) PROVE 1 + d <= i
  <2>1. i \in d .. Len(text) /\ SubSeq(text, i - d + 1, i) = delim
    BY <1>1 DEF Ends
  <2>2. SUFFICES ASSUME i = d PROVE FALSE
    <3>1. i \in Nat /\ d <= i /\ d \in Nat
      BY <1>1, <2>1
    <3> QED
      BY <3>1
  <2>3. SubSeq(text, 1, d)[1] = text[1]
    BY <1>1
  <2>4. i - d + 1 = 1
    BY <1>1, <2>2
  <2> QED
    BY <1>1, <2>1, <2>2, <2>3, <2>4
<1>4. /\ Found(text, delim)
      /\ Before(text, delim) = SubSeq(text, 1, 1 + d - d)
      /\ After(text, delim) = SubSeq(text, 1 + d + 1, Len(text))
  <2> DEFINE e == 1 + d
  <2>1. e \in Ends(text, delim) /\ (\A i \in Ends(text, delim) : e <= i) /\ text \in Seq(S)
    BY <1>1, <1>2, <1>3
  <2> HIDE DEF e
  <2>2. /\ Found(text, delim)
        /\ Before(text, delim) = SubSeq(text, 1, e - d)
        /\ After(text, delim) = SubSeq(text, e + 1, Len(text))
    BY <2>1, FirstDelimiter
  <2> QED
    BY <2>2 DEF e
<1>5. SubSeq(text, 1, 1 + d - d) = <<x>>
  <2>1. 1 + d - d = 1
    BY <1>1
  <2>2. SubSeq(text, 1, 1) \in Seq(S) /\ Len(SubSeq(text, 1, 1)) = 1 /\ SubSeq(text, 1, 1)[1] = x
    BY <1>1
  <2>3. <<x>> \in Seq(S) /\ Len(<<x>>) = 1 /\ <<x>>[1] = x
    OBVIOUS
  <2>4. SubSeq(text, 1, 1) = <<x>>
    <3>1. \A i \in 1 .. Len(SubSeq(text, 1, 1)) : SubSeq(text, 1, 1)[i] = <<x>>[i]
      BY <2>2, <2>3
    <3> QED
      BY <2>2, <2>3, <3>1, SeqEqual
  <2> QED
    BY <2>1, <2>4
<1>6. SubSeq(text, 1 + d + 1, Len(text)) = rest
  <2> DEFINE end == SubSeq(text, 1 + d + 1, Len(text))
  <2>1. end \in Seq(S) /\ Len(end) = Len(rest)
        /\ \A j \in 1 .. Len(rest) : end[j] = text[1 + d + j]
    BY <1>1
  <2> HIDE DEF end
  <2>2. rest \in Seq(S) /\ \A j \in 1 .. Len(end) : end[j] = rest[j]
    BY <1>1, <2>1
  <2>3. end = rest
    BY <2>1, <2>2, SeqEqual
  <2> QED
    BY <2>3 DEF end
<1> QED
  BY <1>4, <1>5, <1>6 DEF text

\* A text that ends with its only delimiter.
LEMMA OnlyLine ==
  ASSUME NEW S, NEW text \in Seq(S), NEW delim \in Seq(S),
         Ends(text \o delim, delim) = {Len(text \o delim)}
  PROVE  /\ Found(text \o delim, delim)
         /\ Before(text \o delim, delim) = text
         /\ After(text \o delim, delim) = <<>>
<1> DEFINE whole == text \o delim  e == Len(text \o delim)
<1>1. whole \in Seq(S) /\ Len(whole) = Len(text) + Len(delim)
      /\ Len(text) \in Nat /\ Len(delim) \in Nat
      /\ \A i \in 1 .. Len(text) : whole[i] = text[i]
  OBVIOUS
<1> HIDE DEF whole
<1>2. /\ Found(whole, delim)
      /\ Before(whole, delim) = SubSeq(whole, 1, Len(whole) - Len(delim))
      /\ After(whole, delim) = SubSeq(whole, Len(whole) + 1, Len(whole))
  <2>1. Len(whole) \in Ends(whole, delim) /\ \A i \in Ends(whole, delim) : Len(whole) <= i
    <3>1. Ends(whole, delim) = {Len(whole)}
      BY DEF whole
    <3> QED
      BY <1>1, <3>1
  <2> QED
    BY <1>1, <2>1, FirstDelimiter
<1>3. SubSeq(whole, 1, Len(whole) - Len(delim)) = text
  <2>1. Len(whole) - Len(delim) = Len(text)
    BY <1>1
  <2>2. SubSeq(whole, 1, Len(text)) \in Seq(S) /\ Len(SubSeq(whole, 1, Len(text))) = Len(text)
        /\ \A i \in 1 .. Len(text) : SubSeq(whole, 1, Len(text))[i] = whole[i]
    BY <1>1
  <2> QED
    BY <1>1, <2>1, <2>2, SeqEqual
<1>4. SubSeq(whole, Len(whole) + 1, Len(whole)) = <<>>
  BY <1>1, SubSeqEmpty
<1> QED
  BY <1>2, <1>3, <1>4 DEF whole

-----------------------------------------------------------------------------
(* Types *)

\* The front of a text, and of a text that begins another one.
LEMMA TakeFront ==
  ASSUME NEW S, NEW a \in Seq(S), NEW b \in Seq(S)
  PROVE  a = SubSeq(a \o b, 1, Len(a)) /\ Len(a) \in 0 .. Len(a \o b)
<1>1. /\ a \o b \in Seq(S) /\ Len(a \o b) = Len(a) + Len(b) /\ Len(a) \in Nat /\ Len(b) \in Nat
      /\ \A i \in 1 .. Len(a) : (a \o b)[i] = a[i]
  OBVIOUS
<1>2. /\ SubSeq(a \o b, 1, Len(a)) \in Seq(S) /\ Len(SubSeq(a \o b, 1, Len(a))) = Len(a)
      /\ \A i \in 1 .. Len(a) : SubSeq(a \o b, 1, Len(a))[i] = (a \o b)[i]
  BY <1>1
<1> QED
  BY <1>1, <1>2, SeqEqual

LEMMA FrontBegins ==
  ASSUME NEW S, NEW a \in Seq(S), NEW b \in Seq(S), NEW whole \in Seq(S), Begins(a \o b, whole)
  PROVE  Begins(a, whole)
<1>1. PICK n \in 0 .. Len(whole) : a \o b = SubSeq(whole, 1, n)
  BY DEF Begins
<1>2. /\ Len(SubSeq(whole, 1, n)) = n /\ n \in Nat /\ Len(a \o b) = Len(a) + Len(b)
      /\ Len(a) \in Nat /\ Len(b) \in Nat /\ Len(whole) \in Nat
      /\ \A i \in 1 .. n : SubSeq(whole, 1, n)[i] = whole[i]
      /\ \A i \in 1 .. Len(a) : (a \o b)[i] = a[i]
  OBVIOUS
<1>3. Len(a) <= n /\ Len(a) \in 0 .. Len(whole)
  BY <1>1, <1>2
<1>4. /\ SubSeq(whole, 1, Len(a)) \in Seq(S) /\ Len(SubSeq(whole, 1, Len(a))) = Len(a)
      /\ \A i \in 1 .. Len(a) : SubSeq(whole, 1, Len(a))[i] = whole[i]
  BY <1>3
<1>5. \A i \in 1 .. Len(a) : a[i] = whole[i]
  BY <1>1, <1>2, <1>3
<1>6. a = SubSeq(whole, 1, Len(a))
  BY <1>4, <1>5, SeqEqual
<1> QED
  BY <1>3, <1>6 DEF Begins

LEMMA CutShort ==
  ASSUME NEW S, NEW a \in Seq(S), NEW b \in Seq(S), NEW whole \in Seq(S), NEW kept \in 0 .. Len(b),
         Begins(a \o b, whole)
  PROVE  Begins(a \o SubSeq(b, 1, kept), whole)
<1> DEFINE front == SubSeq(b, 1, kept)  back == SubSeq(b, kept + 1, Len(b))
<1>1. front \in Seq(S) /\ back \in Seq(S) /\ Len(b) \in Nat
  OBVIOUS
<1>2. front \o back = b
  <2>1. 1 \in 1 .. Len(b) + 1 /\ kept \in 1 - 1 .. Len(b) /\ Len(b) \in kept .. Len(b)
    BY <1>1
  <2> QED
    BY <2>1, ConcatAdjacentSubSeq, SubSeqFull
<1> HIDE DEF front, back
<1>3. (a \o front) \o back = a \o b /\ a \o front \in Seq(S)
  <2>1. a \in Seq(S) /\ front \in Seq(S) /\ back \in Seq(S)
    BY <1>1
  <2>2. (a \o front) \o back = a \o (front \o back)
    BY <2>1, ConcatAssociative
  <2> QED
    BY <1>2, <2>1, <2>2
<1>4. Begins(a \o front, whole)
  BY <1>1, <1>3, FrontBegins
<1> QED
  BY <1>4 DEF front

\* What is behind a front of its own length or more.
LEMMA BehindFront ==
  ASSUME NEW S, NEW head \in Seq(S), NEW rest \in Seq(S), NEW a \in Seq(S), NEW b \in Seq(S),
         Begins(a \o b, head \o rest), Len(head) <= Len(a)
  PROVE  LET c == SubSeq(a, Len(head) + 1, Len(a))
         IN  c \in Seq(S) /\ a = head \o c /\ Begins(c \o b, rest)
<1> DEFINE h == Len(head)  whole == head \o rest  c == SubSeq(a, h + 1, Len(a))
<1>1. PICK n \in 0 .. Len(whole) : a \o b = SubSeq(whole, 1, n)
  BY DEF Begins
<1>2. /\ whole \in Seq(S) /\ Len(whole) = h + Len(rest) /\ h \in Nat /\ Len(rest) \in Nat
      /\ Len(a) \in Nat /\ Len(b) \in Nat /\ a \o b \in Seq(S) /\ Len(a \o b) = Len(a) + Len(b)
      /\ \A i \in 1 .. h : whole[i] = head[i]
      /\ \A i \in 1 .. Len(rest) : whole[h + i] = rest[i]
      /\ \A i \in 1 .. Len(a) : (a \o b)[i] = a[i]
      /\ \A i \in 1 .. Len(b) : (a \o b)[Len(a) + i] = b[i]
  OBVIOUS
<1> HIDE DEF whole
<1>3. Len(SubSeq(whole, 1, n)) = n /\ \A i \in 1 .. n : SubSeq(whole, 1, n)[i] = whole[i]
  BY <1>2
<1>4. /\ n = Len(a) + Len(b) /\ n <= h + Len(rest)
      /\ \A i \in 1 .. Len(a) : a[i] = whole[i]
      /\ \A i \in 1 .. Len(b) : b[i] = whole[Len(a) + i]
  <2>1. n = Len(a) + Len(b)
    BY <1>1, <1>2, <1>3
  <2>2. \A i \in 1 .. Len(a) : i \in 1 .. n
    BY <1>2, <2>1
  <2>3. \A i \in 1 .. Len(b) : Len(a) + i \in 1 .. n
    BY <1>2, <2>1
  <2>4. \A i \in 1 .. n : (a \o b)[i] = whole[i]
    BY <1>1, <1>3
  <2>5. \A i \in 1 .. Len(a) : a[i] = whole[i]
    BY <1>2, <2>2, <2>4
  <2>6. \A i \in 1 .. Len(b) : b[i] = whole[Len(a) + i]
    BY <1>2, <2>3, <2>4
  <2>7. n <= h + Len(rest)
    BY <1>2
  <2> QED
    BY <2>1, <2>5, <2>6, <2>7
<1>5. c \in Seq(S) /\ Len(c) = Len(a) - h /\ \A i \in 1 .. Len(c) : c[i] = a[h + i]
  BY <1>2
<1> HIDE DEF c
<1>6. a = head \o c
  <2>1. /\ head \o c \in Seq(S) /\ Len(head \o c) = Len(a)
        /\ \A i \in 1 .. Len(a) : (head \o c)[i] = IF i <= h THEN head[i] ELSE c[i - h]
    <3>1. /\ head \o c \in Seq(S) /\ Len(head \o c) = h + Len(c)
          /\ \A i \in 1 .. h + Len(c) : (head \o c)[i] = IF i <= h THEN head[i] ELSE c[i - h]
      BY <1>5, ConcatProperties
    <3>2. h + Len(c) = Len(a)
      BY <1>2, <1>5
    <3> QED
      BY <3>1, <3>2
  <2>2. ASSUME NEW i \in 1 .. Len(a) PROVE a[i] = (head \o c)[i]
    <3>1. CASE i <= h
      BY <1>2, <1>4, <2>1, <3>1
    <3>2. CASE ~(i <= h)
      <4>1. i - h \in 1 .. Len(c) /\ h + (i - h) = i
        BY <1>2, <1>5, <3>2
      <4> QED
        BY <1>5, <2>1, <3>2, <4>1
    <3> QED
      BY <3>1, <3>2
  <2> QED
    BY <2>1, <2>2, SeqEqual
<1>7. c \o b = SubSeq(rest, 1, n - h)
  <2>1. n - h \in 0 .. Len(rest) /\ Len(c) + Len(b) = n - h /\ Len(c) \in Nat
    BY <1>2, <1>4, <1>5
  <2>2. /\ c \o b \in Seq(S) /\ Len(c \o b) = n - h
        /\ \A i \in 1 .. n - h : (c \o b)[i] = IF i <= Len(c) THEN c[i] ELSE b[i - Len(c)]
    <3>1. /\ c \o b \in Seq(S) /\ Len(c \o b) = Len(c) + Len(b)
          /\ \A i \in 1 .. Len(c) + Len(b) : (c \o b)[i] = IF i <= Len(c) THEN c[i] ELSE b[i - Len(c)]
      BY <1>5, ConcatProperties
    <3> QED
      BY <2>1, <3>1
  <2>3. /\ SubSeq(rest, 1, n - h) \in Seq(S) /\ Len(SubSeq(rest, 1, n - h)) = n - h
        /\ \A i \in 1 .. n - h : SubSeq(rest, 1, n - h)[i] = rest[i] /\ rest[i] = whole[h + i]
    BY <1>2, <2>1
  <2>4. ASSUME NEW i \in 1 .. n - h PROVE (c \o b)[i] = rest[i]
    <3>1. CASE i <= Len(c)
      <4>1. i \in 1 .. Len(c) /\ h + i \in 1 .. Len(a)
        BY <1>2, <1>5, <3>1
      <4> QED
        BY <1>4, <1>5, <2>2, <2>3, <3>1, <4>1
    <3>2. CASE ~(i <= Len(c))
      <4>1. i - Len(c) \in 1 .. Len(b) /\ Len(a) + (i - Len(c)) = h + i
        BY <1>2, <1>5, <2>1, <3>2
      <4> QED
        BY <1>4, <2>2, <2>3, <3>2, <4>1
    <3> QED
      BY <3>1, <3>2
  <2> QED
    BY <2>2, <2>3, <2>4, SeqEqual
<1> QED
  <2>1. n - h \in 0 .. Len(rest)
    BY <1>2, <1>4
  <2> QED
    BY <1>5, <1>6, <1>7, <2>1 DEF Begins, c

LEMMA CharType ==
  /\ LF \in Char /\ SUB \in Char /\ {LF, SUB} \subseteq Char /\ LF # SUB
  /\ \A k \in 0 .. MaxCalls : Ask(k) \in Char /\ AskQuietly(k) \in Char /\ <<"text", k>> \in Char
  /\ MaxCalls \in Nat
<1>1. MaxCalls \in Nat
  BY ControllerAssumption
<1>2. LF \in Char /\ SUB \in Char /\ LF # SUB
  BY <1>1 DEF LF, SUB, Char, Kind
<1>3. \A k \in 0 .. MaxCalls : Ask(k) \in Char /\ AskQuietly(k) \in Char /\ <<"text", k>> \in Char
  BY <1>1 DEF Ask, AskQuietly, Char, Kind
<1> QED
  BY <1>1, <1>2, <1>3

LEMMA DelimiterType ==
  ASSUME NEW c \in Controllers
  PROVE  /\ c.REQUEST_END \in Seq(Char) /\ c.REQUEST_END # <<>> /\ c.REQUEST_END \in Seq({LF, SUB})
         /\ c.RESPONSE_END \in Seq(Char) /\ c.RESPONSE_END # <<>>
         /\ c.body \in Seq({"lf", "text"}) /\ c.readCommand \in BOOLEAN
<1>1. /\ c.REQUEST_END \in Seq({LF, SUB}) /\ c.RESPONSE_END \in Seq({LF, SUB})
      /\ c.REQUEST_END # <<>> /\ c.RESPONSE_END # <<>>
      /\ c.body \in Seq({"lf", "text"}) /\ c.readCommand \in BOOLEAN
  BY ControllerAssumption
<1>2. c.REQUEST_END \in Seq(Char) /\ c.RESPONSE_END \in Seq(Char)
  BY <1>1, CharType, SeqMonotonic
<1> QED
  BY <1>1, <1>2

LEMMA TextType ==
  ASSUME NEW c \in Controllers, NEW k \in 0 .. MaxCalls
  PROVE  Text(c, k) \in Seq(Char)
<1>1. c.body \in Seq({"lf", "text"})
  BY DelimiterType
<1>2. Len(c.body) \in Nat /\ DOMAIN c.body = 1 .. Len(c.body)
  BY <1>1
<1>3. \A i \in 1 .. Len(c.body) : (IF c.body[i] = "lf" THEN LF ELSE <<"text", k>>) \in Char
  BY CharType
<1>4. Text(c, k) = [i \in 1 .. Len(c.body) |-> IF c.body[i] = "lf" THEN LF ELSE <<"text", k>>]
  BY <1>2 DEF Text
<1>5. Text(c, k) \in [1 .. Len(c.body) -> Char]
  BY <1>3, <1>4
<1> QED
  BY <1>2, <1>5

LEMMA ReplyType ==
  ASSUME NEW c \in Controllers, NEW line \in Seq(Char), NEW k \in 0 .. MaxCalls
  PROVE  Reply(c, line, k) \in Seq(Char)
<1>1. c.REQUEST_END \in Seq(Char) /\ c.RESPONSE_END \in Seq(Char) /\ Text(c, k) \in Seq(Char)
  BY DelimiterType, TextType
<1>2. line \o c.REQUEST_END \in Seq(Char) /\ Text(c, k) \o c.RESPONSE_END \in Seq(Char)
  BY <1>1
<1>3. (IF c.readCommand THEN line \o c.REQUEST_END ELSE <<>>) \in Seq(Char)
  BY <1>2
<1> QED
  BY <1>2, <1>3 DEF Reply

LEMMA TypeInit == Init => TypeOK
<1> SUFFICES ASSUME Init PROVE TypeOK
  OBVIOUS
<1>1. 0 \in 0 .. MaxCalls
  BY ControllerAssumption
<1>2. <<>> \in Seq(Char) /\ <<>> \in Seq([input : Seq(Char), output : Seq(Char)])
      /\ <<>> \in Seq([how : {"threw", "returned"}, asked : BOOLEAN, text : Seq(Char)])
      /\ <<>> \in Seq(Seq(Char)) /\ Len(<<>>) = 0
  OBVIOUS
<1>3. self \in Controllers /\ pc = "idle" /\ calls = 0 /\ returnsText = FALSE /\ readResponse = TRUE
      /\ istreamGood = TRUE /\ link = "none"
  BY DEF Init
<1>4. {deviceInput, ostreamBuffer, istreamBuffer, deviceOutput, input, output, toDevice, toHost} = {<<>>}
      /\ results = <<>> /\ log = <<>> /\ answered = <<>>
  BY DEF Init
<1> QED
  <2>1. {deviceInput, ostreamBuffer, istreamBuffer, deviceOutput, input, output, toDevice, toHost}
          \subseteq Seq(Char)
    BY <1>2, <1>4
  <2>2. Len(results) = 0 /\ results \in Seq([how : {"threw", "returned"}, asked : BOOLEAN, text : Seq(Char)])
    BY <1>2, <1>4
  <2>3. log \in Seq([input : Seq(Char), output : Seq(Char)]) /\ answered \in Seq(Seq(Char))
    BY <1>2, <1>4
  <2> QED
    BY <1>1, <1>3, <2>1, <2>2, <2>3 DEF TypeOK

LEMMA LineType ==
  ASSUME NEW delim \in Seq(Char), istreamBuffer \in Seq(Char), istreamGood \in BOOLEAN
  PROVE  /\ Line(delim) \in Seq(Char)
         /\ GetLine(delim) => istreamBuffer' \in Seq(Char) /\ istreamGood' \in BOOLEAN
<1>1. Found(istreamBuffer, delim) =>
        Before(istreamBuffer, delim) \in Seq(Char) /\ After(istreamBuffer, delim) \in Seq(Char)
  BY SplitText
<1>2. Line(delim) \in Seq(Char)
  BY <1>1 DEF Line
<1>3. ASSUME GetLine(delim) PROVE istreamBuffer' \in Seq(Char) /\ istreamGood' \in BOOLEAN
  <2>1. istreamGood' \in BOOLEAN
    BY <1>3 DEF GetLine
  <2>2. istreamBuffer' \in Seq(Char)
    BY <1>1, <1>3 DEF GetLine
  <2> QED
    BY <2>1, <2>2
<1> QED
  BY <1>2, <1>3

Result == [how : {"threw", "returned"}, asked : BOOLEAN, text : Seq(Char)]
LEMMA ResultType ==
  ASSUME results \in Seq(Result), Len(results) = calls - 1, calls \in 0 .. MaxCalls
  PROVE  /\ results' = Append(results, Threw) => results' \in Seq(Result) /\ Len(results') = calls
         /\ \A asked \in BOOLEAN, text \in Seq(Char) :
              results' = Append(results, Returned(asked, text)) =>
                results' \in Seq(Result) /\ Len(results') = calls
<1>1. Threw \in Result /\ \A asked \in BOOLEAN, text \in Seq(Char) : Returned(asked, text) \in Result
  BY DEF Threw, Returned, Result
<1>2. \A r \in Result : Append(results, r) \in Seq(Result) /\ Len(Append(results, r)) = calls
  BY AppendProperties
<1> QED
  BY <1>1, <1>2

LEMMA TypeNext == TypeOK /\ [Next]_vars => TypeOK'
<1> SUFFICES ASSUME TypeOK, [Next]_vars PROVE TypeOK'
  OBVIOUS
<1> DEFINE request == self.REQUEST_END  response == self.RESPONSE_END
<1>0. /\ self \in Controllers /\ calls \in 0 .. MaxCalls
      /\ pc # "idle" => Len(results) = calls - 1
      /\ deviceInput \in Seq(Char) /\ ostreamBuffer \in Seq(Char) /\ istreamBuffer \in Seq(Char)
      /\ deviceOutput \in Seq(Char) /\ input \in Seq(Char) /\ output \in Seq(Char)
      /\ toDevice \in Seq(Char) /\ toHost \in Seq(Char) /\ results \in Seq(Result)
      /\ log \in Seq([input : Seq(Char), output : Seq(Char)]) /\ answered \in Seq(Seq(Char))
      /\ istreamGood \in BOOLEAN /\ returnsText \in BOOLEAN /\ readResponse \in BOOLEAN
      /\ request \in Seq(Char) /\ response \in Seq(Char)
      /\ self.readCommand \in BOOLEAN /\ MaxCalls \in Nat
  BY DelimiterType, CharType DEF TypeOK, Result
<1> HIDE DEF request, response
<1>1. ASSUME NEW text \in BOOLEAN, NEW answers \in BOOLEAN, Call(text, answers)
      PROVE  TypeOK'
  <2> DEFINE x == IF answers THEN Ask(calls + 1) ELSE AskQuietly(calls + 1)
  <2>1. calls + 1 \in 0 .. MaxCalls
    <3>1. calls < MaxCalls
      BY <1>1 DEF Call
    <3> QED
      BY <1>0, <3>1
  <2>2. x \in Char
    BY <2>1, CharType
  <2> HIDE DEF x
  <2>3. deviceInput' = deviceInput \o <<x>> \o request /\ input' = deviceInput'
        /\ ostreamBuffer' = ostreamBuffer \o input'
    BY <1>1 DEF Call, x, request, REQUEST_END
  <2>4. deviceInput' \in Seq(Char)
    BY <1>0, <2>2, <2>3
  <2>5. input' \in Seq(Char) /\ ostreamBuffer' \in Seq(Char) /\ output' \in Seq(Char)
    BY <1>0, <1>1, <2>3, <2>4 DEF Call
  <2>6. /\ pc = "idle" /\ pc' = "write" /\ calls' = calls + 1 /\ returnsText' = text
        /\ readResponse' = answers
        /\ UNCHANGED <<self, istreamBuffer, istreamGood, deviceOutput, results, log, link, toDevice,
                       toHost, answered>>
    BY <1>1 DEF Call, Goto, network
  <2> QED
    BY <1>0, <2>1, <2>4, <2>5, <2>6 DEF TypeOK
<1>2. CASE Write
  <2>1. /\ pc = "write" /\ pc' \in {"readUntil", "log"} /\ ostreamBuffer' = <<>> /\ deviceInput' = <<>>
        /\ UNCHANGED <<locals, istreamBuffer, istreamGood, deviceOutput, results, log, link, toHost,
                       answered>>
    BY <1>2 DEF Write, Goto
  <2>2. toDevice' \in Seq(Char)
    BY <1>0, <1>2 DEF Write
  <2> QED
    BY <1>0, <2>1, <2>2 DEF TypeOK, locals
<1>3. ASSUME NEW n \in 1 .. Len(toHost), ReadSome(n)
      PROVE  TypeOK'
  <2>1. SubSeq(toHost, 1, n) \in Seq(Char) /\ SubSeq(toHost, n + 1, Len(toHost)) \in Seq(Char)
    BY <1>0
  <2>2. istreamBuffer' \in Seq(Char) /\ toHost' \in Seq(Char)
    <3> DEFINE a == SubSeq(toHost, 1, n)
    <3>1. istreamBuffer' = istreamBuffer \o a /\ toHost' = SubSeq(toHost, n + 1, Len(toHost))
      BY <1>3 DEF ReadSome
    <3>2. a \in Seq(Char) /\ istreamBuffer \in Seq(Char)
      BY <1>0, <2>1
    <3> HIDE DEF a
    <3>3. istreamBuffer \o a \in Seq(Char)
      BY <3>2
    <3> QED
      BY <2>1, <3>1, <3>3
  <2>3. UNCHANGED <<pc, locals, deviceInput, ostreamBuffer, istreamGood, deviceOutput, results,
                    log, link, toDevice, answered>>
    BY <1>3 DEF ReadSome
  <2> QED
    BY <1>0, <2>2, <2>3 DEF TypeOK, locals
<1>4. CASE ReadUntil
  BY <1>0, <1>4 DEF ReadUntil, Goto, TypeOK, locals, buffers, network
<1>5. CASE GetCommand
  <2>1. istreamBuffer' \in Seq(Char) /\ istreamGood' \in BOOLEAN
    BY <1>0, <1>5, LineType DEF GetCommand, request, REQUEST_END
  <2>2. pc = "getCommand" /\ pc' = "getOutput"
        /\ UNCHANGED <<locals, deviceInput, ostreamBuffer, deviceOutput, results, log, network>>
    BY <1>5 DEF GetCommand, Goto
  <2> QED
    BY <1>0, <2>1, <2>2 DEF TypeOK, locals, network
<1>6. CASE GetOutput
  <2>1. istreamBuffer' \in Seq(Char) /\ istreamGood' \in BOOLEAN
        /\ output' \in Seq(Char) /\ deviceOutput' \in Seq(Char)
    BY <1>0, <1>6, LineType DEF GetOutput, response, RESPONSE_END
  <2>2. pc = "getOutput" /\ pc' = "log"
        /\ UNCHANGED <<self, calls, returnsText, readResponse, input, deviceInput, ostreamBuffer,
                       results, log, network>>
    BY <1>6 DEF GetOutput, Goto
  <2> QED
    BY <1>0, <2>1, <2>2 DEF TypeOK, network
<1>7. ASSUME NEW taken \in 0 .. Len(deviceOutput), Finish(taken)
      PROVE  TypeOK'
  <2>1. [input |-> input, output |-> output] \in [input : Seq(Char), output : Seq(Char)]
    BY <1>0
  <2>2. log' \in Seq([input : Seq(Char), output : Seq(Char)])
    BY <1>0, <1>7, <2>1 DEF Finish
  <2>3. pc = "log" /\ pc' = "idle"
        /\ UNCHANGED <<locals, deviceInput, ostreamBuffer, istreamBuffer, istreamGood, network>>
    BY <1>7 DEF Finish, Goto
  <2>4. results' \in Seq(Result) /\ Len(results') = calls
    <3> DEFINE asked == returnsText /\ readResponse  text == IF returnsText THEN deviceOutput ELSE <<>>
    <3>1. asked \in BOOLEAN /\ text \in Seq(Char)
      BY <1>0
    <3>2. results' = Append(results, Returned(asked, text))
      BY <1>7 DEF Finish
    <3> HIDE DEF asked, text
    <3>3. Len(results) = calls - 1
      BY <1>0, <2>3
    <3> QED
      BY <1>0, <3>1, <3>2, <3>3, ResultType
  <2>5. deviceOutput' \in Seq(Char)
    BY <1>0, <1>7 DEF Finish, TakesOutput
  <2> QED
    BY <1>0, <2>2, <2>3, <2>4, <2>5 DEF TypeOK, locals, network, Result
<1>8. ASSUME NEW sent \in 0 .. Len(ostreamBuffer), WriteFails(sent)
      PROVE  TypeOK'
  <2>1. pc = "write" /\ pc' = "idle" /\ results' = Append(results, Threw)
        /\ UNCHANGED <<locals, deviceInput, istreamBuffer, istreamGood, deviceOutput, log, toHost,
                       answered>>
    BY <1>8 DEF WriteFails, Throw, Goto
  <2>2. results' \in Seq(Result) /\ Len(results') = calls
    <3>1. Len(results) = calls - 1
      BY <1>0, <2>1
    <3> QED
      BY <1>0, <2>1, <3>1, ResultType
  <2>3. SubSeq(ostreamBuffer, 1, sent) \in Seq(Char)
        /\ SubSeq(ostreamBuffer, sent + 1, Len(ostreamBuffer)) \in Seq(Char)
    BY <1>0
  <2>4. toDevice' \in Seq(Char) /\ ostreamBuffer' \in Seq(Char)
    BY <1>0, <1>8, <2>3 DEF WriteFails
  <2>5. link' \in {"none", "up", "down"}
    BY <1>8 DEF WriteFails, TypeOK
  <2> QED
    BY <1>0, <2>1, <2>2, <2>4, <2>5 DEF TypeOK, locals, Result
<1>9. CASE ReadFails
  <2>1. pc = "readUntil" /\ pc' = "idle" /\ results' = Append(results, Threw)
        /\ UNCHANGED <<locals, buffers, log, network>>
    BY <1>9 DEF ReadFails, Throw, Goto
  <2>2. results' \in Seq(Result) /\ Len(results') = calls
    <3>1. Len(results) = calls - 1
      BY <1>0, <2>1
    <3> QED
      BY <1>0, <2>1, <3>1, ResultType
  <2> QED
    BY <1>0, <2>1, <2>2 DEF TypeOK, locals, buffers, network, Result
<1>10. CASE Connect
  BY <1>0, <1>10 DEF Connect, TypeOK, locals, buffers
<1>11. CASE DeviceAnswers
  <2> DEFINE line == Before(toDevice, request)
  <2>1. line \in Seq(Char) /\ After(toDevice, request) \in Seq(Char)
    BY <1>0, <1>11, SplitText DEF DeviceAnswers, request, REQUEST_END
  <2>2. Answer(line) \in Seq(Char)
    <3>1. Len(line) = 1 => line[1] \in Char
      BY <2>1
    <3> DEFINE k == IF Len(line) = 1 THEN line[1][2] ELSE 0
    <3>2. k \in 0 .. MaxCalls
      BY <1>0, <3>1 DEF Char
    <3> HIDE DEF line, k
    <3>3. Reply(self, line, k) \in Seq(Char)
      <4>1. line \in Seq(Char)
        BY <2>1 DEF line
      <4> QED
        BY <1>0, <3>2, <4>1, ReplyType
    <3> QED
      BY <3>3 DEF Answer, k
  <2>3. toDevice' = After(toDevice, request) /\ toHost' = toHost \o Answer(line)
        /\ answered' = Append(answered, line)
        /\ UNCHANGED <<pc, locals, buffers, results, log, link>>
    BY <1>11 DEF DeviceAnswers, request, REQUEST_END
  <2> HIDE DEF line
  <2>4. toDevice' \in Seq(Char) /\ toHost' \in Seq(Char) /\ answered' \in Seq(Seq(Char))
    BY <1>0, <2>1, <2>2, <2>3
  <2> QED
    BY <1>0, <2>3, <2>4 DEF TypeOK, locals, buffers
<1>12. ASSUME NEW kept \in 0 .. Len(toHost), Break(kept)
       PROVE  TypeOK'
  <2>1. SubSeq(toHost, 1, kept) \in Seq(Char)
    BY <1>0
  <2> QED
    BY <1>0, <1>12, <2>1 DEF Break, TypeOK, locals, buffers
<1>13. CASE UNCHANGED vars
  BY <1>0, <1>13 DEF TypeOK, vars, locals, buffers, network
<1> QED
  <2>1. Quiet \in BOOLEAN
    BY ControllerAssumption
  <2> QED
    BY <1>1, <1>2, <1>3, <1>4, <1>5, <1>6, <1>7, <1>8, <1>9, <1>10, <1>11, <1>12, <1>13, <2>1
       DEF Next, Send, Fail

\* The state of a controller has the types of its members, whatever its delimiters are and
\* whenever asio throws (controller.hpp:100-136).
THEOREM TypeCorrect == Spec => []TypeOK
BY TypeInit, TypeNext, PTL DEF Spec

-----------------------------------------------------------------------------
(* The answer to the present call *)

LEMMA Sizes ==
  ASSUME TypeOK
  PROVE  /\ self \in Controllers /\ calls \in 0 .. MaxCalls
         /\ pc # "idle" => Len(results) = calls - 1 /\ calls \in 1 .. MaxCalls
         /\ REQUEST_END \in Seq(Char) /\ Len(REQUEST_END) \in Nat \ {0}
         /\ \A q \in 1 .. Len(REQUEST_END) : ~IsCommand(REQUEST_END[q])
         /\ RESPONSE_END \in Seq(Char) /\ Len(RESPONSE_END) \in Nat \ {0}
         /\ Ask(calls) \in Char /\ Own \in Char
         /\ IsCommand(Ask(calls)) /\ IsCommand(Own)
<1>1. self \in Controllers /\ calls \in 0 .. MaxCalls /\ MaxCalls \in Nat
  BY ControllerAssumption DEF TypeOK
<1>2. pc # "idle" => Len(results) = calls - 1 /\ Len(results) \in Nat
  BY DEF TypeOK
<1>3. /\ self.REQUEST_END \in Seq(Char) /\ self.REQUEST_END # <<>>
      /\ self.REQUEST_END \in Seq({LF, SUB})
      /\ self.RESPONSE_END \in Seq(Char) /\ self.RESPONSE_END # <<>>
  BY <1>1, DelimiterType
<1>4. /\ REQUEST_END \in Seq(Char) /\ Len(REQUEST_END) \in Nat \ {0}
      /\ RESPONSE_END \in Seq(Char) /\ Len(RESPONSE_END) \in Nat \ {0}
  BY <1>3, EmptySeq DEF REQUEST_END, RESPONSE_END
<1>5. \A q \in 1 .. Len(REQUEST_END) : ~IsCommand(REQUEST_END[q])
  <2>1. \A q \in 1 .. Len(REQUEST_END) : REQUEST_END[q] \in {LF, SUB}
    BY <1>3 DEF REQUEST_END
  <2>2. ~IsCommand(LF) /\ ~IsCommand(SUB)
    BY DEF IsCommand, LF, SUB
  <2> QED
    BY <2>1, <2>2
<1>6. Ask(calls) \in Char /\ Own \in Char
  BY <1>1, CharType DEF Own
<1>7. IsCommand(Ask(calls)) /\ IsCommand(Own)
  BY DEF IsCommand, Own, Ask, AskQuietly
<1>8. pc # "idle" => calls \in 1 .. MaxCalls
  BY <1>1, <1>2
<1> QED
  BY <1>1, <1>2, <1>4, <1>5, <1>6, <1>7, <1>8

LEMMA Replies ==
  ASSUME TypeOK
  PROVE  /\ Body(calls) \in Seq(Char) /\ Rest \in Seq(Char) /\ Mine \in Seq(Char)
         /\ Mine = IF readCommand THEN (<<Ask(calls)>> \o REQUEST_END) \o Rest ELSE Rest
         /\ EndsOnce(self) => Ends(Mine, RESPONSE_END) = {Len(Mine)}
         /\ Ends(Rest, RESPONSE_END) = {Len(Rest)}
         /\ Ask(calls) # REQUEST_END[1]
<1>1. /\ self \in Controllers /\ calls \in 0 .. MaxCalls
      /\ REQUEST_END \in Seq(Char) /\ RESPONSE_END \in Seq(Char) /\ Ask(calls) \in Char
      /\ Len(REQUEST_END) \in Nat \ {0} /\ Len(RESPONSE_END) \in Nat \ {0}
  BY Sizes
<1>2. Body(calls) \in Seq(Char)
  BY <1>1, TextType DEF Body
<1>3. Rest \in Seq(Char)
  BY <1>1, <1>2 DEF Rest
<1>4. <<Ask(calls)>> \in Seq(Char)
  BY <1>1
<1>5. Mine \in Seq(Char)
  BY <1>1, <1>4, ReplyType DEF Mine
<1>6. Mine = (IF readCommand THEN <<Ask(calls)>> \o REQUEST_END ELSE <<>>) \o Rest
  BY DEF Mine, Reply, Rest, Body, readCommand, REQUEST_END, RESPONSE_END
<1>7. <<>> \o Rest = Rest
  BY <1>3
<1>8. Mine = IF readCommand THEN (<<Ask(calls)>> \o REQUEST_END) \o Rest ELSE Rest
  BY <1>6, <1>7
<1>9. EndsOnce(self) => Ends(Mine, RESPONSE_END) = {Len(Mine)}
  BY <1>1 DEF EndsOnce, Mine, RESPONSE_END
<1>10. Ends(Rest, RESPONSE_END) = {Len(Rest)}
  BY <1>1, ControllerAssumption DEF Rest, Body, RESPONSE_END
<1>11. Ask(calls) # REQUEST_END[1]
  BY Sizes
<1> QED
  BY <1>2, <1>3, <1>5, <1>8, <1>9, <1>10, <1>11

\* A beginning of a text in which its only RESPONSE_END is found is all of it.
LEMMA WholeAnswer ==
  ASSUME TypeOK, NEW whole \in Seq(Char), Ends(whole, RESPONSE_END) = {Len(whole)},
         Begins(istreamBuffer \o toHost, whole), Found(istreamBuffer, RESPONSE_END)
  PROVE  istreamBuffer = whole /\ toHost = <<>>
<1>0. PICK n \in 0 .. Len(whole) : istreamBuffer \o toHost = SubSeq(whole, 1, n)
  BY DEF Begins
<1> DEFINE m == Len(istreamBuffer)
<1>1. /\ istreamBuffer \in Seq(Char) /\ toHost \in Seq(Char) /\ whole \in Seq(Char)
      /\ RESPONSE_END \in Seq(Char) /\ Ends(whole, RESPONSE_END) = {Len(whole)}
  BY Sizes DEF TypeOK
<1>2. /\ Len(SubSeq(whole, 1, n)) = n /\ Len(istreamBuffer \o toHost) = m + Len(toHost)
      /\ n \in Nat /\ m \in Nat /\ Len(toHost) \in Nat /\ Len(whole) \in Nat
      /\ \A i \in 1 .. m : (istreamBuffer \o toHost)[i] = istreamBuffer[i]
      /\ \A i \in 1 .. n : SubSeq(whole, 1, n)[i] = whole[i]
  BY <1>0, <1>1
<1>3. n = m + Len(toHost) /\ m <= n /\ m \in 0 .. Len(whole)
  BY <1>0, <1>2
<1>4. \A i \in 1 .. m : istreamBuffer[i] = whole[i]
  BY <1>0, <1>2, <1>3
<1>5. istreamBuffer = SubSeq(whole, 1, m)
  <2>1. SubSeq(whole, 1, m) \in Seq(Char) /\ Len(SubSeq(whole, 1, m)) = m
        /\ \A i \in 1 .. m : SubSeq(whole, 1, m)[i] = whole[i]
    BY <1>1, <1>3
  <2> QED
    BY <1>1, <1>4, <2>1, SeqEqual
<1>6. PICK e \in Ends(istreamBuffer, RESPONSE_END) : TRUE
  BY DEF Found
<1> HIDE DEF m
<1>7. e \in {i \in Ends(whole, RESPONSE_END) : i <= m}
  <2>1. Ends(SubSeq(whole, 1, m), RESPONSE_END) \subseteq {i \in Ends(whole, RESPONSE_END) : i <= m}
    BY <1>1, <1>3, DelimiterInPrefix
  <2> QED
    BY <1>5, <1>6, <2>1
<1>8. m = Len(whole) /\ Len(toHost) = 0
  BY <1>1, <1>2, <1>3, <1>7 DEF m
<1> QED
  BY <1>1, <1>5, <1>8, SubSeqFull, EmptySeq

Inv == Incoming /\ Clean /\ Outgoing /\ InOrder /\ OwnResponse

LEMMA NothingFound == TypeOK => ~Found(<<>>, RESPONSE_END)
<1> SUFFICES ASSUME TypeOK PROVE ~Found(<<>>, RESPONSE_END)
  OBVIOUS
<1>1. Len(RESPONSE_END) \in Nat \ {0} /\ Len(<<>>) = 0
  BY Sizes
<1> QED
  BY <1>1 DEF Found, Ends

\* What the definitions of Incoming are made of stays the same within a call.
LEMMA SameCall ==
  ASSUME self' = self, calls' = calls
  PROVE  Mine' = Mine /\ Rest' = Rest /\ Body(calls)' = Body(calls) /\ Ask(calls)' = Ask(calls)
         /\ RESPONSE_END' = RESPONSE_END /\ REQUEST_END' = REQUEST_END /\ readCommand' = readCommand
         /\ EndsOnce(self)' = EndsOnce(self) /\ \A text, k : IsAnswer(text, k)' <=> IsAnswer(text, k)
BY DEF Mine, Rest, Body, RESPONSE_END, REQUEST_END, readCommand, EndsOnce, IsAnswer

-----------------------------------------------------------------------------
(* The requests that are on their way *)

LEMMA FirstRequest ==
  ASSUME TypeOK, NEW text \in Seq(Char), text # <<>>, Requests(text, REQUEST_END)
  PROVE  LET r == Len(REQUEST_END)  rest == SubSeq(text, r + 2, Len(text))
         IN  /\ text[1] \in Char /\ IsCommand(text[1]) /\ r + 1 <= Len(text)
             /\ rest \in Seq(Char) /\ Len(rest) = Len(text) - (r + 1)
             /\ \A p \in 1 .. Len(rest) : rest[p] = text[p + r + 1]
             /\ Found(text, REQUEST_END)
             /\ Before(text, REQUEST_END) = <<text[1]>>
             /\ After(text, REQUEST_END) = rest
             /\ Requests(rest, REQUEST_END)
<1> DEFINE r == Len(REQUEST_END)  rest == SubSeq(text, r + 2, Len(text))  x == text[1]
<1>1. r \in Nat \ {0} /\ REQUEST_END \in Seq(Char) /\ Len(text) \in Nat /\ Len(text) >= 1
  BY Sizes, EmptySeq
<1>2. x \in Char /\ IsCommand(x)
  BY <1>1 DEF Requests
<1>3. /\ r + 1 <= Len(text)
      /\ \A q \in 1 .. r : text[1 + q] = REQUEST_END[q]
      /\ r + 1 < Len(text) => IsCommand(text[r + 2])
  <2>1. 1 \in 1 .. Len(text)
    BY <1>1
  <2>2. /\ 1 + r <= Len(text)
        /\ \A q \in 1 .. r : text[1 + q] = REQUEST_END[q]
        /\ 1 + r < Len(text) => IsCommand(text[1 + r + 1])
    BY <1>2, <2>1 DEF Requests
  <2>3. 1 + r = r + 1 /\ 1 + r + 1 = r + 2
    BY <1>1
  <2> QED
    BY <2>2, <2>3
<1>4. /\ rest \in Seq(Char) /\ Len(rest) = Len(text) - (r + 1) /\ Len(rest) \in Nat
      /\ \A p \in 1 .. Len(rest) : rest[p] = text[p + r + 1]
  BY <1>1, <1>3
<1> HIDE DEF rest, r, x
<1>5. text = (<<x>> \o REQUEST_END) \o rest
  <2>1. <<x>> \o REQUEST_END \in Seq(Char) /\ Len(<<x>> \o REQUEST_END) = r + 1
        /\ (<<x>> \o REQUEST_END)[1] = x
        /\ \A q \in 1 .. r : (<<x>> \o REQUEST_END)[1 + q] = REQUEST_END[q]
    BY <1>1, <1>2 DEF r
  <2> DEFINE head == <<x>> \o REQUEST_END
  <2>2. head \in Seq(Char) /\ Len(head) = r + 1 /\ \A i \in 1 .. r + 1 : head[i] = text[i]
    <3>1. ASSUME NEW i \in 1 .. r + 1 PROVE head[i] = text[i]
      <4>1. CASE i = 1
        BY <2>1, <4>1 DEF x
      <4>2. CASE i # 1
        <5>1. i - 1 \in 1 .. r /\ i = 1 + (i - 1)
          BY <1>1, <4>2 DEF r
        <5> QED
          BY <1>3, <2>1, <5>1
      <4> QED
        BY <4>1, <4>2
    <3> QED
      BY <2>1, <3>1
  <2> HIDE DEF head
  <2>3. head \o rest \in Seq(Char) /\ Len(head \o rest) = Len(text)
        /\ \A i \in 1 .. Len(text) : (head \o rest)[i] = IF i <= r + 1 THEN head[i] ELSE rest[i - (r + 1)]
    <3>1. Len(head) + Len(rest) = Len(text)
      BY <1>1, <1>3, <1>4, <2>2 DEF r
    <3>2. /\ head \o rest \in Seq(Char) /\ Len(head \o rest) = Len(head) + Len(rest)
          /\ \A i \in 1 .. Len(head) + Len(rest) :
               (head \o rest)[i] = IF i <= Len(head) THEN head[i] ELSE rest[i - Len(head)]
      BY <1>4, <2>2, ConcatProperties
    <3> QED
      BY <2>2, <3>1, <3>2
  <2>4. ASSUME NEW i \in 1 .. Len(text) PROVE (head \o rest)[i] = text[i]
    <3>1. CASE i <= r + 1
      BY <1>1, <2>2, <2>3, <3>1 DEF r
    <3>2. CASE ~(i <= r + 1)
      <4>1. i - (r + 1) \in 1 .. Len(rest) /\ (i - (r + 1)) + r + 1 = i
        BY <1>1, <1>4, <3>2 DEF r
      <4>2. rest[i - (r + 1)] = text[(i - (r + 1)) + r + 1]
        BY <1>4, <4>1
      <4>3. (head \o rest)[i] = rest[i - (r + 1)]
        BY <1>1, <2>3, <3>2 DEF r
      <4> QED
        BY <4>1, <4>2, <4>3
    <3> QED
      BY <3>1, <3>2
  <2>5. head \o rest = text
    BY <2>3, <2>4, SeqEqual
  <2> QED
    BY <2>5 DEF head
<1>6. /\ Found(text, REQUEST_END) /\ Before(text, REQUEST_END) = <<x>>
      /\ After(text, REQUEST_END) = rest
  <2>1. REQUEST_END # <<>> /\ x # REQUEST_END[1]
    BY <1>1, <1>2, Sizes, EmptySeq
  <2> QED
    BY <1>1, <1>2, <1>4, <1>5, <2>1, FirstLine
<1>7. Requests(rest, REQUEST_END)
  <2>1. rest # <<>> => IsCommand(rest[1])
    <3>1. SUFFICES ASSUME rest # <<>> PROVE IsCommand(rest[1])
      OBVIOUS
    <3>2. 1 \in 1 .. Len(rest) /\ r + 1 < Len(text) /\ 1 + r + 1 = r + 2
      BY <1>1, <1>4, <3>1, EmptySeq DEF r
    <3> QED
      BY <1>3, <1>4, <3>2
  <2>2. ASSUME NEW p \in 1 .. Len(rest), IsCommand(rest[p])
        PROVE  /\ p + r <= Len(rest)
               /\ \A q \in 1 .. r : rest[p + q] = REQUEST_END[q]
               /\ p + r < Len(rest) => IsCommand(rest[p + r + 1])
    <3> DEFINE t == p + r + 1
    <3>1. t \in 1 .. Len(text) /\ IsCommand(text[t])
      BY <1>1, <1>4, <2>2 DEF r
    <3>2. /\ t + r <= Len(text)
          /\ \A q \in 1 .. r : text[t + q] = REQUEST_END[q]
          /\ t + r < Len(text) => IsCommand(text[t + r + 1])
      BY <3>1 DEF Requests, r
    <3>3. p + r <= Len(rest)
      BY <1>1, <1>4, <3>2 DEF r
    <3>4. ASSUME NEW q \in 1 .. r PROVE rest[p + q] = REQUEST_END[q]
      <4>1. p + q \in 1 .. Len(rest) /\ (p + q) + r + 1 = t + q
        BY <1>1, <1>4, <3>3 DEF r
      <4> QED
        BY <1>4, <3>2, <4>1
    <3>5. ASSUME p + r < Len(rest) PROVE IsCommand(rest[p + r + 1])
      <4>1. p + r + 1 \in 1 .. Len(rest) /\ (p + r + 1) + r + 1 = t + r + 1 /\ t + r < Len(text)
        BY <1>1, <1>4, <3>5 DEF r
      <4> QED
        BY <1>4, <3>2, <4>1
    <3> QED
      BY <3>3, <3>4, <3>5
  <2> QED
    BY <2>1, <2>2 DEF Requests, r
<1> QED
  BY <1>2, <1>3, <1>4, <1>6, <1>7 DEF rest, r, x

LEMMA NextRequest ==
  ASSUME TypeOK, NEW text \in Seq(Char), Requests(text, REQUEST_END), NEW y \in Char, IsCommand(y)
  PROVE  LET more == text \o (<<y>> \o REQUEST_END)
         IN  /\ more \in Seq(Char) /\ Len(more) = Len(text) + 1 + Len(REQUEST_END)
             /\ \A p \in 1 .. Len(text) : more[p] = text[p]
             /\ more[Len(text) + 1] = y
             /\ \A p \in Len(text) + 2 .. Len(more) : ~IsCommand(more[p])
             /\ Requests(more, REQUEST_END)
<1> DEFINE request == <<y>> \o REQUEST_END  more == text \o request  r == Len(REQUEST_END)
<1>1. r \in Nat \ {0} /\ REQUEST_END \in Seq(Char) /\ Len(text) \in Nat
      /\ \A q \in 1 .. r : ~IsCommand(REQUEST_END[q])
  BY Sizes
<1>2. request \in Seq(Char) /\ Len(request) = 1 + r /\ request[1] = y
      /\ \A q \in 1 .. r : request[1 + q] = REQUEST_END[q]
  BY <1>1
<1> HIDE DEF request, r
<1>3. /\ more \in Seq(Char) /\ Len(more) = Len(text) + 1 + r
      /\ \A p \in 1 .. Len(text) : more[p] = text[p]
      /\ \A q \in 1 .. 1 + r : more[Len(text) + q] = request[q]
  <2>1. text \in Seq(Char) /\ request \in Seq(Char)
    BY <1>2
  <2>2. /\ more \in Seq(Char) /\ Len(more) = Len(text) + Len(request)
        /\ \A i \in 1 .. Len(text) + Len(request) :
             more[i] = IF i <= Len(text) THEN text[i] ELSE request[i - Len(text)]
    BY <2>1, ConcatProperties
  <2> HIDE DEF more
  <2>3. r \in Nat /\ Len(text) \in Nat /\ Len(request) = 1 + r
    BY <1>1, <1>2 DEF r
  <2>4. ASSUME NEW p \in 1 .. Len(text) PROVE more[p] = text[p]
    <3>1. p \in 1 .. Len(text) + Len(request) /\ p <= Len(text)
      BY <2>3
    <3> QED
      BY <2>2, <3>1
  <2>5. ASSUME NEW q \in 1 .. 1 + r PROVE more[Len(text) + q] = request[q]
    <3>1. Len(text) + q \in 1 .. Len(text) + Len(request) /\ ~(Len(text) + q <= Len(text))
          /\ (Len(text) + q) - Len(text) = q
      BY <2>3
    <3> QED
      BY <2>2, <3>1
  <2> QED
    BY <2>2, <2>3, <2>4, <2>5
<1> HIDE DEF more
<1>4. more[Len(text) + 1] = y
  BY <1>1, <1>2, <1>3 DEF r
<1>5. \A q \in 1 .. r : more[Len(text) + 1 + q] = REQUEST_END[q]
  <2>1. ASSUME NEW q \in 1 .. r PROVE more[Len(text) + 1 + q] = REQUEST_END[q]
    <3>1. 1 + q \in 1 .. 1 + r /\ Len(text) + 1 + q = Len(text) + (1 + q)
      BY <1>1 DEF r
    <3> QED
      BY <1>2, <1>3, <3>1
  <2> QED
    BY <2>1
<1>6. ASSUME NEW p \in Len(text) + 2 .. Len(more) PROVE ~IsCommand(more[p])
  <2>1. p - (Len(text) + 1) \in 1 .. r /\ Len(text) + 1 + (p - (Len(text) + 1)) = p
    BY <1>1, <1>3 DEF r
  <2> QED
    BY <1>1, <1>5, <2>1 DEF r
<1>7. Requests(more, REQUEST_END)
  <2>1. IsCommand(more[1])
    <3>1. CASE text = <<>>
      BY <1>4, <3>1
    <3>2. CASE text # <<>>
      <4>1. 1 \in 1 .. Len(text)
        BY <1>1, <3>2, EmptySeq
      <4> QED
        BY <1>3, <3>2, <4>1 DEF Requests
    <3> QED
      BY <3>1, <3>2
  <2>2. ASSUME NEW p \in 1 .. Len(more), IsCommand(more[p])
        PROVE  /\ p + r <= Len(more)
               /\ \A q \in 1 .. r : more[p + q] = REQUEST_END[q]
               /\ p + r < Len(more) => IsCommand(more[p + r + 1])
    <3>1. CASE p \in 1 .. Len(text)
      <4>1. /\ p + r <= Len(text)
            /\ \A q \in 1 .. r : text[p + q] = REQUEST_END[q]
            /\ p + r < Len(text) => IsCommand(text[p + r + 1])
        BY <1>3, <2>2, <3>1 DEF Requests, r
      <4>2. p + r <= Len(more)
        BY <1>1, <1>3, <4>1 DEF r
      <4>3. ASSUME NEW q \in 1 .. r PROVE more[p + q] = REQUEST_END[q]
        <5>1. p + q \in 1 .. Len(text)
          BY <1>1, <3>1, <4>1 DEF r
        <5> QED
          BY <1>3, <4>1, <5>1
      <4>4. IsCommand(more[p + r + 1])
        <5>1. CASE p + r < Len(text)
          <6>1. p + r + 1 \in 1 .. Len(text)
            BY <1>1, <3>1, <5>1 DEF r
          <6> QED
            BY <1>3, <4>1, <5>1, <6>1
        <5>2. CASE p + r = Len(text)
          BY <1>4, <5>2
        <5> QED
          BY <1>1, <3>1, <4>1, <5>1, <5>2 DEF r
      <4> QED
        BY <4>2, <4>3, <4>4
    <3>2. CASE p = Len(text) + 1
      <4>1. p + r <= Len(more) /\ ~(p + r < Len(more))
        BY <1>1, <1>3, <3>2 DEF r
      <4> QED
        BY <1>5, <3>2, <4>1
    <3>3. CASE p \in Len(text) + 2 .. Len(more)
      BY <1>6, <2>2, <3>3
    <3> QED
      BY <1>1, <1>3, <3>1, <3>2, <3>3
  <2> QED
    BY <2>1, <2>2 DEF Requests, r
<1> QED
  BY <1>3, <1>4, <1>6, <1>7 DEF more, request, r

-----------------------------------------------------------------------------
(* The steps that more than one part of the invariant depends on *)

\* A segment that arrives goes from the network to the end of the buffer.
LEMMA SegmentMoves ==
  ASSUME TypeOK, NEW n \in 1 .. Len(toHost), ReadSome(n)
  PROVE  istreamBuffer' \o toHost' = istreamBuffer \o toHost /\ toHost # <<>>
<1> DEFINE a == SubSeq(toHost, 1, n)  b == SubSeq(toHost, n + 1, Len(toHost))
<1>1. istreamBuffer \in Seq(Char) /\ toHost \in Seq(Char)
  BY DEF TypeOK
<1>2. istreamBuffer' = istreamBuffer \o a /\ toHost' = b
  BY DEF ReadSome
<1>3. a \o b = toHost /\ a \in Seq(Char) /\ b \in Seq(Char)
  <2>1. 1 \in 1 .. Len(toHost) + 1 /\ n \in 1 - 1 .. Len(toHost) /\ Len(toHost) \in n .. Len(toHost)
    BY <1>1
  <2>2. a \o b = SubSeq(toHost, 1, Len(toHost))
    BY <1>1, <2>1, ConcatAdjacentSubSeq
  <2> QED
    BY <1>1, <2>2, SubSeqFull
<1>4. toHost # <<>>
  BY <1>1, EmptySeq
<1> HIDE DEF a, b
<1>5. (istreamBuffer \o a) \o b = istreamBuffer \o (a \o b)
  <2>1. istreamBuffer \in Seq(Char) /\ a \in Seq(Char) /\ b \in Seq(Char)
    BY <1>1, <1>3
  <2> QED
    BY <2>1, ConcatAssociative
<1> QED
  BY <1>2, <1>3, <1>4, <1>5

\* The answer is taken and nothing is left in the stream, unless the stream is at its end.
LEMMA AnswerTaken ==
  ASSUME TypeOK, Incoming, GetOutput
  PROVE  /\ IsAnswer(deviceOutput', calls)
         /\ EndsOnce(self) => istreamGood'
         /\ istreamGood' => istreamGood /\ istreamBuffer' = <<>> /\ toHost = <<>>
<1>1. /\ pc = "getOutput" /\ GetLine(RESPONSE_END) /\ deviceOutput' = Line(RESPONSE_END)
      /\ istreamGood \in BOOLEAN
  BY DEF GetOutput, Goto, TypeOK
<1>2. /\ RESPONSE_END \in Seq(Char) /\ Body(calls) \in Seq(Char) /\ Rest \in Seq(Char)
      /\ Ends(Rest, RESPONSE_END) = {Len(Rest)} /\ istreamBuffer \in Seq(Char) /\ toHost \in Seq(Char)
  BY Sizes, Replies DEF TypeOK
<1>3. /\ Found(Rest, RESPONSE_END) /\ Before(Rest, RESPONSE_END) = Body(calls)
      /\ After(Rest, RESPONSE_END) = <<>>
  BY <1>2, OnlyLine DEF Rest
<1>4. \A n \in 0 .. Len(Rest) : ~EndsOnce(self) => IsAnswer(SubSeq(Rest, 1, n), calls)
  BY DEF IsAnswer, Rest
<1>5. IsAnswer(Body(calls), calls)
  <2>1. Body(calls) = SubSeq(Rest, 1, Len(Body(calls))) /\ Len(Body(calls)) \in 0 .. Len(Rest)
    BY <1>2, TakeFront DEF Rest
  <2> QED
    BY <1>4, <2>1 DEF IsAnswer
<1>6. CASE ~istreamGood
  <2>1. ~EndsOnce(self)
    BY <1>6 DEF Incoming
  <2>2. <<>> = SubSeq(Rest, 1, 0) /\ 0 \in 0 .. Len(Rest)
    BY <1>2, SubSeqEmpty
  <2>3. IsAnswer(<<>>, calls)
    BY <1>4, <2>1, <2>2
  <2> QED
    BY <1>1, <1>6, <2>1, <2>3 DEF GetLine, Line
<1>7. CASE istreamGood /\ Found(istreamBuffer, RESPONSE_END)
  <2>1. Begins(istreamBuffer \o toHost, Rest)
    BY <1>1, <1>7 DEF Incoming, Segments
  <2>2. istreamBuffer = Rest /\ toHost = <<>>
    BY <1>2, <1>7, <2>1, WholeAnswer
  <2> QED
    BY <1>1, <1>3, <1>5, <1>7, <2>2 DEF GetLine, Line
<1>8. CASE istreamGood /\ ~Found(istreamBuffer, RESPONSE_END)
  <2>1. ~EndsOnce(self) /\ Begins(istreamBuffer \o toHost, Rest)
    BY <1>1, <1>3, <1>8 DEF Incoming, Segments
  <2>2. PICK n \in 0 .. Len(Rest) : istreamBuffer = SubSeq(Rest, 1, n)
    BY <1>2, <2>1, FrontBegins DEF Begins
  <2> QED
    BY <1>1, <1>4, <1>8, <2>1, <2>2 DEF GetLine, Line
<1> QED
  BY <1>6, <1>7, <1>8

\* The device takes the first request. It answers the present call or nothing at all.
LEMMA DeviceStep ==
  ASSUME TypeOK, Inv, DeviceAnswers
  PROVE  LET r == Len(REQUEST_END)  x == toDevice[1]
         IN  /\ link = "up" /\ toDevice # <<>> /\ x \in Char /\ IsCommand(x)
             /\ answered' = Append(answered, <<x>>)
             /\ toDevice' \in Seq(Char) /\ Len(toDevice') = Len(toDevice) - (r + 1)
             /\ \A p \in 1 .. Len(toDevice') : toDevice'[p] = toDevice[p + r + 1]
             /\ Requests(toDevice', REQUEST_END)
             /\ istreamGood =>
                  \/ x[1] = "quiet" /\ toHost' = toHost
                  \/ /\ x[1] = "command" /\ pc = "readUntil" /\ toDevice' = <<>>
                     /\ istreamBuffer = <<>> /\ toHost' = Mine
<1> DEFINE r == Len(REQUEST_END)  x == toDevice[1]  rest == SubSeq(toDevice, r + 2, Len(toDevice))
<1>1. /\ toDevice \in Seq(Char) /\ toHost \in Seq(Char) /\ istreamBuffer \in Seq(Char)
      /\ r \in Nat \ {0} /\ REQUEST_END \in Seq(Char)
  BY Sizes DEF TypeOK
<1>2. /\ link = "up" /\ Found(toDevice, REQUEST_END)
      /\ answered' = Append(answered, Before(toDevice, REQUEST_END))
      /\ toDevice' = After(toDevice, REQUEST_END)
      /\ toHost' = toHost \o Answer(Before(toDevice, REQUEST_END))
  BY DEF DeviceAnswers
<1>3. Requests(toDevice, REQUEST_END)
  BY <1>2 DEF Inv, Outgoing
<1>4. toDevice # <<>>
  <2>1. SUFFICES ASSUME toDevice = <<>> PROVE FALSE
    OBVIOUS
  <2>2. Len(toDevice) = 0
    BY <2>1
  <2> QED
    BY <1>1, <1>2, <2>2 DEF Found, Ends
<1>5. /\ x \in Char /\ IsCommand(x) /\ r + 1 <= Len(toDevice)
      /\ rest \in Seq(Char) /\ Len(rest) = Len(toDevice) - (r + 1)
      /\ \A p \in 1 .. Len(rest) : rest[p] = toDevice[p + r + 1]
      /\ Before(toDevice, REQUEST_END) = <<x>> /\ After(toDevice, REQUEST_END) = rest
      /\ Requests(rest, REQUEST_END)
  BY <1>1, <1>3, <1>4, FirstRequest
<1>6. toDevice' = rest /\ answered' = Append(answered, <<x>>) /\ toHost' = toHost \o Answer(<<x>>)
  BY <1>2, <1>5
<1> HIDE DEF rest
<1>7. CASE x[1] = "quiet"
  <2>1. Answer(<<x>>) = <<>>
    BY <1>7 DEF Answer
  <2>2. toHost' = toHost
    BY <1>1, <1>6, <2>1, ConcatEmptySeq
  <2> QED
    BY <1>2, <1>4, <1>5, <1>6, <1>7, <2>2
<1>8. CASE istreamGood /\ x[1] = "command"
  <2>1. 1 \in 1 .. Len(toDevice)
    BY <1>1, <1>5
  <2>2. pc = "readUntil" /\ 1 + r = Len(toDevice)
    BY <1>2, <1>8, <2>1 DEF Inv, Outgoing, Pending
  <2>3. istreamBuffer = <<>> /\ toHost = <<>> /\ x = Ask(calls)
    BY <1>2, <1>4, <1>8, <2>1, <2>2 DEF Inv, Outgoing, Pending
  <2>4. rest = <<>>
    <3>1. Len(rest) = 0
      BY <1>1, <1>5, <2>2
    <3> QED
      BY <1>5, <3>1, EmptySeq
  <2>5. Answer(<<x>>) = Mine
    <3>1. Len(<<x>>) = 1 /\ <<x>>[1] = x
      OBVIOUS
    <3>2. x[1] # "quiet" /\ x[2] = calls
      BY <2>3 DEF Ask
    <3>3. Answer(<<x>>) = Reply(self, <<x>>, x[2])
      BY <3>1, <3>2 DEF Answer
    <3> QED
      BY <2>3, <3>2, <3>3 DEF Mine
  <2>6. toHost' = Mine
    BY <1>6, <2>3, <2>5, Replies, ConcatEmptySeq
  <2> QED
    BY <1>2, <1>4, <1>5, <1>6, <1>8, <2>2, <2>3, <2>4, <2>6
<1> QED
  <2>1. x[1] = "command" \/ x[1] = "quiet"
    BY <1>5 DEF IsCommand
  <2>2. CASE ~istreamGood
    BY <1>2, <1>4, <1>5, <1>6, <2>2
  <2> QED
    BY <1>7, <1>8, <2>1, <2>2

-----------------------------------------------------------------------------
(* The invariant *)

LEMMA SegmentsNext ==
  ASSUME ~SendsEarly, TypeOK, Inv, [Next]_vars, istreamGood'
  PROVE  istreamGood /\ Segments'
<1>1. istreamGood
  BY DEF Next, Send, Fail, Call, Write, ReadSome, ReadUntil, GetCommand, GetOutput, GetLine, Finish,
         WriteFails, ReadFails, Connect, DeviceAnswers, Break, vars, buffers
<1> SUFFICES Segments'
  BY <1>1
<1>2. /\ Segments /\ istreamBuffer \in Seq(Char) /\ toHost \in Seq(Char)
      /\ RESPONSE_END \in Seq(Char) /\ REQUEST_END \in Seq(Char) /\ Len(RESPONSE_END) \in Nat \ {0}
      /\ Mine \in Seq(Char) /\ Rest \in Seq(Char) /\ Ask(calls) \in Char
      /\ Ends(Rest, RESPONSE_END) = {Len(Rest)}
      /\ EndsOnce(self) => Ends(Mine, RESPONSE_END) = {Len(Mine)}
  BY <1>1, Sizes, Replies DEF TypeOK, Inv, Incoming
<1>3. ASSUME NEW text \in BOOLEAN, NEW answers \in BOOLEAN, Call(text, answers)
      PROVE  Segments'
  BY <1>2, <1>3 DEF Call, Goto, Segments, network, RESPONSE_END
<1>4. CASE Write
  BY <1>2, <1>4 DEF Write, Goto, Segments, locals, RESPONSE_END
<1>5. ASSUME NEW n \in 1 .. Len(toHost), ReadSome(n)
      PROVE  Segments'
  <2>1. pc = "readUntil" /\ pc' = "readUntil" /\ self' = self /\ calls' = calls
    BY <1>5 DEF ReadSome, locals
  <2>2. istreamBuffer' \o toHost' = istreamBuffer \o toHost /\ toHost # <<>>
    BY <1>5, SegmentMoves
  <2>3. Begins(istreamBuffer' \o toHost', Mine)
    BY <1>2, <2>1, <2>2 DEF Segments
  <2>4. Mine' = Mine
    BY <2>1, SameCall
  <2> QED
    BY <2>1, <2>3, <2>4 DEF Segments, Begins
<1>6. CASE ReadUntil
  <2>1. /\ pc = "readUntil" /\ Found(istreamBuffer, RESPONSE_END)
        /\ pc' = IF readCommand THEN "getCommand" ELSE "getOutput"
        /\ self' = self /\ calls' = calls /\ istreamBuffer' = istreamBuffer /\ toHost' = toHost
    BY <1>6 DEF ReadUntil, Goto, locals, buffers, network
  <2>2. Begins(istreamBuffer \o toHost, Mine)
    BY <1>2, <2>1 DEF Segments
  <2>3. EndsOnce(self) => istreamBuffer = Mine /\ toHost = <<>>
    BY <1>2, <2>1, <2>2, WholeAnswer
  <2>4. ~readCommand => Mine = Rest
    BY Replies
  <2>5. Mine' = Mine /\ Rest' = Rest /\ RESPONSE_END' = RESPONSE_END /\ EndsOnce(self)' = EndsOnce(self)
    BY <2>1, SameCall
  <2>6. CASE readCommand
    BY <2>1, <2>2, <2>5, <2>6 DEF Segments, Begins
  <2>7. CASE ~readCommand
    BY <2>1, <2>2, <2>3, <2>4, <2>5, <2>7 DEF Segments, Begins
  <2> QED
    BY <2>6, <2>7
<1>7. CASE GetCommand
  <2> DEFINE head == <<Ask(calls)>> \o REQUEST_END  r == Len(REQUEST_END)
  <2>1. /\ pc = "getCommand" /\ pc' = "getOutput" /\ GetLine(REQUEST_END) /\ readCommand
        /\ self' = self /\ calls' = calls /\ toHost' = toHost
    BY <1>7 DEF GetCommand, Goto, locals, network, Inv, Incoming
  <2>2. Found(istreamBuffer, RESPONSE_END) /\ Begins(istreamBuffer \o toHost, Mine)
    BY <1>2, <2>1 DEF Segments
  <2>3. /\ Mine = head \o Rest /\ head \in Seq(Char) /\ Len(head) = 1 + r
        /\ r \in Nat /\ REQUEST_END # <<>> /\ Ask(calls) # REQUEST_END[1]
    BY <1>2, <2>1, Sizes, Replies, EmptySeq
  <2>4. Found(istreamBuffer, REQUEST_END) /\ istreamBuffer' = After(istreamBuffer, REQUEST_END)
    BY <1>1, <2>1 DEF GetLine
  <2>5. \A rest \in Seq(Char) : /\ Found(head \o rest, REQUEST_END)
                                /\ After(head \o rest, REQUEST_END) = rest
    BY <1>2, <2>3, FirstLine
  <2> HIDE DEF head, r
  <2>6. Len(head) <= Len(istreamBuffer)
    <3>1. Found(Mine, REQUEST_END) /\ After(Mine, REQUEST_END) = Rest
      <4>1. Found(head \o Rest, REQUEST_END) /\ After(head \o Rest, REQUEST_END) = Rest
        BY <1>2, <2>5
      <4> QED
        BY <2>3, <4>1
    <3>2. /\ FirstEnd(Mine, REQUEST_END) \in r .. Len(Mine)
          /\ \A i \in Ends(Mine, REQUEST_END) : FirstEnd(Mine, REQUEST_END) <= i
          /\ Len(Rest) = Len(Mine) - FirstEnd(Mine, REQUEST_END)
      BY <1>2, <3>1, FirstEndIsFirst, SplitText DEF r
    <3>3. Len(Mine) = Len(head) + Len(Rest) /\ Len(head) \in Nat /\ Len(Rest) \in Nat
      <4>1. head \in Seq(Char) /\ Rest \in Seq(Char) /\ Mine = head \o Rest
        BY <1>2, <2>3
      <4> QED
        BY <4>1, ConcatProperties, LenProperties
    <3>4. FirstEnd(Mine, REQUEST_END) = Len(head)
      BY <2>3, <3>2, <3>3
    <3>5. PICK m \in 0 .. Len(Mine) : istreamBuffer = SubSeq(Mine, 1, m)
      BY <1>2, <2>2, FrontBegins DEF Begins
    <3>6. PICK e \in Ends(istreamBuffer, REQUEST_END) : TRUE
      BY <2>4 DEF Found
    <3>7. e \in Ends(Mine, REQUEST_END) /\ e <= m
      BY <1>2, <3>5, <3>6, DelimiterInPrefix
    <3>8. Len(istreamBuffer) = m /\ m \in Nat
      BY <1>2, <3>5
    <3>9. e \in Nat
      BY <3>6 DEF Ends
    <3> QED
      BY <3>2, <3>3, <3>4, <3>7, <3>8, <3>9
  <2> DEFINE c == SubSeq(istreamBuffer, Len(head) + 1, Len(istreamBuffer))
  <2>7. c \in Seq(Char) /\ istreamBuffer = head \o c /\ Begins(c \o toHost, Rest)
    <3>1. Begins(istreamBuffer \o toHost, head \o Rest)
      BY <2>2, <2>3
    <3> QED
      <4>1. /\ head \in Seq(Char) /\ Rest \in Seq(Char) /\ istreamBuffer \in Seq(Char)
            /\ toHost \in Seq(Char)
        BY <1>2, <2>3
      <4> QED
        BY <2>6, <3>1, <4>1, BehindFront
  <2> HIDE DEF c
  <2>8. istreamBuffer' = c
    BY <2>4, <2>5, <2>7
  <2>9. ASSUME EndsOnce(self) PROVE c = Rest /\ toHost = <<>>
    <3>1. istreamBuffer = Mine /\ toHost = <<>>
      BY <1>2, <2>2, <2>9, WholeAnswer
    <3> QED
      BY <1>2, <2>3, <2>5, <2>7, <3>1
  <2>10. Rest' = Rest /\ EndsOnce(self)' = EndsOnce(self)
    BY <2>1, SameCall
  <2> QED
    <3>1. Begins(istreamBuffer' \o toHost', Rest) /\ (EndsOnce(self) => istreamBuffer' = Rest /\ toHost' = <<>>)
      BY <2>1, <2>7, <2>8, <2>9
    <3> QED
      BY <2>1, <2>10, <3>1 DEF Segments, Begins
<1>8. CASE GetOutput
  <2>1. pc' = "log" /\ self' = self /\ toHost' = toHost
    BY <1>8 DEF GetOutput, Goto, network
  <2>2. istreamBuffer' = <<>> /\ toHost = <<>>
    BY <1>8, AnswerTaken DEF Inv
  <2>3. ~Found(<<>>, RESPONSE_END)
    BY NothingFound
  <2> QED
    BY <2>1, <2>2, <2>3 DEF Segments, RESPONSE_END, Begins
<1>9. ASSUME NEW taken \in 0 .. Len(deviceOutput), Finish(taken)
      PROVE  Segments'
  BY <1>2, <1>9 DEF Finish, Goto, Segments, locals, network, RESPONSE_END
<1>10. ASSUME NEW sent \in 0 .. Len(ostreamBuffer), WriteFails(sent)
       PROVE  Segments'
  BY <1>2, <1>10 DEF WriteFails, Throw, Goto, Segments, locals, RESPONSE_END
<1>11. CASE ReadFails
  BY <1>2, <1>11 DEF ReadFails, Throw, Goto, Segments, locals, buffers, network, RESPONSE_END
<1>12. ASSUME UNCHANGED <<pc, locals, buffers>>,
              \/ toHost' = toHost
              \/ \E kept \in 0 .. Len(toHost) : toHost' = SubSeq(toHost, 1, kept)
              \/ pc = "readUntil" /\ istreamBuffer = <<>> /\ toHost' = Mine
       PROVE  Segments'
  <2>1. pc' = pc /\ self' = self /\ calls' = calls /\ istreamBuffer' = istreamBuffer
    BY <1>12 DEF locals, buffers
  <2>2. Mine' = Mine /\ Rest' = Rest /\ RESPONSE_END' = RESPONSE_END /\ EndsOnce(self)' = EndsOnce(self)
    BY <2>1, SameCall
  <2>3. CASE toHost' = toHost
    BY <1>2, <2>1, <2>2, <2>3 DEF Segments, Begins
  <2>4. ASSUME NEW kept \in 0 .. Len(toHost), toHost' = SubSeq(toHost, 1, kept)
        PROVE  Segments'
    <3>1. toHost = <<>> => toHost' = <<>>
      <4>1. ASSUME toHost = <<>> PROVE SubSeq(toHost, 1, kept) = <<>>
        <5>1. kept = 0
          BY <4>1
        <5> QED
          BY <5>1, SubSeqEmpty
      <4> QED
        BY <2>4, <4>1
    <3>2. \A whole \in Seq(Char) :
            Begins(istreamBuffer \o toHost, whole) => Begins(istreamBuffer \o toHost', whole)
      BY <1>2, <2>4, CutShort
    <3> QED
      BY <1>2, <2>1, <2>2, <3>1, <3>2 DEF Segments, Begins
  <2>5. CASE pc = "readUntil" /\ istreamBuffer = <<>> /\ toHost' = Mine
    <3>1. istreamBuffer' \o toHost' = SubSeq(Mine, 1, Len(Mine)) /\ Len(Mine) \in 0 .. Len(Mine)
      <4>1. Mine \in Seq(Char) /\ Len(Mine) \in Nat
        BY <1>2
      <4> QED
        BY <2>1, <2>5, <4>1, SubSeqFull, ConcatEmptySeq
    <3> QED
      BY <2>1, <2>2, <2>5, <3>1 DEF Segments, Begins
  <2> QED
    BY <1>12, <2>3, <2>4, <2>5
<1>13. CASE Connect
  <2>1. UNCHANGED <<pc, locals, buffers>> /\ toHost' = toHost
    BY <1>13 DEF Connect
  <2> QED
    BY <1>12, <2>1
<1>14. CASE DeviceAnswers
  BY <1>1, <1>12, <1>14, DeviceStep DEF DeviceAnswers
<1>15. ASSUME NEW kept \in 0 .. Len(toHost), Break(kept)
       PROVE  Segments'
  BY <1>12, <1>15 DEF Break
<1>16. CASE UNCHANGED vars
  <2>1. UNCHANGED <<pc, locals, buffers>> /\ toHost' = toHost
    BY <1>16 DEF vars, network
  <2> QED
    BY <1>12, <2>1
<1> QED
  <2>1. Quiet \in BOOLEAN
    BY ControllerAssumption
  <2> QED
    BY <1>1, <1>3, <1>4, <1>5, <1>6, <1>7, <1>8, <1>9, <1>10, <1>11, <1>13, <1>14, <1>15, <1>16, <2>1
       DEF Next, Send, Fail

LEMMA IncomingNext ==
  ASSUME ~SendsEarly, TypeOK, Inv, [Next]_vars
  PROVE  Incoming'
<1>0. Incoming
  BY DEF Inv
<1>1. istreamGood' => Segments'
  BY SegmentsNext
<1>2. ASSUME self' = self, istreamGood' = istreamGood
      PROVE  EndsOnce(self)' => istreamGood'
  BY <1>0, <1>2 DEF Incoming, EndsOnce
<1>3. ASSUME NEW text \in BOOLEAN, NEW answers \in BOOLEAN, Call(text, answers)
      PROVE  Incoming'
  BY <1>1, <1>2, <1>3 DEF Call, Goto, Incoming
<1>4. CASE Write
  BY <1>1, <1>2, <1>4 DEF Write, Goto, Incoming, locals
<1>5. ASSUME NEW n \in 1 .. Len(toHost), ReadSome(n)
      PROVE  Incoming'
  BY <1>0, <1>1, <1>2, <1>5 DEF ReadSome, Incoming, locals
<1>6. CASE ReadUntil
  BY <1>0, <1>1, <1>2, <1>6 DEF ReadUntil, Goto, Incoming, locals, buffers, readCommand
<1>7. CASE GetCommand
  <2>1. /\ pc = "getCommand" /\ pc' = "getOutput" /\ GetLine(REQUEST_END) /\ readCommand
        /\ self' = self /\ calls' = calls /\ readResponse' = readResponse
    BY <1>0, <1>7 DEF GetCommand, Goto, locals, Incoming
  <2>2. ASSUME EndsOnce(self) PROVE istreamGood'
    <3>1. istreamGood /\ Segments
      BY <1>0, <2>2 DEF Incoming
    <3>2. /\ istreamBuffer = Mine /\ Mine = (<<Ask(calls)>> \o REQUEST_END) \o Rest
          /\ Rest \in Seq(Char) /\ REQUEST_END \in Seq(Char) /\ REQUEST_END # <<>>
          /\ Ask(calls) \in Char /\ Ask(calls) # REQUEST_END[1]
      <4>1. /\ Mine \in Seq(Char) /\ Rest \in Seq(Char) /\ REQUEST_END \in Seq(Char)
            /\ Len(REQUEST_END) \in Nat \ {0} /\ Ask(calls) \in Char /\ Ask(calls) # REQUEST_END[1]
            /\ Ends(Mine, RESPONSE_END) = {Len(Mine)}
            /\ Mine = (<<Ask(calls)>> \o REQUEST_END) \o Rest
        BY <2>1, <2>2, Sizes, Replies
      <4>2. istreamBuffer = Mine
        BY <2>1, <3>1, <4>1, WholeAnswer DEF Segments
      <4> QED
        BY <4>1, <4>2, EmptySeq
    <3>3. Found(istreamBuffer, REQUEST_END)
      BY <3>2, FirstLine
    <3> QED
      BY <2>1, <3>1, <3>3 DEF GetLine
  <2> QED
    BY <1>0, <1>1, <2>1, <2>2 DEF Incoming, EndsOnce
<1>8. CASE GetOutput
  <2>1. pc' = "log" /\ self' = self /\ calls' = calls
    BY <1>8 DEF GetOutput, Goto
  <2>2. IsAnswer(deviceOutput', calls) /\ (EndsOnce(self) => istreamGood')
    BY <1>0, <1>8, AnswerTaken
  <2> QED
    BY <1>1, <2>1, <2>2 DEF Incoming, IsAnswer, EndsOnce, Body, RESPONSE_END
<1>9. ASSUME NEW taken \in 0 .. Len(deviceOutput), Finish(taken)
      PROVE  Incoming'
  BY <1>1, <1>2, <1>9 DEF Finish, Goto, Incoming, locals
<1>10. ASSUME NEW sent \in 0 .. Len(ostreamBuffer), WriteFails(sent)
       PROVE  Incoming'
  BY <1>1, <1>2, <1>10 DEF WriteFails, Throw, Goto, Incoming, locals
<1>11. CASE ReadFails
  BY <1>1, <1>2, <1>11 DEF ReadFails, Throw, Goto, Incoming, locals, buffers
<1>12. ASSUME UNCHANGED <<pc, locals, buffers>>
       PROVE  Incoming'
  BY <1>0, <1>1, <1>2, <1>12
     DEF Incoming, locals, buffers, readCommand, IsAnswer, EndsOnce, Body, RESPONSE_END
<1> QED
  <2>1. Quiet \in BOOLEAN
    BY ControllerAssumption
  <2>2. Connect \/ DeviceAnswers \/ (\E kept \in 0 .. Len(toHost) : Break(kept)) \/ UNCHANGED vars
          => UNCHANGED <<pc, locals, buffers>>
    BY DEF Connect, DeviceAnswers, Break, vars
  <2> QED
    BY <1>3, <1>4, <1>5, <1>6, <1>7, <1>8, <1>9, <1>10, <1>11, <1>12, <2>1, <2>2
       DEF Next, Send, Fail

LEMMA ThrowSeen ==
  ASSUME TypeOK
  PROVE  /\ results' = Append(results, Threw) => ~NoThrow'
         /\ \A asked, text :
              results' = Append(results, Returned(asked, text)) => (NoThrow' <=> NoThrow)
         /\ results' = results => (NoThrow' <=> NoThrow)
<1>1. results \in Seq(Result) /\ Len(results) \in Nat /\ DOMAIN results = 1 .. Len(results)
  BY DEF TypeOK, Result
<1>2. \A r : /\ DOMAIN Append(results, r) = 1 .. Len(results) + 1
             /\ \A i \in 1 .. Len(results) : Append(results, r)[i] = results[i]
             /\ Append(results, r)[Len(results) + 1] = r
  BY <1>1
<1>3. ASSUME results' = Append(results, Threw) PROVE ~NoThrow'
  BY <1>1, <1>2, <1>3 DEF NoThrow
<1>4. ASSUME NEW asked, NEW text, results' = Append(results, Returned(asked, text))
      PROVE  NoThrow' <=> NoThrow
  <2>1. Returned(asked, text) # Threw
    <3>1. Returned(asked, text).how = "returned" /\ Threw.how = "threw"
      BY DEF Returned, Threw
    <3> QED
      BY <3>1
  <2>2. NoThrow => NoThrow'
    <3>1. ASSUME NoThrow, NEW i \in 1 .. Len(results) + 1 PROVE results'[i] # Threw
      <4>1. CASE i \in 1 .. Len(results)
        BY <1>1, <1>2, <1>4, <3>1, <4>1 DEF NoThrow
      <4>2. CASE i = Len(results) + 1
        BY <1>2, <1>4, <2>1, <4>2
      <4> QED
        BY <1>1, <3>1, <4>1, <4>2
    <3> QED
      BY <1>2, <1>4, <3>1 DEF NoThrow
  <2>3. NoThrow' => NoThrow
    <3>1. \A i \in 1 .. Len(results) : i \in DOMAIN results' /\ results'[i] = results[i]
      BY <1>1, <1>2, <1>4
    <3> QED
      BY <1>1, <3>1 DEF NoThrow
  <2> QED
    BY <2>2, <2>3
<1>5. results' = results => (NoThrow' <=> NoThrow)
  BY DEF NoThrow
<1> QED
  BY <1>3, <1>4, <1>5

LEMMA CleanNext ==
  ASSUME ~SendsEarly, TypeOK, Inv, [Next]_vars
  PROVE  Clean'
<1>0. Clean /\ Incoming /\ Outgoing /\ link \in {"none", "up", "down"} /\ REQUEST_END \in Seq(Char)
  BY Sizes DEF Inv, TypeOK
<1>1. ASSUME NEW text \in BOOLEAN, NEW answers \in BOOLEAN, Call(text, answers)
      PROVE  Clean'
  <2>1. /\ pc = "idle" /\ pc' = "write" /\ calls' = calls + 1 /\ readResponse' = answers
        /\ ostreamBuffer' = ostreamBuffer \o (deviceInput \o <<Own'>> \o REQUEST_END)
        /\ UNCHANGED <<self, istreamBuffer, istreamGood, results, link>>
    BY <1>1 DEF Call, Goto, network, Own, Ask, AskQuietly
  <2>2. NoThrow' <=> NoThrow
    BY <2>1, ThrowSeen
  <2>3. ASSUME NoThrow PROVE ostreamBuffer' = <<Own'>> \o REQUEST_END
    <3>1. ostreamBuffer = <<>> /\ deviceInput = <<>>
      BY <1>0, <2>1, <2>3 DEF Clean
    <3>2. calls + 1 \in 0 .. MaxCalls
      BY <1>1, ControllerAssumption DEF Call, TypeOK
    <3>3. Own' \in Char
      BY <2>1, <3>2, CharType DEF Own, Ask, AskQuietly
    <3> DEFINE x == Own'
    <3> HIDE DEF x
    <3>4. <<x>> \in Seq(Char)
      BY <3>3 DEF x
    <3>5. <<>> \o (<<>> \o <<x>> \o REQUEST_END) = <<x>> \o REQUEST_END
      BY <1>0, <3>4, ConcatEmptySeq, ConcatProperties
    <3> QED
      BY <2>1, <3>1, <3>5 DEF x
  <2>4. REQUEST_END' = REQUEST_END
    BY <2>1 DEF REQUEST_END
  <2> QED
    BY <1>0, <2>1, <2>2, <2>3, <2>4 DEF Clean
<1>2. CASE Write
  <2>1. NoThrow' <=> NoThrow
    BY <1>2, ThrowSeen DEF Write
  <2> QED
    BY <1>0, <1>2, <2>1 DEF Write, Goto, Clean, Incoming
<1>3. ASSUME NEW n \in 1 .. Len(toHost), ReadSome(n)
      PROVE  Clean'
  <2>1. NoThrow' <=> NoThrow
    BY <1>3, ThrowSeen DEF ReadSome
  <2> QED
    BY <1>0, <1>3, <2>1 DEF ReadSome, Clean
<1>4. CASE ReadUntil
  <2>1. NoThrow' <=> NoThrow
    BY <1>4, ThrowSeen DEF ReadUntil
  <2> QED
    BY <1>0, <1>4, <2>1 DEF ReadUntil, Goto, Clean, buffers, network
<1>5. CASE GetCommand
  <2>1. NoThrow' <=> NoThrow
    BY <1>5, ThrowSeen DEF GetCommand
  <2> QED
    BY <1>0, <1>5, <2>1 DEF GetCommand, Goto, Clean, network
<1>6. CASE GetOutput
  <2>1. NoThrow' <=> NoThrow
    BY <1>6, ThrowSeen DEF GetOutput
  <2>2. istreamGood' => istreamBuffer' = <<>>
    BY <1>0, <1>6, AnswerTaken
  <2> QED
    BY <1>0, <1>6, <2>1, <2>2 DEF GetOutput, Goto, Clean, network
<1>7. ASSUME NEW taken \in 0 .. Len(deviceOutput), Finish(taken)
      PROVE  Clean'
  <2>1. NoThrow' <=> NoThrow
    <3>1. \E asked, text : results' = Append(results, Returned(asked, text))
      BY <1>7 DEF Finish
    <3> QED
      BY <3>1, ThrowSeen
  <2> QED
    BY <1>0, <1>7, <2>1 DEF Finish, Goto, Clean, network
<1>8. ASSUME NEW sent \in 0 .. Len(ostreamBuffer), WriteFails(sent)
      PROVE  Clean'
  <2>1. results' = Append(results, Threw) /\ pc = "write"
        /\ link' = IF link = "up" THEN "down" ELSE link
    BY <1>8 DEF WriteFails, Throw, Goto
  <2>2. link' = "down"
    BY <1>0, <2>1 DEF Outgoing
  <2> QED
    BY <2>1, <2>2, ThrowSeen DEF Clean
<1>9. CASE ReadFails
  <2>1. results' = Append(results, Threw) /\ link' = "down"
    BY <1>9 DEF ReadFails, Throw, network
  <2> QED
    BY <2>1, ThrowSeen DEF Clean
<1>10. CASE Connect
  <2>1. NoThrow' <=> NoThrow
    BY <1>10, ThrowSeen DEF Connect
  <2> QED
    BY <1>0, <1>10, <2>1 DEF Connect, Clean, buffers
<1>11. CASE DeviceAnswers
  <2>1. NoThrow' <=> NoThrow
    BY <1>11, ThrowSeen DEF DeviceAnswers
  <2>2. REQUEST_END' = REQUEST_END /\ Own' = Own
    BY <1>11 DEF DeviceAnswers, locals, REQUEST_END, Own
  <2> QED
    BY <1>0, <1>11, <2>1, <2>2 DEF DeviceAnswers, Clean, buffers
<1>12. ASSUME NEW kept \in 0 .. Len(toHost), Break(kept)
       PROVE  Clean'
  <2>1. NoThrow' <=> NoThrow
    BY <1>12, ThrowSeen DEF Break
  <2>2. REQUEST_END' = REQUEST_END /\ Own' = Own
    BY <1>12 DEF Break, locals, REQUEST_END, Own
  <2> QED
    BY <1>0, <1>12, <2>1, <2>2 DEF Break, Clean, buffers
<1>13. CASE UNCHANGED vars
  BY <1>0, <1>13 DEF Clean, NoThrow, vars, locals, buffers, network, REQUEST_END, Own
<1> QED
  <2>1. Quiet \in BOOLEAN
    BY ControllerAssumption
  <2> QED
    BY <1>1, <1>2, <1>3, <1>4, <1>5, <1>6, <1>7, <1>8, <1>9, <1>10, <1>11, <1>12, <1>13, <2>1
       DEF Next, Send, Fail

\* A step that does not add a result keeps what the earlier ones got.
LEMMA OwnResponseNext ==
  ASSUME ~SendsEarly, TypeOK, Inv, [Next]_vars
  PROVE  OwnResponse'
<1>1. self' = self
  BY DEF Next, Send, Fail, Call, Write, ReadSome, ReadUntil, GetCommand, GetOutput, Finish, WriteFails,
         ReadFails, Connect, DeviceAnswers, Break, vars, locals
<1>2. results \in Seq(Result) /\ DOMAIN results = 1 .. Len(results) /\ Len(results) \in Nat
  BY DEF TypeOK, Result
<1>3. \A k \in DOMAIN results :
        results[k].how = "returned" /\ results[k].asked => IsAnswer(results[k].text, k)
  BY DEF Inv, OwnResponse
<1>4. CASE results' = results
  BY <1>1, <1>3, <1>4 DEF OwnResponse, IsAnswer, EndsOnce, Body, RESPONSE_END
<1>5. ASSUME NEW r, results' = Append(results, r),
             r.how = "returned" /\ r.asked => IsAnswer(r.text, Len(results) + 1)
      PROVE  OwnResponse'
  <2>1. /\ DOMAIN results' = 1 .. Len(results) + 1
        /\ \A k \in 1 .. Len(results) : results'[k] = results[k]
        /\ results'[Len(results) + 1] = r
    BY <1>2, <1>5
  <2>2. ASSUME NEW k \in 1 .. Len(results) + 1, results'[k].how = "returned", results'[k].asked
        PROVE  IsAnswer(results'[k].text, k)
    <3>1. CASE k \in 1 .. Len(results)
      BY <1>2, <1>3, <2>1, <2>2, <3>1
    <3>2. CASE k = Len(results) + 1
      BY <1>5, <2>1, <2>2, <3>2
    <3> QED
      BY <1>2, <3>1, <3>2
  <2> QED
    BY <1>1, <2>1, <2>2 DEF OwnResponse, IsAnswer, EndsOnce, Body, RESPONSE_END
<1>6. CASE results' = Append(results, Threw)
  <2>1. Threw.how = "threw"
    BY DEF Threw
  <2> QED
    BY <1>5, <1>6, <2>1
<1>7. ASSUME NEW taken \in 0 .. Len(deviceOutput), Finish(taken)
      PROVE  OwnResponse'
  <2> DEFINE asked == returnsText /\ readResponse  text == IF returnsText THEN deviceOutput ELSE <<>>
  <2>1. pc = "log" /\ results' = Append(results, Returned(asked, text))
    BY <1>7 DEF Finish, Goto
  <2>2. Len(results) + 1 = calls
    BY <2>1, Sizes
  <2>3. readResponse => IsAnswer(deviceOutput, calls)
    BY <2>1 DEF Inv, Incoming
  <2>4. asked => IsAnswer(text, calls)
    BY <2>3
  <2> HIDE DEF asked, text
  <2>5. Returned(asked, text).asked = asked /\ Returned(asked, text).text = text
    BY DEF Returned
  <2> QED
    BY <1>5, <2>1, <2>2, <2>4, <2>5
<1>8. results' = results \/ results' = Append(results, Threw)
      \/ \E taken \in 0 .. Len(deviceOutput) : Finish(taken)
  BY DEF Next, Send, Fail, Call, Write, ReadSome, ReadUntil, GetCommand, GetOutput, WriteFails,
         ReadFails, Throw, Connect, DeviceAnswers, Break, vars
<1> QED
  BY <1>4, <1>6, <1>7, <1>8

\* A step that takes nothing from the way to the device and puts nothing on it.
LEMMA OutgoingKept ==
  ASSUME Outgoing, self' = self, link' = link, toDevice' = toDevice, istreamGood' => istreamGood,
         pc # "readUntil", pc' # "readUntil", link = "none" => pc' = "idle"
  PROVE  Outgoing'
BY DEF Outgoing, Pending, Requests, IsCommand, REQUEST_END

LEMMA OutgoingNext ==
  ASSUME ~SendsEarly, TypeOK, Inv, [Next]_vars
  PROVE  Outgoing'
<1>0. /\ Outgoing /\ Incoming /\ Clean
      /\ toDevice \in Seq(Char) /\ istreamBuffer \in Seq(Char) /\ toHost \in Seq(Char)
      /\ link \in {"none", "up", "down"}
  BY DEF Inv, TypeOK
<1>1. ASSUME NEW text \in BOOLEAN, NEW answers \in BOOLEAN, Call(text, answers)
      PROVE  Outgoing'
  <2>1. /\ pc = "idle" /\ pc' = "write" /\ link # "none"
        /\ UNCHANGED <<self, istreamGood, link, toDevice>>
    BY <1>1, <1>0 DEF Call, Goto, network
  <2> QED
    BY <1>0, <2>1, OutgoingKept
<1>2. CASE Write
  <2>1. /\ pc = "write" /\ link # "none" /\ pc' = IF readResponse THEN "readUntil" ELSE "log"
        /\ UNCHANGED <<self, calls, readResponse, istreamBuffer, istreamGood, toHost, link>>
        /\ toDevice' = IF link = "up" THEN toDevice \o ostreamBuffer ELSE toDevice
    BY <1>2 DEF Write, Goto, locals
  <2>2. SUFFICES ASSUME link = "up" PROVE Outgoing'
    BY <1>0, <2>1 DEF Outgoing
  <2>3. /\ ostreamBuffer = <<Own>> \o REQUEST_END
        /\ istreamGood => istreamBuffer = <<>> /\ toHost = <<>>
    BY <1>0, <2>1, <2>2 DEF Clean, Incoming, Segments
  <2>4. /\ toDevice' = toDevice \o (<<Own>> \o REQUEST_END)
        /\ Requests(toDevice, REQUEST_END)
        /\ istreamGood => \A p \in 1 .. Len(toDevice) : toDevice[p][1] # "command"
    BY <1>0, <2>1, <2>2, <2>3 DEF Outgoing, Pending
  <2>5. Own \in Char /\ IsCommand(Own) /\ Len(REQUEST_END) \in Nat \ {0} /\ Len(toDevice) \in Nat
    BY <1>0, Sizes
  <2>6. /\ toDevice' \in Seq(Char) /\ Len(toDevice') = Len(toDevice) + 1 + Len(REQUEST_END)
        /\ \A p \in 1 .. Len(toDevice) : toDevice'[p] = toDevice[p]
        /\ toDevice'[Len(toDevice) + 1] = Own
        /\ \A p \in Len(toDevice) + 2 .. Len(toDevice') : ~IsCommand(toDevice'[p])
        /\ Requests(toDevice', REQUEST_END)
    BY <1>0, <2>4, <2>5, NextRequest
  <2>7. toDevice' # <<>> /\ REQUEST_END' = REQUEST_END /\ Ask(calls)' = Ask(calls)
    <3>1. Len(toDevice') # 0
      BY <2>5, <2>6
    <3> QED
      BY <2>1, <2>6, <3>1, EmptySeq, SameCall
  <2>8. ASSUME istreamGood, NEW p \in 1 .. Len(toDevice'), toDevice'[p][1] = "command"
        PROVE  readResponse /\ p + Len(REQUEST_END) = Len(toDevice')
    <3>1. IsCommand(toDevice'[p])
      BY <2>8 DEF IsCommand
    <3>2. p = Len(toDevice) + 1
      <4>1. CASE p <= Len(toDevice)
        <5>1. p \in 1 .. Len(toDevice)
          BY <2>5, <2>8, <4>1
        <5> QED
          BY <2>4, <2>6, <2>8, <5>1
      <4>2. CASE ~(p <= Len(toDevice)) /\ p # Len(toDevice) + 1
        <5>1. p \in Len(toDevice) + 2 .. Len(toDevice')
          BY <2>5, <2>6, <2>8, <4>2
        <5> QED
          BY <2>6, <3>1, <5>1
      <4> QED
        BY <4>1, <4>2
    <3>3. Own[1] = "command"
      BY <2>6, <2>8, <3>2
    <3>4. readResponse
      BY <3>3 DEF Own, AskQuietly
    <3> QED
      BY <2>5, <2>6, <3>2, <3>4
  <2>9. ASSUME readResponse, NEW p \in 1 .. Len(toDevice'), p + Len(REQUEST_END) = Len(toDevice')
        PROVE  toDevice'[p] = Ask(calls)
    <3>1. p = Len(toDevice) + 1
      BY <2>5, <2>6, <2>9
    <3> QED
      BY <2>6, <2>9, <3>1 DEF Own
  <2>10. istreamGood => Pending'
    BY <2>1, <2>3, <2>7, <2>8, <2>9 DEF Pending
  <2> QED
    BY <2>1, <2>2, <2>6, <2>7, <2>10 DEF Outgoing, Requests, IsCommand
<1>3. ASSUME NEW n \in 1 .. Len(toHost), ReadSome(n)
      PROVE  Outgoing'
  <2>1. istreamBuffer' \o toHost' = istreamBuffer \o toHost /\ toHost # <<>>
    BY <1>3, SegmentMoves
  <2>2. /\ pc = "readUntil" /\ pc' = pc /\ self' = self /\ calls' = calls
        /\ UNCHANGED <<istreamGood, link, toDevice>>
    BY <1>3 DEF ReadSome, locals
  <2>3. Mine' = Mine /\ REQUEST_END' = REQUEST_END /\ Ask(calls)' = Ask(calls)
    BY <2>2, SameCall
  <2> QED
    BY <1>0, <2>1, <2>2, <2>3 DEF Outgoing, Pending, Requests, IsCommand
<1>4. CASE ReadUntil
  <2>1. /\ pc = "readUntil" /\ pc' \in {"getCommand", "getOutput"}
        /\ UNCHANGED <<self, istreamGood, link, toDevice>> /\ Found(istreamBuffer, RESPONSE_END)
    BY <1>4 DEF ReadUntil, Goto, locals, buffers, network
  <2>2. istreamBuffer # <<>>
    BY <2>1, NothingFound
  <2>3. link = "up" /\ istreamGood => toDevice = <<>>
    BY <1>0, <2>1, <2>2 DEF Outgoing, Pending
  <2>4. link # "none"
    BY <1>0, <2>1 DEF Outgoing
  <2>5. Len(<<>>) = 0
    OBVIOUS
  <2>6. link = "up" /\ istreamGood => Pending'
    BY <2>1, <2>3, <2>5 DEF Pending
  <2>7. REQUEST_END' = REQUEST_END
    BY <2>1 DEF REQUEST_END
  <2> QED
    BY <1>0, <2>1, <2>4, <2>6, <2>7 DEF Outgoing, Requests, IsCommand
<1>5. CASE GetCommand
  BY <1>0, <1>5, OutgoingKept DEF GetCommand, GetLine, Goto, locals, network, Outgoing
<1>6. CASE GetOutput
  BY <1>0, <1>6, OutgoingKept DEF GetOutput, GetLine, Goto, network, Outgoing
<1>7. ASSUME NEW taken \in 0 .. Len(deviceOutput), Finish(taken)
      PROVE  Outgoing'
  BY <1>0, <1>7, OutgoingKept DEF Finish, Goto, locals, network
<1>8. ASSUME NEW sent \in 0 .. Len(ostreamBuffer), WriteFails(sent)
      PROVE  Outgoing'
  <2>1. pc = "write" /\ link' = IF link = "up" THEN "down" ELSE link
    BY <1>8 DEF WriteFails, Throw, Goto
  <2>2. link' = "down"
    BY <1>0, <2>1 DEF Outgoing
  <2> QED
    BY <2>2 DEF Outgoing
<1>9. CASE ReadFails
  BY <1>9 DEF ReadFails, network, Outgoing
<1>10. CASE Connect
  <2>1. pc = "idle" /\ pc' = "idle" /\ link = "none" /\ link' = "up" /\ toDevice' = toDevice
    BY <1>10 DEF Connect
  <2>2. toDevice = <<>> /\ Len(<<>>) = 0
    BY <1>0, <2>1 DEF Outgoing
  <2> QED
    BY <2>1, <2>2 DEF Outgoing, Pending, Requests
<1>11. CASE DeviceAnswers
  <2> DEFINE r == Len(REQUEST_END)  x == toDevice[1]
  <2>1. /\ pc' = pc /\ self' = self /\ calls' = calls /\ link' = link
        /\ istreamBuffer' = istreamBuffer /\ istreamGood' = istreamGood
    BY <1>11 DEF DeviceAnswers, locals, buffers
  <2>2. Mine' = Mine /\ REQUEST_END' = REQUEST_END /\ Ask(calls)' = Ask(calls)
    BY <2>1, SameCall
  <2>3. /\ link = "up" /\ toDevice # <<>>
        /\ toDevice' \in Seq(Char) /\ Len(toDevice') = Len(toDevice) - (r + 1)
        /\ \A p \in 1 .. Len(toDevice') : toDevice'[p] = toDevice[p + r + 1]
        /\ Requests(toDevice', REQUEST_END)
        /\ istreamGood =>
             \/ x[1] = "quiet" /\ toHost' = toHost
             \/ /\ x[1] = "command" /\ pc = "readUntil" /\ toDevice' = <<>>
                /\ istreamBuffer = <<>> /\ toHost' = Mine
    BY <1>11, DeviceStep DEF Inv
  <2>4. r \in Nat \ {0} /\ Len(toDevice) \in Nat /\ Len(toDevice') \in Nat /\ Len(toDevice) # 0
    BY <1>0, <2>3, Sizes, EmptySeq
  <2> HIDE DEF r
  <2>5. ASSUME NEW p \in 1 .. Len(toDevice')
        PROVE  /\ p + r + 1 \in 1 .. Len(toDevice) /\ toDevice'[p] = toDevice[p + r + 1]
               /\ p + r = Len(toDevice') <=> (p + r + 1) + r = Len(toDevice)
    BY <2>3, <2>4 DEF r
  <2>6. ASSUME istreamGood, NEW p \in 1 .. Len(toDevice'), toDevice'[p][1] = "command"
        PROVE  pc = "readUntil" /\ p + r = Len(toDevice')
    BY <1>0, <2>3, <2>5, <2>6 DEF Outgoing, Pending, r
  <2>7. ASSUME istreamGood, x[1] = "command" PROVE Pending'
    <3>1. istreamBuffer' \o toHost' = Mine
      BY <2>1, <2>3, <2>7, Replies, ConcatEmptySeq
    <3> QED
      BY <2>1, <2>2, <2>3, <2>6, <2>7, <3>1 DEF Pending, r
  <2>8. ASSUME istreamGood, x[1] = "quiet" PROVE Pending'
    <3>1. ASSUME pc = "readUntil"
          PROVE  /\ toDevice' # <<>> /\ istreamBuffer = <<>> /\ toHost = <<>>
                 /\ \A p \in 1 .. Len(toDevice') : p + r = Len(toDevice') => toDevice'[p] = Ask(calls)
      <4>1. /\ istreamBuffer = <<>> /\ toHost = <<>>
            /\ \A p \in 1 .. Len(toDevice) : p + r = Len(toDevice) => toDevice[p] = Ask(calls)
        BY <1>0, <2>3, <2>8, <3>1 DEF Outgoing, Pending, r
      <4>2. toDevice' # <<>>
        <5>1. SUFFICES ASSUME toDevice' = <<>> PROVE FALSE
          OBVIOUS
        <5>2. Len(toDevice') = 0
          BY <5>1
        <5>3. 1 \in 1 .. Len(toDevice) /\ 1 + r = Len(toDevice)
          BY <2>3, <2>4, <5>2 DEF r
        <5>4. x = Ask(calls)
          BY <4>1, <5>3
        <5> QED
          BY <2>8, <5>4 DEF Ask
      <4> QED
        BY <2>5, <4>1, <4>2
    <3> QED
      BY <2>1, <2>2, <2>3, <2>6, <2>8, <3>1 DEF Pending, r
  <2>9. istreamGood => Pending'
    BY <2>3, <2>7, <2>8
  <2> QED
    BY <2>1, <2>2, <2>3, <2>9 DEF Outgoing, Requests, IsCommand
<1>12. ASSUME NEW kept \in 0 .. Len(toHost), Break(kept)
       PROVE  Outgoing'
  BY <1>12 DEF Break, Outgoing
<1>13. CASE UNCHANGED vars
  BY <1>0, <1>13 DEF Outgoing, Pending, Requests, IsCommand, vars, locals, buffers, network, REQUEST_END, Mine
<1> QED
  <2>1. Quiet \in BOOLEAN
    BY ControllerAssumption
  <2> QED
    BY <1>1, <1>2, <1>3, <1>4, <1>5, <1>6, <1>7, <1>8, <1>9, <1>10, <1>11, <1>12, <1>13, <2>1
       DEF Next, Send, Fail

LEMMA AnsweredCalls == InOrder => \A i \in DOMAIN answered : answered[i][1][2] \in Int
<1>1. ASSUME InOrder, NEW i \in DOMAIN answered PROVE answered[i][1][2] \in Int
  <2>1. PICK k \in 1 .. calls : answered[i] \in {<<Ask(k)>>, <<AskQuietly(k)>>}
    BY <1>1 DEF InOrder, CommandsSentOnce
  <2>2. answered[i][1][2] = k
    BY <2>1 DEF Ask, AskQuietly
  <2> QED
    BY <2>2
<1> QED
  BY <1>1

\* A step that does not move a request keeps their order.
LEMMA OrderKept ==
  ASSUME TypeOK, InOrder, answered' = answered, calls' \in Nat, calls' >= calls, Last' >= Last,
         Last' \in Nat,
         link' = "up" => toDevice' = <<>> \/ (link = "up" /\ toDevice' = toDevice)
  PROVE  InOrder'
<1>1. calls \in Nat /\ Last \in Int
  BY Sizes DEF Last
<1>2. CommandsSentOnce'
  <2>1. ASSUME NEW i \in DOMAIN answered
        PROVE  /\ \E k \in 1 .. calls' : answered[i] \in {<<Ask(k)>>, <<AskQuietly(k)>>}
               /\ \A j \in 1 .. i - 1 : answered[j][1][2] < answered[i][1][2]
    <3>1. PICK k \in 1 .. calls : answered[i] \in {<<Ask(k)>>, <<AskQuietly(k)>>}
      BY <2>1 DEF InOrder, CommandsSentOnce
    <3>2. k \in 1 .. calls'
      BY <1>1
    <3> QED
      BY <3>1, <3>2 DEF InOrder, CommandsSentOnce
  <2> QED
    BY <2>1 DEF CommandsSentOnce, Ask, AskQuietly
<1>3. \A i \in DOMAIN answered : answered[i][1][2] \in Int
  BY AnsweredCalls
<1>4. \A i \in DOMAIN answered : answered[i][1][2] <= Last'
  <2>1. ASSUME NEW i \in DOMAIN answered PROVE answered[i][1][2] <= Last'
    <3>1. answered[i][1][2] <= Last
      BY DEF InOrder
    <3> QED
      BY <1>1, <1>3, <3>1
  <2> QED
    BY <2>1
<1>5. ASSUME link' = "up", NEW p \in 1 .. Len(toDevice'), IsCommand(toDevice'[p])
      PROVE  /\ toDevice'[p][2] \in 1 .. Last'
             /\ \A i \in DOMAIN answered : answered[i][1][2] < toDevice'[p][2]
             /\ \A q \in 1 .. p - 1 : IsCommand(toDevice'[q]) => toDevice'[q][2] < toDevice'[p][2]
  <2>1. link = "up" /\ toDevice' = toDevice
    <3>1. toDevice' # <<>>
      <4>1. Len(<<>>) = 0
        OBVIOUS
      <4> QED
        BY <1>5, <4>1
    <3> QED
      BY <1>5, <3>1
  <2>2. /\ toDevice[p][2] \in 1 .. Last
        /\ \A i \in DOMAIN answered : answered[i][1][2] < toDevice[p][2]
        /\ \A q \in 1 .. p - 1 : IsCommand(toDevice[q]) => toDevice[q][2] < toDevice[p][2]
    BY <1>5, <2>1 DEF InOrder
  <2>3. toDevice[p][2] \in 1 .. Last'
    BY <1>1, <2>2
  <2> QED
    BY <2>1, <2>2, <2>3
<1> QED
  BY <1>2, <1>4, <1>5 DEF InOrder, IsCommand

LEMMA InOrderNext ==
  ASSUME ~SendsEarly, TypeOK, Inv, [Next]_vars
  PROVE  InOrder'
<1>0. /\ InOrder /\ Outgoing /\ Clean /\ calls \in Nat /\ toDevice \in Seq(Char)
      /\ Len(toDevice) \in Nat
      /\ pc # "idle" => calls \in Nat \ {0}
  BY Sizes DEF Inv, TypeOK
<1>1. ASSUME NEW text \in BOOLEAN, NEW answers \in BOOLEAN, Call(text, answers)
      PROVE  InOrder'
  <2>1. /\ pc = "idle" /\ pc' = "write" /\ calls' = calls + 1
        /\ UNCHANGED <<link, toDevice, answered>>
    BY <1>1 DEF Call, Goto, network
  <2>2. Last' = calls /\ Last = calls
    BY <1>0, <2>1 DEF Last
  <2>3. calls' \in Nat /\ calls' >= calls /\ Last' >= Last /\ Last' \in Nat
    BY <1>0, <2>1, <2>2
  <2> QED
    BY <1>0, <2>1, <2>3, OrderKept
<1>2. CASE Write
  <2>1. /\ pc = "write" /\ pc' # "write" /\ link' = link
        /\ calls' = calls /\ answered' = answered
        /\ toDevice' = IF link = "up" THEN toDevice \o ostreamBuffer ELSE toDevice
    BY <1>2 DEF Write, Goto, locals
  <2>2. Last = calls - 1 /\ Last' = calls /\ calls >= 1
    BY <1>0, <2>1 DEF Last
  <2>3. CASE link # "up"
    <3>1. calls' \in Nat /\ calls' >= calls /\ Last' >= Last /\ Last' \in Nat
      BY <1>0, <2>1, <2>2
    <3> QED
      BY <1>0, <2>1, <2>3, <3>1, OrderKept
  <2>4. CASE link = "up"
    <3>1. /\ toDevice' = toDevice \o (<<Own>> \o REQUEST_END)
          /\ Requests(toDevice, REQUEST_END)
      BY <1>0, <2>1, <2>4 DEF Outgoing, Clean
    <3>2. Own \in Char /\ IsCommand(Own) /\ Own[2] = calls
      BY Sizes DEF Own, Ask, AskQuietly
    <3>3. /\ Len(toDevice') = Len(toDevice) + 1 + Len(REQUEST_END) /\ Len(REQUEST_END) \in Nat
          /\ \A p \in 1 .. Len(toDevice) : toDevice'[p] = toDevice[p]
          /\ toDevice'[Len(toDevice) + 1] = Own
          /\ \A p \in Len(toDevice) + 2 .. Len(toDevice') : ~IsCommand(toDevice'[p])
      BY <1>0, <3>1, <3>2, NextRequest, Sizes
    <3>4. /\ \A i \in DOMAIN answered : answered[i][1][2] <= Last
          /\ \A p \in 1 .. Len(toDevice) : IsCommand(toDevice[p]) =>
               /\ toDevice[p][2] \in 1 .. Last
               /\ \A i \in DOMAIN answered : answered[i][1][2] < toDevice[p][2]
               /\ \A q \in 1 .. p - 1 : IsCommand(toDevice[q]) => toDevice[q][2] < toDevice[p][2]
      BY <1>0, <2>4 DEF InOrder
    <3>5. \A i \in DOMAIN answered : answered[i][1][2] \in Int
      BY <1>0, AnsweredCalls
    <3>6. \A i \in DOMAIN answered : answered[i][1][2] < calls /\ answered[i][1][2] <= Last'
      BY <1>0, <2>2, <3>4, <3>5
    <3>7. ASSUME NEW p \in 1 .. Len(toDevice'), IsCommand(toDevice'[p])
          PROVE  /\ toDevice'[p][2] \in 1 .. Last'
                 /\ \A i \in DOMAIN answered : answered[i][1][2] < toDevice'[p][2]
                 /\ \A q \in 1 .. p - 1 : IsCommand(toDevice'[q]) => toDevice'[q][2] < toDevice'[p][2]
      <4>1. CASE p <= Len(toDevice)
        <5>1. p \in 1 .. Len(toDevice) /\ toDevice'[p] = toDevice[p]
              /\ \A q \in 1 .. p - 1 : q \in 1 .. Len(toDevice) /\ toDevice'[q] = toDevice[q]
          BY <1>0, <3>3, <3>7, <4>1
        <5>2. toDevice[p][2] \in 1 .. Last
              /\ (\A i \in DOMAIN answered : answered[i][1][2] < toDevice[p][2])
              /\ \A q \in 1 .. p - 1 : IsCommand(toDevice[q]) => toDevice[q][2] < toDevice[p][2]
          BY <3>4, <3>7, <5>1
        <5>3. toDevice[p][2] \in 1 .. Last'
          BY <1>0, <2>2, <5>2
        <5> QED
          BY <5>1, <5>2, <5>3
      <4>2. CASE p = Len(toDevice) + 1
        <5>1. toDevice'[p][2] = calls
          BY <3>2, <3>3, <4>2
        <5>2. ASSUME NEW q \in 1 .. p - 1, IsCommand(toDevice'[q]) PROVE toDevice'[q][2] < calls
          <6>1. q \in 1 .. Len(toDevice) /\ toDevice'[q] = toDevice[q]
            BY <1>0, <3>3, <4>2, <5>2
          <6>2. toDevice[q][2] \in 1 .. Last
            BY <3>4, <5>2, <6>1
          <6> QED
            BY <1>0, <2>2, <6>1, <6>2
        <5>3. calls \in 1 .. Last'
          BY <1>0, <2>2
        <5> QED
          BY <3>6, <5>1, <5>2, <5>3
      <4>3. CASE ~(p <= Len(toDevice)) /\ p # Len(toDevice) + 1
        <5>1. p \in Len(toDevice) + 2 .. Len(toDevice')
          BY <1>0, <3>3, <3>7, <4>3
        <5> QED
          BY <3>3, <3>7, <5>1
      <4> QED
        BY <4>1, <4>2, <4>3
    <3>8. CommandsSentOnce'
      BY <1>0, <2>1 DEF InOrder, CommandsSentOnce, Ask, AskQuietly
    <3> QED
      BY <2>1, <3>6, <3>7, <3>8 DEF InOrder, IsCommand
  <2> QED
    BY <2>3, <2>4
<1>3. ASSUME answered' = answered, calls' = calls, Last' >= Last, Last' \in Nat,
             link' = "up" => toDevice' = <<>> \/ (link = "up" /\ toDevice' = toDevice)
      PROVE  InOrder'
  BY <1>0, <1>3, OrderKept
<1>4. /\ pc = "write" => Last = calls - 1
      /\ pc # "write" => Last = calls
      /\ (pc' # "write" /\ calls' = calls) => Last' = calls
  BY DEF Last
<1>5. ASSUME NEW n \in 1 .. Len(toHost), ReadSome(n)
      PROVE  InOrder'
  BY <1>0, <1>3, <1>4, <1>5 DEF ReadSome, locals
<1>6. CASE ReadUntil
  BY <1>0, <1>3, <1>4, <1>6 DEF ReadUntil, Goto, locals, network
<1>7. CASE GetCommand
  BY <1>0, <1>3, <1>4, <1>7 DEF GetCommand, Goto, locals, network
<1>8. CASE GetOutput
  BY <1>0, <1>3, <1>4, <1>8 DEF GetOutput, Goto, network
<1>9. ASSUME NEW taken \in 0 .. Len(deviceOutput), Finish(taken)
      PROVE  InOrder'
  BY <1>0, <1>3, <1>4, <1>9 DEF Finish, Goto, locals, network
<1>10. ASSUME NEW sent \in 0 .. Len(ostreamBuffer), WriteFails(sent)
       PROVE  InOrder'
  <2>1. /\ pc = "write" /\ pc' = "idle" /\ answered' = answered /\ calls' = calls
        /\ link' = IF link = "up" THEN "down" ELSE link
    BY <1>10 DEF WriteFails, Throw, Goto, locals
  <2>2. link' # "up"
    BY <2>1
  <2> QED
    BY <1>0, <1>3, <1>4, <2>1, <2>2
<1>11. CASE ReadFails
  BY <1>0, <1>3, <1>4, <1>11 DEF ReadFails, Throw, Goto, locals, network
<1>12. CASE Connect
  <2>1. pc = "idle" /\ pc' = "idle" /\ calls' = calls /\ answered' = answered /\ toDevice' = toDevice
        /\ link = "none"
    BY <1>12 DEF Connect, locals
  <2>2. toDevice' = <<>>
    BY <1>0, <2>1 DEF Outgoing
  <2> QED
    BY <1>0, <1>3, <1>4, <2>1, <2>2
<1>13. CASE DeviceAnswers
  <2> DEFINE r == Len(REQUEST_END)  x == toDevice[1]
  <2>1. pc' = pc /\ calls' = calls /\ link' = link
    BY <1>13 DEF DeviceAnswers, locals
  <2>2. /\ link = "up" /\ toDevice # <<>> /\ x \in Char /\ IsCommand(x)
        /\ answered' = Append(answered, <<x>>)
        /\ toDevice' \in Seq(Char) /\ Len(toDevice') = Len(toDevice) - (r + 1)
        /\ \A p \in 1 .. Len(toDevice') : toDevice'[p] = toDevice[p + r + 1]
    BY <1>13, DeviceStep
  <2>3. r \in Nat \ {0} /\ Len(toDevice') \in Nat /\ 1 \in 1 .. Len(toDevice)
    BY <1>0, <2>2, Sizes, EmptySeq
  <2> HIDE DEF r
  <2>4. /\ \A i \in DOMAIN answered : answered[i][1][2] < x[2]
        /\ x[2] \in 1 .. Last
    BY <1>0, <2>2, <2>3 DEF InOrder
  <2>5. Last' = Last /\ Last \in Int /\ Last <= calls
    BY <1>0, <1>4, <2>1 DEF Last
  <2>6. answered \in Seq(Seq(Char)) /\ Len(answered) \in Nat /\ DOMAIN answered = 1 .. Len(answered)
    BY DEF TypeOK
  <2>7. /\ DOMAIN answered' = 1 .. Len(answered) + 1
        /\ \A i \in 1 .. Len(answered) : answered'[i] = answered[i]
        /\ answered'[Len(answered) + 1] = <<x>>
    BY <2>2, <2>6
  <2>8. x \in {Ask(x[2]), AskQuietly(x[2])} /\ <<x>>[1] = x
    BY <2>2 DEF Char, IsCommand, Ask, AskQuietly
  <2>9. \A i \in DOMAIN answered : /\ answered[i][1][2] <= Last
                                   /\ \E k \in 1 .. calls : answered[i] \in {<<Ask(k)>>, <<AskQuietly(k)>>}
                                   /\ \A j \in 1 .. i - 1 : answered[j][1][2] < answered[i][1][2]
    BY <1>0 DEF InOrder, CommandsSentOnce
  <2>10. ASSUME NEW i \in 1 .. Len(answered) + 1
         PROVE  /\ \E k \in 1 .. calls : answered'[i] \in {<<Ask(k)>>, <<AskQuietly(k)>>}
                /\ \A j \in 1 .. i - 1 : answered'[j][1][2] < answered'[i][1][2]
                /\ answered'[i][1][2] <= Last'
    <3>1. CASE i \in 1 .. Len(answered)
      <4>1. \A j \in 1 .. i - 1 : j \in 1 .. Len(answered)
        BY <2>6, <3>1
      <4> QED
        BY <2>5, <2>6, <2>7, <2>9, <3>1, <4>1
    <3>2. CASE i = Len(answered) + 1
      <4>1. \A j \in 1 .. i - 1 : j \in DOMAIN answered /\ answered'[j] = answered[j]
        BY <2>6, <2>7, <3>2
      <4>2. answered'[i] = <<x>> /\ answered'[i][1][2] = x[2]
        BY <2>7, <2>8, <3>2
      <4>3. x[2] \in 1 .. calls /\ x[2] <= Last'
        BY <1>0, <2>4, <2>5
      <4>4. answered'[i] \in {<<Ask(x[2])>>, <<AskQuietly(x[2])>>}
        BY <2>8, <4>2
      <4> QED
        BY <2>4, <4>1, <4>2, <4>3, <4>4
    <3> QED
      BY <2>6, <3>1, <3>2
  <2>11. CommandsSentOnce' /\ \A i \in DOMAIN answered' : answered'[i][1][2] <= Last'
    BY <2>1, <2>7, <2>10 DEF CommandsSentOnce, Ask, AskQuietly
  <2>12. ASSUME NEW p \in 1 .. Len(toDevice'), IsCommand(toDevice'[p])
         PROVE  /\ toDevice'[p][2] \in 1 .. Last'
                /\ \A i \in DOMAIN answered' : answered'[i][1][2] < toDevice'[p][2]
                /\ \A q \in 1 .. p - 1 : IsCommand(toDevice'[q]) => toDevice'[q][2] < toDevice'[p][2]
    <3> DEFINE t == p + r + 1
    <3>1. t \in 1 .. Len(toDevice) /\ toDevice'[p] = toDevice[t] /\ 1 \in 1 .. t - 1
      BY <1>0, <2>2, <2>3 DEF r
    <3>2. /\ toDevice[t][2] \in 1 .. Last
          /\ \A i \in DOMAIN answered : answered[i][1][2] < toDevice[t][2]
          /\ \A q \in 1 .. t - 1 : IsCommand(toDevice[q]) => toDevice[q][2] < toDevice[t][2]
      BY <1>0, <2>2, <2>12, <3>1 DEF InOrder
    <3>3. x[2] < toDevice[t][2]
      BY <2>2, <3>1, <3>2
    <3>4. ASSUME NEW i \in DOMAIN answered' PROVE answered'[i][1][2] < toDevice'[p][2]
      <4>1. CASE i \in 1 .. Len(answered)
        BY <2>6, <2>7, <3>1, <3>2, <4>1
      <4>2. CASE i = Len(answered) + 1
        BY <2>7, <2>8, <3>1, <3>3, <4>2
      <4> QED
        BY <2>6, <2>7, <4>1, <4>2
    <3>5. ASSUME NEW q \in 1 .. p - 1, IsCommand(toDevice'[q]) PROVE toDevice'[q][2] < toDevice'[p][2]
      <4>1. q \in 1 .. Len(toDevice') /\ q + r + 1 \in 1 .. t - 1
        BY <2>3 DEF r
      <4>2. toDevice'[q] = toDevice[q + r + 1]
        BY <2>2, <4>1 DEF r
      <4> QED
        BY <3>1, <3>2, <3>5, <4>1, <4>2
    <3> QED
      BY <2>5, <3>1, <3>2, <3>4, <3>5
  <2> QED
    BY <2>11, <2>12 DEF InOrder, IsCommand
<1>14. ASSUME NEW kept \in 0 .. Len(toHost), Break(kept)
       PROVE  InOrder'
  <2>1. pc' = pc /\ calls' = calls /\ answered' = answered /\ link' = "down"
    BY <1>14 DEF Break, locals
  <2>2. Last' = Last /\ Last \in Nat
    BY <1>0, <2>1 DEF Last
  <2> QED
    BY <1>3, <2>1, <2>2
<1>15. CASE UNCHANGED vars
  <2>1. pc' = pc /\ calls' = calls /\ answered' = answered /\ link' = link /\ toDevice' = toDevice
    BY <1>15 DEF vars, locals, network
  <2>2. Last' = Last /\ Last \in Nat
    BY <1>0, <2>1 DEF Last
  <2> QED
    BY <1>3, <2>1, <2>2
<1> QED
  <2>1. Quiet \in BOOLEAN
    BY ControllerAssumption
  <2> QED
    BY <1>1, <1>2, <1>5, <1>6, <1>7, <1>8, <1>9, <1>10, <1>11, <1>12, <1>13, <1>14, <1>15, <2>1
       DEF Next, Send, Fail

LEMMA IInvInit == Init => IInv
<1> SUFFICES ASSUME Init PROVE IInv
  OBVIOUS
<1>1. TypeOK
  BY TypeInit
<1>2. /\ pc = "idle" /\ calls = 0 /\ istreamGood /\ toHost = <<>> /\ toDevice = <<>>
      /\ istreamBuffer = <<>> /\ deviceInput = <<>> /\ ostreamBuffer = <<>>
      /\ results = <<>> /\ answered = <<>> /\ link = "none"
  BY DEF Init
<1>3. DOMAIN results = {} /\ DOMAIN answered = {}
  BY <1>2
<1>4. Incoming
  BY <1>1, <1>2, NothingFound DEF Incoming, Segments
<1>5. Clean /\ OwnResponse
  BY <1>2, <1>3 DEF Clean, NoThrow, OwnResponse
<1>6. Outgoing
  BY <1>2 DEF Outgoing
<1>7. InOrder
  BY <1>2, <1>3 DEF InOrder, CommandsSentOnce
<1> QED
  BY <1>1, <1>4, <1>5, <1>6, <1>7 DEF IInv

LEMMA IInvNext == IInv /\ [Next]_vars => IInv'
<1> SUFFICES ASSUME IInv, [Next]_vars PROVE IInv'
  OBVIOUS
<1>1. TypeOK /\ TypeOK'
  BY TypeNext DEF IInv
<1>2. ASSUME ~SendsEarly PROVE (Incoming /\ Clean /\ Outgoing /\ InOrder /\ OwnResponse)'
  <2>1. Inv
    BY <1>2 DEF IInv, Inv
  <2>2. Incoming'
    BY <1>1, <1>2, <2>1, IncomingNext
  <2>3. Clean'
    BY <1>1, <1>2, <2>1, CleanNext
  <2>4. Outgoing'
    BY <1>1, <1>2, <2>1, OutgoingNext
  <2>5. InOrder'
    BY <1>1, <1>2, <2>1, InOrderNext
  <2>6. OwnResponse'
    BY <1>1, <1>2, <2>1, OwnResponseNext
  <2> QED
    BY <2>2, <2>3, <2>4, <2>5, <2>6
<1> QED
  BY <1>1, <1>2 DEF IInv

LEMMA Inductive == Spec => []IInv
BY IInvInit, IInvNext, PTL DEF Spec

\* If nobody sends before connect(), a call that asked for an answer and returned a text got
\* the answer to its own command and to no other, for all delimiters, for every way in which
\* the answers are cut into segments and wherever the connection breaks: the whole of it if
\* RESPONSE_END ends the reply only, and a beginning of it if the echo, as with the default
\* delimiters, ends like an answer (controller.hpp:86-90, 132-136, 293).
THEOREM AnswersAreOwn == ASSUME ~SendsEarly PROVE Spec => []OwnResponse
<1>1. IInv => OwnResponse
  BY DEF IInv
<1> QED
  BY <1>1, Inductive, PTL

\* If nobody sends before connect(), the device takes every command at most once, whole and
\* in the order of the calls, also the ones that nobody waits for (controller.hpp:86-88).
THEOREM NeverSentTwice == ASSUME ~SendsEarly PROVE Spec => []CommandsSentOnce
<1>1. IInv => CommandsSentOnce
  BY DEF IInv, InOrder
<1> QED
  BY <1>1, Inductive, PTL

-----------------------------------------------------------------------------
(* What the log keeps of a call *)

\* The first n characters of a text hold no command but those of calls that threw, after which
\* no call returned, each once and in order.
Thrown(text, n, all) ==
  \A j \in 1 .. n : IsCommand(text[j]) =>
    /\ text[j][2] \in DOMAIN all
    /\ \A i \in text[j][2] .. Len(all) : all[i] = Threw
    /\ \A i \in 1 .. j - 1 : IsCommand(text[i]) => text[i][2] < text[j][2]

\* What the present call sends is what calls that threw have left, and its own command.
Present ==
  LET own == Len(input) - Len(REQUEST_END)
  IN  /\ own > 0
      /\ input[own] = Own
      /\ \A q \in 1 .. Len(REQUEST_END) : input[own + q] = REQUEST_END[q]
      /\ Thrown(input, own - 1, results)

\* It stays in deviceInput until it is written; the answer is all that the record needs.
Sent ==
  /\ pc = "idle" => Thrown(deviceInput, Len(deviceInput), results)
  /\ pc = "write" => deviceInput = input
  /\ pc \notin {"idle", "write"} => deviceInput = <<>>
  /\ pc # "idle" => Present
  /\ pc \notin {"idle", "log"} => output = <<>>
  /\ pc = "log" => output = IF readResponse THEN deviceOutput ELSE <<>>

\* Until a call throws the log has a record of each, and what is in deviceOutput is the end of
\* the answer in one that no call has taken, or the answer to the present call.
Kept ==
  NoThrow =>
    /\ Len(log) = Len(results)
    /\ pc # "idle" => input = <<Own>> \o REQUEST_END
    /\ (pc = "log" /\ readResponse) \/ deviceOutput = <<>> \/ LeftOver

LInv == IInv /\ (~SendsEarly => Sent /\ LogMatches /\ Kept)

LEMMA ResultsStep ==
  ASSUME [Next]_vars
  PROVE  /\ self' = self
         /\ \/ results' = results /\ log' = log
            \/ pc # "idle" /\ pc' = "idle" /\ results' = Append(results, Threw) /\ log' = log
            \/ \E taken \in 0 .. Len(deviceOutput) : Finish(taken)
BY DEF Next, Send, Fail, Call, Write, ReadSome, ReadUntil, GetCommand, GetOutput, Finish, WriteFails,
       ReadFails, Throw, Goto, Connect, DeviceAnswers, Break, vars, locals

LEMMA Appended ==
  ASSUME TypeOK, NEW r, results' = Append(results, r)
  PROVE  /\ Len(results) \in Nat /\ DOMAIN results = 1 .. Len(results)
         /\ DOMAIN results' = 1 .. Len(results) + 1
         /\ \A k \in 1 .. Len(results) : results'[k] = results[k]
         /\ results'[Len(results) + 1] = r
<1>1. results \in Seq(Result)
  BY DEF TypeOK, Result
<1> QED
  BY <1>1

LEMMA ResultsKept ==
  ASSUME TypeOK, [Next]_vars
  PROVE  \A k \in DOMAIN results : k \in DOMAIN results' /\ results'[k] = results[k]
<1>1. results' = results \/ \E r : results' = Append(results, r)
  BY ResultsStep DEF Finish
<1>2. ASSUME NEW r, results' = Append(results, r)
      PROVE  \A k \in DOMAIN results : k \in DOMAIN results' /\ results'[k] = results[k]
  BY <1>2, Appended
<1> QED
  BY <1>1, <1>2

\* A call begins with what is left in deviceInput, and adds its own command.
LEMMA SentCall ==
  ASSUME TypeOK, Sent, [Next]_vars, NEW text \in BOOLEAN, NEW answers \in BOOLEAN, Call(text, answers)
  PROVE  Sent'
<1> DEFINE r == Len(REQUEST_END)  d == Len(deviceInput)
<1>1. /\ pc = "idle" /\ pc' = "write" /\ REQUEST_END' = REQUEST_END /\ deviceInput' = input' /\ output' = <<>>
      /\ input' = (deviceInput \o <<Own'>>) \o REQUEST_END
      /\ results' = results
  BY DEF Call, Goto, Own, REQUEST_END
<1>2. /\ Own' \in Char /\ deviceInput \in Seq(Char) /\ REQUEST_END \in Seq(Char)
      /\ r \in Nat /\ d \in Nat
  <2>1. calls' \in 0 .. MaxCalls
    BY TypeNext DEF TypeOK
  <2>2. Own' \in Char
    BY <2>1, CharType DEF Own
  <2> QED
    BY <2>2, Sizes DEF TypeOK
<1>3. /\ Len(input') = d + 1 + r
      /\ input'[d + 1] = Own'
      /\ \A j \in 1 .. d : input'[j] = deviceInput[j]
      /\ \A q \in 1 .. r : input'[d + 1 + q] = REQUEST_END[q]
  <2> DEFINE front == deviceInput \o <<Own'>>
  <2>1. /\ front \in Seq(Char) /\ Len(front) = d + 1 /\ front[d + 1] = Own'
        /\ \A j \in 1 .. d : front[j] = deviceInput[j]
    BY <1>2
  <2> HIDE DEF front
  <2>2. input' = front \o REQUEST_END
    BY <1>1 DEF front
  <2>3. /\ Len(front \o REQUEST_END) = d + 1 + r
        /\ \A j \in 1 .. d + 1 : (front \o REQUEST_END)[j] = front[j]
        /\ \A q \in 1 .. r : (front \o REQUEST_END)[d + 1 + q] = REQUEST_END[q]
    BY <1>2, <2>1
  <2> DEFINE whole == front \o REQUEST_END
  <2>4. d + 1 \in 1 .. d + 1 /\ \A j \in 1 .. d : j \in 1 .. d + 1
    BY <1>2
  <2>5. whole[d + 1] = Own' /\ \A j \in 1 .. d : whole[j] = deviceInput[j]
    BY <2>1, <2>3, <2>4
  <2> QED
    BY <2>2, <2>3, <2>5
<1>4. Thrown(input', d, results')
  BY <1>1, <1>3 DEF Sent, Thrown
<1>5. Present'
  <2>1. Len(input') - Len(REQUEST_END') = d + 1 /\ d + 1 - 1 = d /\ d + 1 > 0
    BY <1>1, <1>2, <1>3
  <2> QED
    BY <1>1, <1>3, <1>4, <2>1 DEF Present
<1> QED
  BY <1>1, <1>5 DEF Sent

\* What a call that throws leaves in deviceInput.
LEMMA LeftByThrow ==
  ASSUME TypeOK, Sent, pc # "idle", results' = Append(results, Threw)
  PROVE  Thrown(input, Len(input), results')
<1> DEFINE r == Len(REQUEST_END)  own == Len(input) - r
<1>1. /\ r \in Nat /\ Len(input) \in Nat /\ own \in Nat \ {0} /\ Own[2] = calls
      /\ input[own] = Own
      /\ \A q \in 1 .. r : input[own + q] = REQUEST_END[q]
      /\ \A q \in 1 .. r : ~IsCommand(REQUEST_END[q])
      /\ Thrown(input, own - 1, results)
  <2>1. Own[2] = calls
    BY DEF Own, Ask, AskQuietly
  <2>2. r \in Nat /\ (\A q \in 1 .. r : ~IsCommand(REQUEST_END[q])) /\ Len(input) \in Nat
    BY Sizes DEF TypeOK
  <2>3. Present
    BY DEF Sent
  <2> QED
    BY <2>1, <2>2, <2>3 DEF Present
<1>2. /\ Len(results) = calls - 1 /\ calls \in Nat \ {0} /\ DOMAIN results = 1 .. calls - 1
      /\ Len(results') = calls /\ DOMAIN results' = 1 .. calls
      /\ results'[calls] = Threw /\ \A i \in 1 .. calls - 1 : results'[i] = results[i]
  BY Sizes, Appended DEF TypeOK
<1>0. own \in Nat \ {0} /\ r \in Nat /\ Len(input) \in Nat /\ Len(input) = own + r
  BY <1>1
<1> HIDE DEF own, r
<1>3. ASSUME NEW j \in 1 .. own - 1, IsCommand(input[j])
      PROVE  /\ input[j][2] \in 1 .. calls - 1
             /\ \A i \in input[j][2] .. calls : results'[i] = Threw
             /\ \A i \in 1 .. j - 1 : IsCommand(input[i]) => input[i][2] < input[j][2]
  <2>1. /\ input[j][2] \in 1 .. calls - 1
        /\ \A i \in input[j][2] .. calls - 1 : results[i] = Threw
        /\ \A i \in 1 .. j - 1 : IsCommand(input[i]) => input[i][2] < input[j][2]
    BY <1>1, <1>2, <1>3 DEF Thrown
  <2>2. ASSUME NEW i \in input[j][2] .. calls PROVE results'[i] = Threw
    <3>1. i = calls \/ (i \in input[j][2] .. calls - 1 /\ i \in 1 .. calls - 1)
      BY <1>2, <2>1
    <3> QED
      BY <1>2, <2>1, <3>1
  <2> QED
    BY <2>1, <2>2
<1>4. ASSUME NEW j \in 1 .. Len(input), IsCommand(input[j])
      PROVE  /\ input[j][2] \in 1 .. calls
             /\ \A i \in input[j][2] .. calls : results'[i] = Threw
             /\ \A i \in 1 .. j - 1 : IsCommand(input[i]) => input[i][2] < input[j][2]
  <2>1. CASE j < own
    <3>1. j \in 1 .. own - 1
      BY <1>1, <2>1
    <3> QED
      BY <1>2, <1>3, <1>4, <3>1
  <2>2. CASE j = own
    <3>1. input[j][2] = calls
      BY <1>1, <2>2
    <3>2. \A i \in 1 .. j - 1 : IsCommand(input[i]) => input[i][2] < calls
      BY <1>2, <1>3, <2>2
    <3> QED
      BY <1>2, <3>1, <3>2
  <2>3. CASE j > own
    <3>1. j - own \in 1 .. r /\ own + (j - own) = j
      BY <1>0, <2>3
    <3> QED
      BY <1>1, <1>4, <3>1
  <2>4. j < own \/ j = own \/ j > own
    BY <1>0
  <2> QED
    BY <2>1, <2>2, <2>3, <2>4
<1> QED
  BY <1>2, <1>4 DEF Thrown

LEMMA PresentKept ==
  ASSUME Present, self' = self, calls' = calls, input' = input, readResponse' = readResponse,
         results' = results
  PROVE  Present'
<1>1. REQUEST_END' = REQUEST_END /\ Own' = Own
  BY DEF REQUEST_END, Own, Ask, AskQuietly
<1> QED
  BY <1>1 DEF Present, Thrown, IsCommand

LEMMA SentNext ==
  ASSUME ~SendsEarly, TypeOK, Inv, Sent, [Next]_vars
  PROVE  Sent'
<1>1. ASSUME NEW text \in BOOLEAN, NEW answers \in BOOLEAN, Call(text, answers)
      PROVE  Sent'
  BY <1>1, SentCall
<1>2. Thrown(<<>>, 0, results') /\ Len(<<>>) = 0
  BY DEF Thrown
<1>3. pc # "idle" => Present
  BY DEF Sent
<1>4. CASE Write
  <2>1. /\ pc = "write" /\ pc' \in {"readUntil", "log"} /\ deviceInput' = <<>> /\ output' = output
        /\ self' = self /\ calls' = calls /\ input' = input /\ readResponse' = readResponse
        /\ results' = results
        /\ pc' = "log" => ~readResponse
    BY <1>4 DEF Write, Goto, locals, TypeOK
  <2>2. Present'
    BY <1>3, <2>1, PresentKept
  <2> QED
    BY <2>1, <2>2 DEF Sent
<1>5. ASSUME Throw("write") \/ Throw("readUntil"), UNCHANGED <<locals, deviceInput>>
      PROVE  Sent'
  <2>1. /\ pc \in {"write", "readUntil"} /\ pc' = "idle" /\ results' = Append(results, Threw)
        /\ deviceInput' = deviceInput
    BY <1>5 DEF Throw, Goto
  <2>2. Thrown(input, Len(input), results')
    BY <2>1, LeftByThrow
  <2>3. deviceInput = input \/ deviceInput = <<>>
    BY <2>1 DEF Sent
  <2>4. Thrown(deviceInput, Len(deviceInput), results')
    BY <1>2, <2>2, <2>3
  <2> QED
    BY <2>1, <2>4 DEF Sent
<1>6. ASSUME pc \notin {"idle", "write", "log"}, pc' \notin {"idle", "write"},
             self' = self, results' = results,
             deviceInput' = deviceInput, calls' = calls, readResponse' = readResponse, input' = input,
             IF pc' = "log" THEN output' = deviceOutput' ELSE output' = output
      PROVE  Sent'
  <2>1. Present'
    BY <1>3, <1>6, PresentKept
  <2>2. readResponse /\ pc' # "idle"
    BY <1>6 DEF Inv, Incoming, TypeOK
  <2> QED
    BY <1>6, <2>1, <2>2 DEF Sent
<1>7. ASSUME NEW n \in 1 .. Len(toHost), ReadSome(n)
      PROVE  Sent'
  BY <1>6, <1>7 DEF ReadSome, locals
<1>8. CASE ReadUntil
  BY <1>6, <1>8 DEF ReadUntil, Goto, locals, buffers
<1>9. CASE GetCommand
  BY <1>6, <1>9 DEF GetCommand, Goto, locals
<1>10. CASE GetOutput
  BY <1>6, <1>10 DEF GetOutput, Goto
<1>11. ASSUME NEW taken \in 0 .. Len(deviceOutput), Finish(taken)
      PROVE  Sent'
  <2>1. pc = "log" /\ pc' = "idle" /\ deviceInput' = deviceInput
    BY <1>11 DEF Finish, Goto
  <2>2. deviceInput' = <<>>
    BY <2>1 DEF Sent
  <2> QED
    BY <1>2, <2>1, <2>2 DEF Sent
<1>12. ASSUME NEW sent \in 0 .. Len(ostreamBuffer), WriteFails(sent)
       PROVE  Sent'
  BY <1>5, <1>12 DEF WriteFails
<1>13. CASE ReadFails
  BY <1>5, <1>13 DEF ReadFails, buffers
<1>14. ASSUME UNCHANGED <<pc, locals, buffers, results>>
       PROVE  Sent'
  <2>1. pc # "idle" => Present'
    BY <1>3, <1>14, PresentKept DEF locals
  <2> QED
    BY <1>14, <2>1 DEF Sent, locals, buffers
<1>15. CASE Connect
  BY <1>14, <1>15 DEF Connect
<1>16. CASE DeviceAnswers
  BY <1>14, <1>16 DEF DeviceAnswers
<1>17. ASSUME NEW kept \in 0 .. Len(toHost), Break(kept)
       PROVE  Sent'
  BY <1>14, <1>17 DEF Break
<1>18. CASE UNCHANGED vars
  BY <1>14, <1>18 DEF vars
<1> QED
  <2>1. Quiet \in BOOLEAN
    BY ControllerAssumption
  <2> QED
    BY <1>1, <1>4, <1>7, <1>8, <1>9, <1>10, <1>11, <1>12, <1>13, <1>15, <1>16, <1>17, <1>18, <2>1
       DEF Next, Send, Fail

\* The record that a call writes is its own.
LEMMA OwnRecord ==
  ASSUME TypeOK, Inv, Sent, pc = "log"
  PROVE  Recorded(calls, [input |-> input, output |-> output])
<1> DEFINE r == Len(REQUEST_END)  own == Len(input) - r  record == [input |-> input, output |-> output]
<1>1. /\ r \in Nat /\ REQUEST_END \in Seq(Char) /\ input \in Seq(Char) /\ Len(input) \in Nat
      /\ own > 0 /\ own \in Nat
      /\ input[own] = Own
      /\ \A q \in 1 .. r : input[own + q] = REQUEST_END[q]
      /\ Thrown(input, own - 1, results)
  BY Sizes DEF Sent, Present, TypeOK
<1>2. SubSeq(input, own + 1, Len(input)) = REQUEST_END
  <2> DEFINE end == SubSeq(input, own + 1, Len(input))
  <2>1. end \in Seq(Char) /\ Len(end) = r /\ \A q \in 1 .. r : end[q] = input[own + q]
    BY <1>1
  <2> HIDE DEF end
  <2>2. \A q \in 1 .. Len(end) : end[q] = REQUEST_END[q]
    BY <1>1, <2>1
  <2>3. end = REQUEST_END
    BY <1>1, <2>1, <2>2, SeqEqual
  <2> QED
    BY <2>3 DEF end
<1>3. \/ input[own] = Ask(calls) /\ IsAnswer(output, calls)
      \/ input[own] = AskQuietly(calls) /\ output = <<>>
  BY <1>1 DEF Sent, Inv, Incoming, Own
<1>4. ASSUME NEW j \in 1 .. own - 1, IsCommand(input[j])
      PROVE  /\ input[j][2] \in 1 .. calls - 1
             /\ \A i \in input[j][2] .. calls - 1 : results[i] = Threw
             /\ \A i \in 1 .. j - 1 : IsCommand(input[i]) => input[i][2] < input[j][2]
  <2>1. DOMAIN results = 1 .. calls - 1 /\ Len(results) = calls - 1
    BY Sizes DEF TypeOK
  <2> QED
    BY <1>1, <1>4, <2>1 DEF Thrown
<1>5. record.input = input /\ record.output = output
  OBVIOUS
<1> HIDE DEF record
<1>6. Recorded(calls, record)
  BY <1>1, <1>2, <1>3, <1>4, <1>5 DEF Recorded, IsCommand
<1> QED
  BY <1>6 DEF record

LEMMA CompletedFinite ==
  ASSUME TypeOK
  PROVE  /\ IsFiniteSet(Completed) /\ Completed \subseteq DOMAIN results
         /\ Cardinality(Completed) \in Nat
<1>1. DOMAIN results = 1 .. Len(results) /\ Completed \subseteq DOMAIN results /\ Len(results) \in Nat
  BY DEF TypeOK, Completed
<1>2. IsFiniteSet(1 .. Len(results))
  BY <1>1, FS_Interval
<1>3. IsFiniteSet(Completed)
  BY <1>1, <1>2, FS_Subset
<1> QED
  BY <1>1, <1>3, FS_CardinalityType

\* A call that returned has a place in the log.
LEMMA PlaceInLog ==
  ASSUME TypeOK, NEW k \in Completed, NEW before, before = {j \in Completed : j <= k}
  PROVE  Cardinality(before) \in 1 .. Cardinality(Completed)
<1>1. k \in Nat /\ k <= k
  BY DEF TypeOK, Completed
<1>2. before \in SUBSET Completed /\ k \in before
  BY <1>1
<1>3. IsFiniteSet(before) /\ Cardinality(before) <= Cardinality(Completed)
  BY <1>2, CompletedFinite, FS_Subset
<1>4. Cardinality(before) \in Nat /\ Cardinality(before) # 0
  BY <1>2, <1>3, FS_CardinalityType, FS_EmptySet
<1>5. Cardinality(Completed) \in Nat
  BY CompletedFinite
<1> QED
  BY <1>3, <1>4, <1>5

\* What was recorded of a call stays what it is when a later call ends.
LEMMA RecordedKept ==
  ASSUME TypeOK, [Next]_vars, NEW k \in DOMAIN results, NEW record, Recorded(k, record)
  PROVE  Recorded(k, record)'
<1>1. self' = self
  BY ResultsStep
<1>2. \A i \in 1 .. k - 1 : results'[i] = results[i]
  BY ResultsKept DEF TypeOK
<1>3. \A m : m \in 1 .. k - 1 => \A i \in m .. k - 1 : i \in 1 .. k - 1
  BY DEF TypeOK
<1> QED
  BY <1>1, <1>2, <1>3
     DEF Recorded, IsAnswer, EndsOnce, Body, REQUEST_END, RESPONSE_END, Ask, AskQuietly

LEMMA LogMatchesNext ==
  ASSUME ~SendsEarly, TypeOK, Inv, Sent, LogMatches, [Next]_vars
  PROVE  LogMatches'
<1> DEFINE n == Len(results)  Upto(k) == {j \in Completed : j <= k}
<1>1. /\ Len(log) = Cardinality(Completed)
      /\ \A k \in Completed : Recorded(k, log[Cardinality(Upto(k))])
  BY DEF LogMatches
<1>2. /\ IsFiniteSet(Completed) /\ Completed \subseteq DOMAIN results /\ Cardinality(Completed) \in Nat
      /\ n \in Nat /\ DOMAIN results = 1 .. n
  BY CompletedFinite DEF TypeOK
<1>3. ASSUME NEW k \in Completed, NEW record, record = log[Cardinality(Upto(k))]
      PROVE  Recorded(k, record)'
  <2>1. k \in DOMAIN results /\ Recorded(k, record)
    BY <1>1, <1>2, <1>3
  <2> QED
    BY <2>1, RecordedKept
<1>4. ASSUME Completed' = Completed, log' = log
      PROVE  LogMatches'
  <2>1. Len(log') = Cardinality(Completed')
    BY <1>1, <1>4
  <2>2. ASSUME NEW k \in Completed', NEW record,
               record = log'[Cardinality({j \in Completed' : j <= k})]
        PROVE  Recorded(k, record)'
    BY <1>3, <1>4, <2>2
  <2> QED
    BY <2>1, <2>2 DEF LogMatches, Recorded
<1>5. CASE results' = results /\ log' = log
  BY <1>4, <1>5 DEF Completed
<1>6. CASE results' = Append(results, Threw) /\ log' = log
  <2>1. /\ DOMAIN results' = 1 .. n + 1 /\ results'[n + 1] = Threw
        /\ \A k \in 1 .. n : results'[k] = results[k]
    BY <1>6, Appended
  <2>2. Completed' = Completed
    BY <1>2, <2>1 DEF Completed, Threw
  <2> QED
    BY <1>4, <1>6, <2>2
<1>7. ASSUME NEW taken \in 0 .. Len(deviceOutput), Finish(taken)
      PROVE  LogMatches'
  <2> DEFINE record == [input |-> input, output |-> output]
  <2>1. pc = "log" /\ log' = Append(log, record) /\ n + 1 = calls
    BY <1>7, Sizes DEF Finish, Goto
  <2>2. PICK r : results' = Append(results, r) /\ r.how = "returned"
    BY <1>7 DEF Finish, Returned
  <2>3. /\ DOMAIN results' = 1 .. n + 1 /\ results'[n + 1] = r
        /\ \A k \in 1 .. n : results'[k] = results[k]
    BY <2>2, Appended
  <2>4. Completed' = Completed \cup {calls}
    BY <1>2, <2>1, <2>2, <2>3 DEF Completed
  <2>5. calls \notin Completed /\ calls \in Nat
    BY <1>2, <2>1
  <2>6. Cardinality(Completed') = Cardinality(Completed) + 1
    BY <1>2, <2>4, <2>5, FS_AddElement
  <2>7. /\ Len(log') = Len(log) + 1 /\ log'[Len(log) + 1] = record
        /\ \A i \in 1 .. Len(log) : log'[i] = log[i]
    BY <2>1 DEF TypeOK
  <2> HIDE DEF record
  <2>8. ASSUME NEW k \in Completed', NEW written,
               written = log'[Cardinality({j \in Completed' : j <= k})]
        PROVE  Recorded(k, written)'
    <3>1. CASE k \in Completed
      <4>1. {j \in Completed' : j <= k} = Upto(k)
        BY <1>2, <2>1, <2>4, <2>5, <3>1
      <4>2. Cardinality(Upto(k)) \in 1 .. Len(log)
        <5>1. \A before : before = {j \in Completed : j <= k} =>
                Cardinality(before) \in 1 .. Cardinality(Completed)
          BY <3>1, PlaceInLog
        <5>2. Cardinality(Upto(k)) \in 1 .. Cardinality(Completed)
          BY <5>1
        <5> QED
          BY <1>1, <5>2
      <4>3. written = log[Cardinality(Upto(k))]
        BY <2>7, <2>8, <4>1, <4>2
      <4> QED
        BY <1>3, <3>1, <4>3
    <3>2. CASE k = calls
      <4>1. {j \in Completed' : j <= k} = Completed'
        BY <1>2, <2>1, <2>4, <2>5, <3>2
      <4>2. written = record
        BY <1>1, <2>6, <2>7, <2>8, <4>1
      <4>3. Recorded(calls, record)
        BY <2>1, OwnRecord DEF record
      <4>4. self' = self /\ calls' = calls
        BY <1>7 DEF Finish, locals
      <4>5. \A j \in 1 .. calls - 1 : results'[j] = results[j]
        BY <1>2, <2>1, <2>3
      <4>6. \A m : m \in 1 .. calls - 1 => \A i \in m .. calls - 1 : i \in 1 .. calls - 1
        BY <1>2, <2>1
      <4> QED
        BY <3>2, <4>2, <4>3, <4>4, <4>5, <4>6
           DEF Recorded, IsAnswer, EndsOnce, Body, REQUEST_END, RESPONSE_END, Ask, AskQuietly
    <3> QED
      BY <2>4, <2>8, <3>1, <3>2
  <2>9. Len(log') = Cardinality(Completed')
    BY <1>1, <2>6, <2>7
  <2> QED
    BY <2>8, <2>9 DEF LogMatches, Recorded
<1> QED
  BY <1>5, <1>6, <1>7, ResultsStep

\* A call that returns leaves in deviceOutput what it has not taken of its own answer, or of
\* one that was there before.
LEMMA KeptFinish ==
  ASSUME TypeOK, Inv, Sent, Kept, NoThrow, NEW taken \in 0 .. Len(deviceOutput), Finish(taken)
  PROVE  Len(log') = Len(results') /\ (deviceOutput' = <<>> \/ LeftOver')
<1> DEFINE l == Len(log)  record == [input |-> input, output |-> output]
           text == IF returnsText THEN deviceOutput ELSE <<>>
           r == Returned(returnsText /\ readResponse, text)
<1>1. /\ pc = "log" /\ pc' = "idle" /\ log' = Append(log, record) /\ results' = Append(results, r)
      /\ returnsText => taken = Len(deviceOutput)
      /\ deviceOutput' = SubSeq(deviceOutput, taken + 1, Len(deviceOutput))
      /\ self' = self
  BY DEF Finish, TakesOutput, Goto, locals
<1>2. /\ l \in Nat /\ DOMAIN log = 1 .. l /\ Len(results) = l /\ calls = l + 1
      /\ deviceOutput \in Seq(Char) /\ output \in Seq(Char) /\ Len(deviceOutput) \in Nat
      /\ \A k \in 1 .. l : log[k].output \in Seq(Char)
  <2> DEFINE R == [input : Seq(Char), output : Seq(Char)]
  <2>1. log \in Seq(R)
    BY DEF TypeOK
  <2>2. l \in Nat /\ DOMAIN log = 1 .. l /\ \A k \in 1 .. l : log[k].output \in Seq(Char)
    <3>1. \A x \in R : x.output \in Seq(Char)
      OBVIOUS
    <3> HIDE DEF R
    <3>2. l \in Nat /\ DOMAIN log = 1 .. l
      BY <2>1
    <3>3. \A k \in 1 .. l : log[k] \in R
      BY <2>1, <3>2
    <3> QED
      BY <3>1, <3>2, <3>3
  <2>3. deviceOutput \in Seq(Char) /\ output \in Seq(Char) /\ Len(deviceOutput) \in Nat
    BY DEF TypeOK
  <2>4. Len(results) = l
    BY DEF Kept
  <2>5. Len(results) = calls - 1 /\ calls \in 1 .. MaxCalls /\ MaxCalls \in Nat
    BY <1>1, Sizes, CharType
  <2> QED
    BY <2>2, <2>3, <2>4, <2>5
<1>3. /\ record.input = input /\ record.output = output /\ r.text = text
      /\ ~returnsText => text = <<>>
  BY DEF Returned
<1> HIDE DEF record, r, text
<1>4. /\ Len(log') = l + 1 /\ DOMAIN log' = 1 .. l + 1 /\ log'[l + 1] = record
      /\ \A k \in 1 .. l : log'[k] = log[k]
  BY <1>1, <1>2
<1>5. /\ Len(results') = l + 1 /\ results'[l + 1] = r
      /\ \A k \in 1 .. l : results'[k] = results[k]
  <2>1. results \in Seq(Result)
    BY DEF TypeOK, Result
  <2> QED
    BY <1>1, <1>2, <2>1
<1>6. CASE returnsText
  <2>1. deviceOutput' = <<>>
    BY <1>1, <1>2, <1>6, SubSeqEmpty
  <2> QED
    BY <1>4, <1>5, <2>1
<1>7. CASE ~returnsText /\ readResponse
  <2>1. output = deviceOutput
    BY <1>1, <1>7 DEF Sent
  <2> DEFINE k == l + 1
  <2>2. /\ k \in DOMAIN log' /\ taken \in 0 .. Len(log'[k].output)
        /\ deviceOutput' = SubSeq(log'[k].output, taken + 1, Len(log'[k].output))
    BY <1>1, <1>2, <1>3, <1>4, <2>1
  <2>3. \A j \in k .. Len(log') : results'[j].text = <<>>
    BY <1>2, <1>3, <1>4, <1>5, <1>7
  <2>4. \A j \in k + 1 .. Len(log') : log'[j].input = <<AskQuietly(j)>> \o REQUEST_END'
    BY <1>2, <1>4
  <2> HIDE DEF k
  <2>5. LeftOver'
    BY <2>2, <2>3, <2>4 DEF LeftOver, AskQuietly
  <2> QED
    BY <1>4, <1>5, <2>5
<1>8. CASE ~returnsText /\ ~readResponse
  <2>1. deviceOutput = <<>> \/ LeftOver
    BY <1>8 DEF Kept
  <2>2. CASE deviceOutput = <<>>
    <3>1. taken = 0
      BY <2>2
    <3>2. deviceOutput' = <<>>
      BY <1>1, <1>2, <2>2, <3>1, SubSeqEmpty
    <3> QED
      BY <1>4, <1>5, <3>2
  <2>3. CASE LeftOver
    <3>1. PICK k \in DOMAIN log :
            /\ \E n \in 0 .. Len(log[k].output) :
                 deviceOutput = SubSeq(log[k].output, n + 1, Len(log[k].output))
            /\ \A j \in k .. Len(log) : results[j].text = <<>>
            /\ \A j \in k + 1 .. Len(log) : log[j].input = <<AskQuietly(j)>> \o REQUEST_END
      BY <2>3 DEF LeftOver
    <3> DEFINE out == log[k].output
    <3>2. PICK n \in 0 .. Len(out) : deviceOutput = SubSeq(out, n + 1, Len(out))
      BY <3>1
    <3>3. out \in Seq(Char) /\ Len(out) \in Nat /\ k \in 1 .. l /\ log'[k].output = out
      BY <1>2, <1>4
    <3> HIDE DEF out
    <3>4. n + taken \in 0 .. Len(out) /\ deviceOutput' = SubSeq(out, n + taken + 1, Len(out))
      <4>1. /\ Len(deviceOutput) = Len(out) - n
            /\ \A i \in 1 .. Len(out) - n : deviceOutput[i] = out[n + i]
        BY <3>2, <3>3
      <4>2. n + taken \in 0 .. Len(out)
        BY <3>3, <4>1
      <4>3. /\ deviceOutput' \in Seq(Char) /\ Len(deviceOutput') = Len(out) - (n + taken)
            /\ \A i \in 1 .. Len(deviceOutput') : deviceOutput'[i] = deviceOutput[taken + i]
        BY <1>1, <1>2, <3>3, <4>1
      <4>4. /\ SubSeq(out, n + taken + 1, Len(out)) \in Seq(Char)
            /\ Len(SubSeq(out, n + taken + 1, Len(out))) = Len(out) - (n + taken)
            /\ \A i \in 1 .. Len(out) - (n + taken) :
                 SubSeq(out, n + taken + 1, Len(out))[i] = out[n + taken + i]
        BY <3>3, <4>2
      <4>5. ASSUME NEW i \in 1 .. Len(deviceOutput')
            PROVE  deviceOutput'[i] = SubSeq(out, n + taken + 1, Len(out))[i]
        <5>1. taken + i \in 1 .. Len(out) - n /\ i \in 1 .. Len(out) - (n + taken)
              /\ n + (taken + i) = n + taken + i
          BY <3>3, <4>2, <4>3
        <5> QED
          BY <4>1, <4>3, <4>4, <5>1
      <4> QED
        BY <4>2, <4>3, <4>4, <4>5, SeqEqual
    <3>5. ASSUME NEW j \in k .. Len(log') PROVE results'[j].text = <<>>
      <4>1. j \in k .. Len(log) \/ j = l + 1
        BY <1>2, <1>4, <3>3
      <4>2. CASE j \in k .. Len(log)
        <5>1. j \in 1 .. l
          BY <1>2, <3>3, <4>2
        <5> QED
          BY <1>5, <3>1, <4>2, <5>1
      <4>3. CASE j = l + 1
        BY <1>3, <1>5, <1>8, <4>3
      <4> QED
        BY <4>1, <4>2, <4>3
    <3>6. ASSUME NEW j \in k + 1 .. Len(log')
          PROVE  log'[j].input = <<AskQuietly(j)>> \o REQUEST_END
      <4>1. j \in k + 1 .. Len(log) \/ j = l + 1
        BY <1>2, <1>4, <3>3
      <4>2. CASE j \in k + 1 .. Len(log)
        <5>1. j \in 1 .. l
          BY <1>2, <3>3, <4>2
        <5> QED
          BY <1>4, <3>1, <4>2, <5>1
      <4>3. CASE j = l + 1
        <5>1. input = <<AskQuietly(calls)>> \o REQUEST_END
          BY <1>1, <1>8 DEF Kept, Own
        <5> QED
          BY <1>2, <1>3, <1>4, <4>3, <5>1
      <4> QED
        BY <4>1, <4>2, <4>3
    <3>7. k \in DOMAIN log' /\ REQUEST_END' = REQUEST_END
      BY <1>1, <1>2, <1>4, <3>3 DEF REQUEST_END
    <3>8. LeftOver'
      BY <3>3, <3>4, <3>5, <3>6, <3>7 DEF LeftOver, AskQuietly
    <3> QED
      BY <1>4, <1>5, <3>8
  <2> QED
    BY <2>1, <2>2, <2>3
<1> QED
  BY <1>6, <1>7, <1>8

LEMMA KeptNext ==
  ASSUME ~SendsEarly, TypeOK, Inv, Sent, Kept, [Next]_vars
  PROVE  Kept'
<1>1. results' = Append(results, Threw) => Kept'
  BY ThrowSeen DEF Kept
<1>2. ASSUME NEW taken \in 0 .. Len(deviceOutput), Finish(taken)
      PROVE  Kept'
  <2>1. NoThrow' <=> NoThrow
    <3>1. \E asked, text : results' = Append(results, Returned(asked, text))
      BY <1>2 DEF Finish
    <3> QED
      BY <3>1, ThrowSeen
  <2>2. pc' = "idle"
    BY <1>2 DEF Finish, Goto
  <2> QED
    BY <1>2, <2>1, <2>2, KeptFinish DEF Kept
<1>3. ASSUME results' = results, log' = log, self' = self, deviceOutput' = deviceOutput
      PROVE  /\ NoThrow' <=> NoThrow
             /\ LeftOver' <=> LeftOver
  BY <1>3, ThrowSeen DEF LeftOver, REQUEST_END, AskQuietly
<1>4. ASSUME NEW text \in BOOLEAN, NEW answers \in BOOLEAN, Call(text, answers)
      PROVE  Kept'
  <2>1. /\ pc = "idle" /\ pc' = "write"
        /\ results' = results /\ log' = log /\ self' = self /\ deviceOutput' = deviceOutput
        /\ input' = (deviceInput \o <<Own'>>) \o REQUEST_END
    BY <1>4 DEF Call, Goto, Own
  <2>2. Own' \in Char /\ REQUEST_END \in Seq(Char)
    <3>1. calls' \in 0 .. MaxCalls
      BY TypeNext DEF TypeOK
    <3> QED
      BY <3>1, CharType, Sizes DEF Own
  <2>3. ASSUME NoThrow PROVE input' = <<Own'>> \o REQUEST_END
    <3>1. deviceInput = <<>>
      BY <2>1, <2>3 DEF Inv, Clean
    <3> DEFINE x == Own'
    <3>2. <<x>> \in Seq(Char)
      BY <2>2
    <3> HIDE DEF x
    <3>3. <<>> \o <<x>> = <<x>>
      BY <3>2, ConcatEmptySeq
    <3> QED
      BY <2>1, <3>1, <3>3 DEF x
  <2>4. REQUEST_END' = REQUEST_END
    BY <2>1 DEF REQUEST_END
  <2> QED
    BY <1>3, <2>1, <2>3, <2>4 DEF Kept
<1>5. ASSUME results' = results, log' = log, self' = self, deviceOutput' = deviceOutput,
             calls' = calls, input' = input, readResponse' = readResponse,
             pc = "log" => pc' = "log", pc = "idle" => pc' = "idle"
      PROVE  Kept'
  <2>1. Own' = Own /\ REQUEST_END' = REQUEST_END
    BY <1>5 DEF Own, Ask, AskQuietly, REQUEST_END
  <2> QED
    BY <1>3, <1>5, <2>1 DEF Kept
<1>6. CASE GetOutput
  <2>1. /\ pc = "getOutput" /\ pc' = "log" /\ results' = results /\ log' = log /\ self' = self
        /\ calls' = calls /\ input' = input /\ readResponse' = readResponse
    BY <1>6 DEF GetOutput, Goto
  <2>2. readResponse
    BY <2>1 DEF Inv, Incoming
  <2>3. Own' = Own /\ REQUEST_END' = REQUEST_END
    BY <2>1 DEF Own, Ask, AskQuietly, REQUEST_END
  <2>4. NoThrow' <=> NoThrow
    BY <2>1, ThrowSeen
  <2> QED
    BY <2>1, <2>2, <2>3, <2>4 DEF Kept
<1>7. CASE Write
  BY <1>5, <1>7 DEF Write, Goto, locals
<1>8. ASSUME NEW n \in 1 .. Len(toHost), ReadSome(n)
      PROVE  Kept'
  BY <1>5, <1>8 DEF ReadSome, locals
<1>9. CASE ReadUntil
  BY <1>5, <1>9 DEF ReadUntil, Goto, locals, buffers
<1>10. CASE GetCommand
  BY <1>5, <1>10 DEF GetCommand, Goto, locals
<1>11. ASSUME UNCHANGED <<pc, locals, buffers, results, log>>
       PROVE  Kept'
  BY <1>5, <1>11 DEF locals, buffers
<1>12. CASE Connect \/ DeviceAnswers \/ (\E kept \in 0 .. Len(toHost) : Break(kept)) \/ UNCHANGED vars
  <2>1. UNCHANGED <<pc, locals, buffers, results, log>>
    BY <1>12 DEF Connect, DeviceAnswers, Break, vars
  <2> QED
    BY <1>11, <2>1
<1>13. Fail => results' = Append(results, Threw)
  BY DEF Fail, WriteFails, ReadFails, Throw
<1> QED
  <2>1. Quiet \in BOOLEAN
    BY ControllerAssumption
  <2> QED
    BY <1>1, <1>2, <1>4, <1>6, <1>7, <1>8, <1>9, <1>10, <1>12, <1>13, <2>1 DEF Next, Send

LEMMA LInvInit == Init => LInv
<1> SUFFICES ASSUME Init PROVE LInv
  OBVIOUS
<1>1. IInv
  BY IInvInit
<1>2. pc = "idle" /\ deviceInput = <<>> /\ deviceOutput = <<>> /\ results = <<>> /\ log = <<>>
  BY DEF Init
<1>3. Sent /\ Kept
  BY <1>2 DEF Sent, Thrown, Kept
<1>4. Completed = {}
  BY <1>2 DEF Completed
<1>5. LogMatches
  BY <1>2, <1>4, FS_EmptySet DEF LogMatches
<1> QED
  BY <1>1, <1>3, <1>5 DEF LInv

LEMMA LInvNext == LInv /\ [Next]_vars => LInv'
<1> SUFFICES ASSUME LInv, [Next]_vars PROVE LInv'
  OBVIOUS
<1>1. IInv /\ IInv' /\ TypeOK
  BY IInvNext DEF LInv, IInv
<1>2. ASSUME ~SendsEarly PROVE Sent' /\ LogMatches' /\ Kept'
  <2>1. Inv /\ Sent /\ LogMatches /\ Kept
    BY <1>1, <1>2 DEF LInv, IInv, Inv
  <2> QED
    BY <1>1, <1>2, <2>1, SentNext, LogMatchesNext, KeptNext
<1> QED
  BY <1>1, <1>2 DEF LInv

LEMMA LogInductive == Spec => []LInv
BY LInvInit, LInvNext, PTL DEF Spec

\* If nobody sends before connect(), the log has one record for each call that returned, in
\* order, with its command and its answer, and what calls that threw have left unsent goes into
\* the record of the next call that returns and into no other (controller.hpp:279-307).
THEOREM LogHoldsWhatReturned == ASSUME ~SendsEarly PROVE Spec => []LogMatches
<1>1. LInv => LogMatches
  BY DEF LInv
<1> QED
  BY <1>1, LogInductive, PTL

\* If nobody sends before connect(), the buffers that outlive a call (controller.hpp:101-109)
\* hold nothing between two calls until one throws, but the end of an answer that no call has
\* taken since; for all delimiters, and for those of an echo that ends like an answer as long
\* as `istream' is not at its end.
THEOREM BuffersAreEmpty == ASSUME ~SendsEarly PROVE Spec => []LeavesNothing
<1>1. LInv => LeavesNothing
  BY DEF LInv, IInv, Incoming, Clean, NoThrow, Kept, LeavesNothing
<1> QED
  BY <1>1, LogInductive, PTL

-----------------------------------------------------------------------------
(* What a call waits for *)

NeverWaitsInVain ==
  pc = "readUntil" /\ link # "down" /\ istreamGood =>
    \/ Found(istreamBuffer, RESPONSE_END)
    \/ toHost # <<>>
    \/ link = "up" /\ Found(toDevice, REQUEST_END)

\* If nobody sends before connect(), a call that waits in read_until over a connection that
\* has not broken, with a stream that is not at its end, has its answer in the buffer, a piece
\* of it on the way, or a request in front of the device: what a call takes and what it leaves
\* never add up to a wait that a device which answers cannot end (controller.hpp:274-307).
THEOREM AnswersComeIn == ASSUME ~SendsEarly PROVE Spec => []NeverWaitsInVain
<1>1. IInv => NeverWaitsInVain
  <2> SUFFICES ASSUME TypeOK, Outgoing, pc = "readUntil", link # "down", istreamGood, toHost = <<>>
               PROVE  Found(istreamBuffer, RESPONSE_END) \/ (link = "up" /\ Found(toDevice, REQUEST_END))
    BY DEF IInv, NeverWaitsInVain
  <2>1. link = "up"
    BY DEF Outgoing, TypeOK
  <2>2. CASE toDevice = <<>>
    <3>1. istreamBuffer \o toHost = Mine /\ istreamBuffer \in Seq(Char)
      BY <2>1, <2>2 DEF Outgoing, Pending, TypeOK
    <3>2. istreamBuffer = Mine
      BY <3>1, ConcatEmptySeq
    <3>3. Ends(Mine, RESPONSE_END) # {}
      <4>1. /\ Mine \in Seq(Char) /\ Rest \in Seq(Char) /\ Ends(Rest, RESPONSE_END) # {}
            /\ RESPONSE_END \in Seq(Char) /\ REQUEST_END \in Seq(Char) /\ Ask(calls) \in Char
            /\ Mine = IF readCommand THEN (<<Ask(calls)>> \o REQUEST_END) \o Rest ELSE Rest
        BY Replies, Sizes
      <4>2. CASE ~readCommand
        BY <4>1, <4>2
      <4>3. CASE readCommand
        <5> DEFINE head == <<Ask(calls)>> \o REQUEST_END
        <5>1. head \in Seq(Char) /\ Mine = head \o Rest
          BY <4>1, <4>3
        <5> HIDE DEF head
        <5>2. PICK e \in Ends(Rest, RESPONSE_END) : TRUE
          BY <4>1
        <5>3. Len(head) + e \in Ends(head \o Rest, RESPONSE_END)
          BY <4>1, <5>1, <5>2, DelimiterInSuffix
        <5> QED
          BY <5>1, <5>3
      <4> QED
        BY <4>2, <4>3
    <3> QED
      BY <3>2, <3>3 DEF Found
  <2>3. CASE toDevice # <<>>
    <3>1. toDevice \in Seq(Char) /\ Requests(toDevice, REQUEST_END)
      BY <2>1 DEF Outgoing, TypeOK
    <3> QED
      BY <2>1, <2>3, <3>1, FirstRequest
  <2> QED
    BY <2>2, <2>3
<1> QED
  BY <1>1, Inductive, PTL
=============================================================================
