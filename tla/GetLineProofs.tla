--------------------------- MODULE GetLineProofs ---------------------------
(***************************************************************************)
(* getLine loses no character, for any stream and any delimiter, and cuts  *)
(* at the first delimiter when the delimiter is one repeated character.    *)
(***************************************************************************)
EXTENDS GetLine, SequenceTheorems, WellFoundedInduction, TLAPS

LEMMA FirstEndIsFirst ==
  ASSUME NEW S, NEW t \in Seq(S), NEW d \in Seq(S), Found(t, d)
  PROVE  /\ FirstEnd(t, d) \in Len(d) .. Len(t)
         /\ SubSeq(t, FirstEnd(t, d) - Len(d) + 1, FirstEnd(t, d)) = d
         /\ \A i \in Ends(t, d) : FirstEnd(t, d) <= i
<1>1. Ends(t, d) \in SUBSET Nat
  BY DEF Ends
<1>2. PICK n \in Ends(t, d) : TRUE
  BY DEF Found
<1>3. \E m \in Ends(t, d) : \A i \in Ends(t, d) : m <= i
  <2>1. Ends(t, d) # {}
    BY <1>2
  <2>2. PICK m \in Ends(t, d) :
          \A i \in Ends(t, d) : ~ (<<i, m>> \in OpToRel(<, Nat))
    BY <1>1, <2>1, WFMin, NatLessThanWellFounded
  <2>3. ASSUME NEW i \in Ends(t, d), i < m
        PROVE  FALSE
    <3>1. <<i, m>> \in Nat \X Nat /\ <<i, m>>[1] < <<i, m>>[2]
      BY <1>1, <2>3
    <3>2. <<i, m>> \in OpToRel(<, Nat)
      BY <3>1, Zenon DEF OpToRel
    <3> QED
      BY <2>2, <3>2
  <2> QED
    BY <1>1, <2>3
<1>4. FirstEnd(t, d) \in Ends(t, d)
      /\ \A i \in Ends(t, d) : FirstEnd(t, d) <= i
  BY <1>3 DEF FirstEnd
<1> QED
  BY <1>4 DEF Ends

\* The text before the first delimiter and the text after it are texts.
LEMMA SplitType ==
  ASSUME NEW S, NEW t \in Seq(S), NEW d \in Seq(S), Found(t, d)
  PROVE  Before(t, d) \in Seq(S) /\ After(t, d) \in Seq(S)
BY FirstEndIsFirst DEF Before, After

\* Where the characters of the text are. A delimiter is left out of the result,
\* and at the end the stream either was searched to its end or begins after one.
Kept ==
  /\ pc = "call" => text = rest /\ result = <<>> /\ delimPart = <<>>
  /\ pc = "loop" =>
       /\ text = ((result \o delimPart) \o <<c>>) \o rest
       /\ delimPart = SubSeq(delim, 1, Len(delimPart))
       /\ Len(delim) > 1
  /\ pc = "finish" =>
       \/ text = (result \o delimPart) \o rest
       \/ text = (result \o delim) \o rest /\ delimPart = <<>>
  /\ (pc = "done" /\ Len(delim) > 1) =>
       text \in {result \o rest, (result \o delim) \o rest}

LEMMA TypeInit == Init => TypeOK
BY GetLineAssumption DEF Init, TypeOK

LEMMA StdDelimType == TypeOK => StdDelim \in Seq(Character)
BY GetLineAssumption DEF TypeOK, StdDelim

LEMMA PeekAndGetType ==
  ASSUME TypeOK, PeekAndGet
  PROVE  /\ pc' \in {"loop", "finish"}
         /\ good' \in BOOLEAN
         /\ c' \in Character
         /\ rest' \in Seq(Character)
<1>1. rest # <<>> => Head(rest) \in Character /\ Tail(rest) \in Seq(Character)
  BY HeadTailProperties DEF TypeOK
<1> QED
  BY <1>1 DEF TypeOK, PeekAndGet

LEMMA TypeNext == TypeOK /\ Kept /\ [Next]_vars => TypeOK'
<1> SUFFICES ASSUME TypeOK, Kept, [Next]_vars PROVE TypeOK'
  OBVIOUS
<1>1. CASE StdGetline
  <2>1. Found(rest, StdDelim) =>
          Before(rest, StdDelim) \in Seq(Character) /\ After(rest, StdDelim) \in Seq(Character)
    BY StdDelimType, SplitType DEF TypeOK
  <2>2. rest' \in Seq(Character) /\ line' \in Seq(Character)
    <3>1. CASE ~good
      BY <1>1, <3>1 DEF StdGetline, TypeOK
    <3>2. CASE good /\ Found(rest, StdDelim)
      BY <1>1, <2>1, <3>2 DEF StdGetline
    <3>3. CASE good /\ ~Found(rest, StdDelim)
      BY <1>1, <3>3 DEF StdGetline, TypeOK
    <3> QED
      BY <3>1, <3>2, <3>3
  <2>4. good' \in BOOLEAN
    BY <1>1 DEF StdGetline
  <2>3. pc' = "done" /\ UNCHANGED <<text, delim, c, delimPart, result>>
    BY <1>1 DEF StdGetline
  <2> QED
    BY <2>2, <2>3, <2>4 DEF TypeOK
<1>2. CASE GetFirst
  <2>1. rest # <<>> => Head(rest) \in Character /\ Tail(rest) \in Seq(Character)
    BY HeadTailProperties DEF TypeOK
  <2>2. /\ pc' \in {"loop", "finish"} /\ good' \in BOOLEAN
        /\ c' \in Character /\ rest' \in Seq(Character)
    BY <1>2, <2>1 DEF GetFirst, TypeOK
  <2>3. Len(delimPart') < Len(delim')
    BY <1>2 DEF GetFirst, TypeOK, Kept
  <2> QED
    BY <1>2, <2>2, <2>3 DEF GetFirst, TypeOK
<1>3. CASE MatchOne
  <2>1. delimPart' \in Seq(Character) /\ Len(delimPart') = Len(delimPart) + 1
    BY <1>3 DEF MatchOne, TypeOK
  <2> QED
    BY <1>3, <2>1, PeekAndGetType DEF MatchOne, TypeOK
<1>4. CASE MatchLast
  BY <1>4 DEF MatchLast, TypeOK
<1>5. CASE Mismatch
  <2>1. result' \in Seq(Character)
    BY <1>5, ConcatProperties, AppendProperties DEF Mismatch, TypeOK
  <2>2. delimPart' \in Seq(Character) /\ Len(delimPart') = 0 /\ Len(delim) > 0
    BY <1>5 DEF Mismatch, TypeOK
  <2> QED
    BY <1>5, <2>1, <2>2, PeekAndGetType DEF Mismatch, TypeOK
<1>6. CASE Finish
  <2>1. result' \in Seq(Character)
    BY <1>6, ConcatProperties DEF Finish, TypeOK
  <2> QED
    BY <1>6, <2>1 DEF Finish, TypeOK
<1>7. CASE UNCHANGED vars
  BY <1>7 DEF vars, TypeOK
<1> QED
  BY <1>1, <1>2, <1>3, <1>4, <1>5, <1>6, <1>7 DEF Next

-----------------------------------------------------------------------------
LEMMA OneCharacter ==
  ASSUME TypeOK, rest # <<>>
  PROVE  <<Head(rest)>> \o Tail(rest) = rest
<1>1. rest \in Seq(Character) /\ Head(rest) \in Character /\ Tail(rest) \in Seq(Character)
  BY HeadTailProperties DEF TypeOK
<1>2. Tail(rest) = SubSeq(rest, 2, Len(rest))
  BY TailIsSubSeq DEF TypeOK
<1>3. Len(rest) \in Nat /\ Len(rest) > 0
  BY <1>1
<1>4. SubSeq(rest, 1, Len(rest)) = <<rest[1]>> \o SubSeq(rest, 1 + 1, Len(rest))
  BY <1>1, <1>3, SubSeqRecursiveFirst
<1> QED
  BY <1>1, <1>2, <1>4, SubSeqFull

\* A step of the loop moves c into kept, which takes the place of what was there.
LEMMA PeekAndGetKeeps ==
  ASSUME TypeOK, PeekAndGet, NEW kept \in Seq(Character),
         text = (kept \o <<c>>) \o rest
  PROVE  /\ pc' = "loop" => text = ((kept \o <<c>>) \o <<c'>>) \o rest'
         /\ pc' = "finish" => text = (kept \o <<c>>) \o rest'
<1>1. CASE rest = <<>>
  BY <1>1 DEF PeekAndGet
<1>2. CASE rest # <<>>
  <2>1. c' = Head(rest) /\ rest' = Tail(rest) /\ pc' = "loop"
    BY <1>2 DEF PeekAndGet
  <2>2. Head(rest) \in Character /\ Tail(rest) \in Seq(Character)
    BY <1>2, HeadTailProperties DEF TypeOK
  <2>3. <<Head(rest)>> \in Seq(Character) /\ kept \o <<c>> \in Seq(Character)
    BY <2>2, ConcatProperties DEF TypeOK
  <2>4. ((kept \o <<c>>) \o <<Head(rest)>>) \o Tail(rest) = (kept \o <<c>>) \o rest
    BY <1>2, <2>2, <2>3, ConcatAssociative, OneCharacter
  <2> QED
    BY <2>1, <2>4
<1> QED
  BY <1>1, <1>2

LEMMA KeptInit == Init => Kept
BY DEF Init, Kept

LEMMA KeptNext == TypeOK /\ Kept /\ [Next]_vars => Kept'
<1> SUFFICES ASSUME TypeOK, Kept, [Next]_vars PROVE Kept'
  OBVIOUS
<1>0. /\ result \in Seq(Character) /\ delimPart \in Seq(Character) /\ delim \in Seq(Character)
      /\ rest \in Seq(Character) /\ c \in Character /\ <<c>> \in Seq(Character)
      /\ result \o delimPart \in Seq(Character)
  BY ConcatProperties DEF TypeOK
<1>1. CASE StdGetline
  BY <1>0, <1>1 DEF StdGetline, Kept
<1>2. CASE GetFirst
  <2>1. result = <<>> /\ delimPart = <<>> /\ text = rest
    BY <1>2 DEF GetFirst, Kept
  <2>2. (<<>> \o <<>>) \o rest = rest
    BY <1>0, ConcatEmptySeq
  <2>3. rest # <<>> => ((<<>> \o <<>>) \o <<Head(rest)>>) \o Tail(rest) = rest
    <3>1. SUFFICES ASSUME rest # <<>>
                   PROVE  ((<<>> \o <<>>) \o <<Head(rest)>>) \o Tail(rest) = rest
      OBVIOUS
    <3>2. <<Head(rest)>> \in Seq(Character)
      BY <1>0, <3>1, HeadTailProperties
    <3>3. (<<>> \o <<>>) \o <<Head(rest)>> = <<Head(rest)>>
      BY <3>2, ConcatEmptySeq
    <3> QED
      BY <3>1, <3>3, OneCharacter
  <2>4. <<>> = SubSeq(delim, 1, 0)
    BY <1>0
  <2>5. Len(<<>>) = 0
    OBVIOUS
  <2> QED
    BY <1>2, <2>1, <2>2, <2>3, <2>4, <2>5 DEF GetFirst, Kept
<1>3. CASE MatchOne
  <2>1. text = ((result \o delimPart) \o <<c>>) \o rest
    BY <1>3 DEF MatchOne, Kept
  <2>2. (result \o delimPart) \o <<c>> = result \o delimPart'
    <3>1. delimPart' = delimPart \o <<c>>
      BY <1>0, <1>3, AppendIsConcat DEF MatchOne
    <3> QED
      BY <1>0, <3>1, ConcatAssociative
  <2>3. /\ pc' = "loop" => text = ((result \o delimPart') \o <<c'>>) \o rest'
        /\ pc' = "finish" => text = (result \o delimPart') \o rest'
    BY <1>0, <1>3, <2>1, <2>2, PeekAndGetKeeps DEF MatchOne
  <2>4. delimPart' = SubSeq(delim, 1, Len(delimPart'))
    <3>1. /\ delimPart = SubSeq(delim, 1, Len(delimPart)) /\ c = delim[Len(delimPart) + 1]
          /\ Len(delimPart) + 1 \in 1 .. Len(delim)
      BY <1>0, <1>3 DEF MatchOne, Kept, Expected
    <3>2. SubSeq(delim, 1, Len(delimPart) + 1)
            = SubSeq(delim, 1, (Len(delimPart) + 1) - 1) \o <<delim[Len(delimPart) + 1]>>
      BY <1>0, <3>1, SubSeqRecursiveSecond
    <3>3. (Len(delimPart) + 1) - 1 = Len(delimPart)
      BY <1>0
    <3>4. delimPart' = delimPart \o <<c>> /\ Len(delimPart') = Len(delimPart) + 1
      BY <1>0, <1>3, AppendIsConcat, AppendProperties DEF MatchOne
    <3> QED
      BY <3>1, <3>2, <3>3, <3>4
  <2> QED
    BY <1>3, <2>3, <2>4, PeekAndGetType DEF MatchOne, Kept
<1>4. CASE MatchLast
  <2>1. delimPart \o <<c>> = delim
    <3>1. /\ delimPart = SubSeq(delim, 1, Len(delimPart)) /\ c = delim[Len(delim)]
          /\ Len(delimPart) = Len(delim) - 1 /\ Len(delim) \in 1 .. Len(delim)
      BY <1>0, <1>4 DEF MatchLast, Kept, Expected
    <3>2. SubSeq(delim, 1, Len(delim)) = SubSeq(delim, 1, Len(delim) - 1) \o <<delim[Len(delim)]>>
      BY <1>0, <3>1, SubSeqRecursiveSecond
    <3> QED
      BY <1>0, <3>1, <3>2, SubSeqFull
  <2>2. (result \o delimPart) \o <<c>> = result \o delim
    <3>1. (result \o delimPart) \o <<c>> = result \o (delimPart \o <<c>>)
      BY <1>0, ConcatAssociative
    <3> QED
      BY <2>1, <3>1
  <2> QED
    BY <1>4, <2>2 DEF MatchLast, Kept
<1>5. CASE Mismatch
  <2>1. text = ((result \o delimPart) \o <<c>>) \o rest
    BY <1>5 DEF Mismatch, Kept
  <2>2. result' = (result \o delimPart) \o <<c>> /\ delimPart' = <<>>
    BY <1>0, <1>5, AppendIsConcat DEF Mismatch
  <2>3. result' \o delimPart' = (result \o delimPart) \o <<c>>
    BY <1>0, <2>2, ConcatEmptySeq, ConcatProperties
  <2>4. /\ pc' = "loop" => text = ((result' \o delimPart') \o <<c'>>) \o rest'
        /\ pc' = "finish" => text = (result' \o delimPart') \o rest'
    BY <1>0, <1>5, <2>1, <2>3, PeekAndGetKeeps DEF Mismatch
  <2>5. delimPart' = SubSeq(delim, 1, Len(delimPart'))
    BY <1>0, <2>2
  <2> QED
    BY <1>5, <2>4, <2>5, PeekAndGetType DEF Mismatch, Kept
<1>6. CASE Finish
  <2>1. \/ text = (result \o delimPart) \o rest
        \/ text = (result \o delim) \o rest /\ delimPart = <<>>
    BY <1>6 DEF Finish, Kept
  <2>2. result \o <<>> = result
    BY <1>0, ConcatEmptySeq
  <2> QED
    BY <1>6, <2>1, <2>2 DEF Finish, Kept
<1>7. CASE UNCHANGED vars
  BY <1>7 DEF vars, Kept
<1> QED
  BY <1>1, <1>2, <1>3, <1>4, <1>5, <1>6, <1>7 DEF Next

LEMMA Inductive == Spec => [](TypeOK /\ Kept)
<1>1. Init => TypeOK /\ Kept
  BY TypeInit, KeptInit
<1>2. (TypeOK /\ Kept) /\ [Next]_vars => (TypeOK /\ Kept)'
  BY TypeNext, KeptNext
<1> QED
  BY <1>1, <1>2, PTL DEF Spec

\* getLine keeps the types of its locals and delim.at() its bounds (utils.cpp:38).
THEOREM TypeCorrect == Spec => []TypeOK
BY Inductive, PTL

\* Whatever the text and the delimiter, no character is lost (utils.cpp:32-65).
THEOREM LosesNothing == Spec => []NothingLost
<1>1. TypeOK /\ Kept => NothingLost
  BY DEF Kept, NothingLost
<1> QED
  BY <1>1, Inductive, PTL
-----------------------------------------------------------------------------
(* Delimiters of one repeated character *)

Uniform == \A i, j \in DOMAIN delim : delim[i] = delim[j]

\* No delimiter ends in what the loop has behind it, and the part of a delimiter that it
\* holds begins behind another character: so the first delimiter is the one it completes.
\* At the end the stream could not be read, or was searched to its end, or a delimiter was found.
Searched ==
  /\ pc # "done" => line = OldLine
  /\ (pc = "loop" /\ Uniform) =>
       /\ good
       /\ result # <<>> => result[Len(result)] # delim[1]
       /\ \A e \in Ends(text, delim) : e > Len(result) + Len(delimPart)
  /\ (pc = "finish" /\ Uniform) =>
       /\ Len(delim) > 1
       /\ \/ ~good /\ rest = text
          \/ ~good /\ rest = <<>> /\ text = result \o delimPart /\ ~Found(text, delim)
          \/ /\ good /\ Found(text, delim) /\ delimPart = <<>>
             /\ result = Before(text, delim) /\ rest = After(text, delim)
  /\ SplitsAtDelimiter

LEMMA SearchedInit == Init => Searched
BY DEF Init, Searched, SplitsAtDelimiter

\* Where the loop is in the text.
LEMMA Positions ==
  ASSUME TypeOK, Kept, pc = "loop"
  PROVE  LET r == Len(result)  p == Len(delimPart)  n == Len(result) + Len(delimPart) + 1
         IN  /\ r \in Nat /\ p \in Nat /\ Len(delim) \in Nat /\ p < Len(delim) /\ Len(delim) > 1
             /\ Len(text) = n + Len(rest) /\ Len(rest) \in Nat
             /\ \A i \in 1 .. r : text[i] = result[i]
             /\ \A q \in 1 .. p : text[r + q] = delim[q]
             /\ text[n] = c
             /\ \A q \in 1 .. Len(rest) : text[n + q] = rest[q]
<1> DEFINE r == Len(result)  p == Len(delimPart)  n == Len(result) + Len(delimPart) + 1
           front == result \o delimPart  taken == front \o <<c>>
<1>1. /\ result \in Seq(Character) /\ delimPart \in Seq(Character) /\ delim \in Seq(Character)
      /\ rest \in Seq(Character) /\ c \in Character /\ p < Len(delim)
      /\ text = taken \o rest /\ delimPart = SubSeq(delim, 1, p) /\ Len(delim) > 1
  BY DEF TypeOK, Kept
<1>2. /\ front \in Seq(Character) /\ Len(front) = r + p
      /\ \A i \in 1 .. r : front[i] = result[i]
      /\ \A q \in 1 .. p : front[r + q] = delimPart[q]
  BY <1>1
<1>3. r \in Nat /\ p \in Nat /\ Len(delim) \in Nat /\ Len(rest) \in Nat
  BY <1>1
<1> HIDE DEF front
<1>4. /\ taken \in Seq(Character) /\ Len(taken) = r + p + 1 /\ taken[r + p + 1] = c
      /\ \A i \in 1 .. r + p : taken[i] = front[i]
  <2>1. taken = Append(front, c)
    BY <1>1, <1>2, AppendIsConcat
  <2> HIDE DEF taken
  <2> QED
    BY <1>1, <1>2, <1>3, <2>1, AppendProperties
<1> HIDE DEF taken
<1>5. /\ Len(text) = n + Len(rest)
      /\ \A i \in 1 .. n : text[i] = taken[i]
      /\ \A q \in 1 .. Len(rest) : text[n + q] = rest[q]
  <2>1. text = taken \o rest /\ rest \in Seq(Character) /\ taken \in Seq(Character) /\ Len(taken) = n
    BY <1>1, <1>4
  <2>2. /\ Len(taken \o rest) = n + Len(rest)
        /\ \A i \in 1 .. n + Len(rest) :
             (taken \o rest)[i] = IF i <= n THEN taken[i] ELSE rest[i - n]
    <3>1. /\ Len(taken \o rest) = Len(taken) + Len(rest)
          /\ \A i \in 1 .. Len(taken) + Len(rest) :
               (taken \o rest)[i] = IF i <= Len(taken) THEN taken[i] ELSE rest[i - Len(taken)]
      BY <2>1, ConcatProperties, Zenon
    <3> HIDE DEF n
    <3> QED
      BY <2>1, <3>1
  <2>3. ASSUME NEW q \in 1 .. Len(rest)
        PROVE  n + q \in 1 .. n + Len(rest) /\ ~(n + q <= n) /\ n + q - n = q
    BY <1>3
  <2>4. ASSUME NEW i \in 1 .. n PROVE i \in 1 .. n + Len(rest) /\ i <= n
    BY <1>3
  <2> QED
    BY <2>1, <2>2, <2>3, <2>4
<1>6. \A q \in 1 .. p : delimPart[q] = delim[q]
  BY <1>1, <1>3
<1>7. \A i \in 1 .. r : text[i] = result[i]
  BY <1>2, <1>3, <1>4, <1>5
<1>8. ASSUME NEW q \in 1 .. p PROVE text[r + q] = delim[q]
  <2>1. r + q \in 1 .. r + p /\ r + q \in 1 .. n
    BY <1>3
  <2>2. text[r + q] = front[r + q]
    BY <1>4, <1>5, <2>1
  <2> QED
    BY <1>2, <1>6, <2>2
<1>9. text[n] = c
  BY <1>3, <1>4, <1>5
<1> QED
  BY <1>1, <1>3, <1>5, <1>7, <1>8, <1>9

\* A delimiter ends at c when c completes it, and only then.
LEMMA EndsHere ==
  ASSUME TypeOK, Kept, Searched, pc = "loop", Uniform
  PROVE  LET n == Len(result) + Len(delimPart) + 1
         IN  /\ \A e \in Ends(text, delim) : e >= n
             /\ n \in Ends(text, delim) <=> c = Expected /\ Len(delimPart) + 1 = Len(delim)
<1> DEFINE r == Len(result)  p == Len(delimPart)  n == Len(result) + Len(delimPart) + 1
           d == Len(delim)
<1>1. /\ r \in Nat /\ p \in Nat /\ d \in Nat /\ p < d /\ d > 1 /\ Len(text) = n + Len(rest)
      /\ Len(rest) \in Nat
      /\ \A i \in 1 .. r : text[i] = result[i]
      /\ \A q \in 1 .. p : text[r + q] = delim[q]
      /\ text[n] = c
  BY Positions
<1>2. /\ result # <<>> => result[r] # delim[1]
      /\ \A e \in Ends(text, delim) : e > r + p
  BY DEF Searched
<1>3. /\ text \in Seq(Character) /\ delim \in Seq(Character)
      /\ \A q \in 1 .. d : delim[q] = delim[1]
      /\ Expected = delim[1]
  <2>1. text \in Seq(Character) /\ delim \in Seq(Character) /\ DOMAIN delim = 1 .. d
    BY DEF TypeOK
  <2>2. 1 \in DOMAIN delim /\ p + 1 \in DOMAIN delim
    BY <1>1, <2>1
  <2> QED
    BY <2>1, <2>2 DEF Uniform, Expected
<1>4. \A e \in Ends(text, delim) : e >= n
  <2>1. ASSUME NEW e \in Ends(text, delim) PROVE e >= n
    <3>1. e \in Int /\ e > r + p
      BY <1>2 DEF Ends
    <3> QED
      BY <1>1, <3>1
  <2> QED
    BY <2>1
<1>5. ASSUME n \in Ends(text, delim)
      PROVE  c = Expected /\ p + 1 = d
  <2>1. n >= d /\ SubSeq(text, n - d + 1, n) = delim
    BY <1>1, <1>5 DEF Ends
  <2>2. \A q \in 1 .. d : SubSeq(text, n - d + 1, n)[q] = text[n - d + q]
    BY <1>1, <1>3, <2>1
  <2>3. \A q \in 1 .. d : text[n - d + q] = delim[1]
    BY <1>3, <2>1, <2>2
  <2>4. c = Expected
    <3>1. d \in 1 .. d /\ n - d + d = n
      BY <1>1
    <3> QED
      BY <1>1, <1>3, <2>3, <3>1
  <2>5. SUFFICES ASSUME p + 1 < d PROVE FALSE
    BY <1>1, <2>4
  <2>6. r \in 1 .. r /\ r - (n - d) \in 1 .. d /\ n - d + (r - (n - d)) = r
    BY <1>1, <2>1, <2>5
  <2>7. text[r] = delim[1] /\ text[r] = result[r]
    BY <1>1, <2>3, <2>6
  <2>8. result # <<>>
    BY <1>1, <2>6
  <2> QED
    BY <1>2, <2>7, <2>8
<1>6. ASSUME c = Expected, p + 1 = d
      PROVE  n \in Ends(text, delim)
  <2> DEFINE last == SubSeq(text, r + 1, r + d)
  <2>1. n = r + d /\ r + d <= Len(text) /\ n - d + 1 = r + 1
    BY <1>1, <1>6
  <2>2. last \in Seq(Character) /\ Len(last) = d /\ \A q \in 1 .. d : last[q] = text[r + q]
    BY <1>1, <1>3, <2>1
  <2> HIDE DEF last
  <2>3. ASSUME NEW q \in 1 .. d PROVE text[r + q] = delim[q]
    <3>1. CASE q = d
      BY <1>1, <1>3, <1>6, <2>1, <3>1
    <3>2. CASE q # d
      <4>1. q \in 1 .. p
        BY <1>1, <1>6, <3>2
      <4> QED
        BY <1>1, <4>1
    <3> QED
      BY <3>1, <3>2
  <2>4. last = delim
    BY <1>3, <2>2, <2>3, SeqEqual
  <2>5. n \in d .. Len(text)
    BY <1>1, <2>1
  <2> QED
    BY <2>1, <2>4, <2>5 DEF Ends, last
<1> QED
  BY <1>4, <1>5, <1>6

\* The loop goes on behind c, or stops with the whole text behind it.
LEMMA SearchOn ==
  ASSUME TypeOK, TypeOK', Kept, Kept', Searched, pc = "loop", PeekAndGet,
         UNCHANGED <<text, delim, line>>,
         Uniform => ~(c = Expected /\ Len(delimPart) + 1 = Len(delim)),
         Len(result') + Len(delimPart') = Len(result) + Len(delimPart) + 1,
         Uniform /\ result' # <<>> => result'[Len(result')] # delim[1]
  PROVE  Searched'
<1> DEFINE n == Len(result) + Len(delimPart) + 1
<1>1. /\ Len(text) = n + Len(rest) /\ n \in Nat /\ Len(rest) \in Nat /\ rest \in Seq(Character)
      /\ Len(delim) > 1
  BY Positions DEF TypeOK
<1>2. Uniform' = Uniform
  BY DEF Uniform
<1>3. ASSUME Uniform PROVE \A e \in Ends(text, delim) : e > n
  <2>1. (\A e \in Ends(text, delim) : e >= n) /\ n \notin Ends(text, delim)
    BY <1>3, EndsHere
  <2>2. Ends(text, delim) \subseteq Int
    BY DEF Ends
  <2> QED
    BY <1>1, <2>1, <2>2
<1>4. pc' \in {"loop", "finish"} /\ line' = OldLine
  BY DEF PeekAndGet, Searched
<1>5. CASE rest # <<>>
  <2>1. pc' = "loop" /\ good' = good
    BY <1>5 DEF PeekAndGet
  <2>2. Uniform => good
    BY DEF Searched
  <2> QED
    BY <1>2, <1>3, <1>4, <2>1, <2>2 DEF Searched, SplitsAtDelimiter
<1>6. CASE rest = <<>>
  <2>1. pc' = "finish" /\ ~good' /\ rest' = <<>>
    BY <1>6 DEF PeekAndGet
  <2>2. ASSUME Uniform PROVE ~Found(text, delim)
    <3>1. Len(text) = n
      BY <1>1, <1>6
    <3>2. \A e \in Ends(text, delim) : e <= Len(text) /\ e \in Int
      BY DEF Ends
    <3> QED
      BY <1>1, <1>3, <2>2, <3>1, <3>2 DEF Found
  <2>3. text = result' \o delimPart'
    <3>1. /\ result' \in Seq(Character) /\ delimPart' \in Seq(Character) /\ delim \in Seq(Character)
          /\ result' \o delimPart' \in Seq(Character)
      BY ConcatProperties DEF TypeOK
    <3>2. \/ text = (result' \o delimPart') \o <<>>
          \/ text = (result' \o delim) \o <<>> /\ delimPart' = <<>>
      BY <2>1 DEF Kept
    <3>3. CASE text = (result' \o delimPart') \o <<>>
      BY <3>1, <3>3, ConcatEmptySeq
    <3>4. CASE text = (result' \o delim) \o <<>> /\ delimPart' = <<>>
      <4>1. Len(text) = Len(result') + Len(delim)
        BY <3>1, <3>4
      <4>2. Len(result') + 0 = n /\ Len(text) = n /\ Len(result') \in Nat
        BY <1>1, <1>6, <3>1, <3>4
      <4> QED
        BY <1>1, <4>1, <4>2
    <3> QED
      BY <3>2, <3>3, <3>4
  <2> QED
    BY <1>1, <1>2, <1>4, <2>1, <2>2, <2>3 DEF Searched, SplitsAtDelimiter
<1> QED
  BY <1>5, <1>6

\* A delimiter of at most one character is left to std::getline.
LEMMA SearchedStd ==
  ASSUME TypeOK, Kept, Searched, StdGetline
  PROVE  Searched'
<1>1. /\ pc = "call" /\ pc' = "done" /\ text' = text /\ delim' = delim /\ rest = text
      /\ line = OldLine
      /\ good' = (good /\ Found(rest, StdDelim))
      /\ IF ~good THEN UNCHANGED <<rest, line>>
         ELSE IF Found(rest, StdDelim)
              THEN line' = Before(rest, StdDelim) /\ rest' = After(rest, StdDelim)
              ELSE line' = rest /\ rest' = <<>>
  BY DEF StdGetline, Kept, Searched
<1>2. ReferenceDelim' = StdDelim
  BY <1>1 DEF ReferenceDelim, StdDelim
<1> DEFINE found == Found(text, StdDelim)
<1>3. ASSUME good' \/ rest' # text
      PROVE  IF found THEN good' /\ rest' = After(text, StdDelim) /\ line' = Before(text, StdDelim)
                      ELSE ~good' /\ rest' = <<>> /\ line' = text
  BY <1>1, <1>3
<1>4. SplitsAtDelimiter'
  BY <1>1, <1>2, <1>3 DEF SplitsAtDelimiter
<1> QED
  BY <1>1, <1>4 DEF Searched

\* The delimiter that c completes is the first one, and separates what the loop has
\* behind it from what the stream holds.
LEMMA SearchedFound ==
  ASSUME TypeOK, Kept, Searched, MatchLast
  PROVE  Searched'
<1> DEFINE r == Len(result)  p == Len(delimPart)  d == Len(delim)
           n == Len(result) + Len(delimPart) + 1
<1>1. /\ pc = "loop" /\ pc' = "finish" /\ c = Expected /\ p + 1 = d /\ delimPart' = <<>>
      /\ UNCHANGED <<text, delim, rest, good, result, line>>
  BY DEF MatchLast
<1>2. /\ r \in Nat /\ p \in Nat /\ d \in Nat /\ d > 1 /\ Len(text) = n + Len(rest)
      /\ Len(rest) \in Nat
      /\ \A i \in 1 .. r : text[i] = result[i]
      /\ \A q \in 1 .. Len(rest) : text[n + q] = rest[q]
  BY <1>1, Positions
<1>3. /\ text \in Seq(Character) /\ delim \in Seq(Character)
      /\ result \in Seq(Character) /\ rest \in Seq(Character)
  BY DEF TypeOK
<1>4. ASSUME Uniform
      PROVE  good /\ Found(text, delim) /\ result = Before(text, delim) /\ rest = After(text, delim)
  <2>1. good
    BY <1>1, <1>4 DEF Searched
  <2>2. n \in Ends(text, delim) /\ \A e \in Ends(text, delim) : n <= e
    <3>1. n \in Ends(text, delim) /\ \A e \in Ends(text, delim) : e >= n
      BY <1>1, <1>4, EndsHere
    <3>2. Ends(text, delim) \subseteq Int
      BY DEF Ends
    <3> QED
      BY <1>2, <3>1, <3>2
  <2>3. /\ Found(text, delim)
        /\ Before(text, delim) = SubSeq(text, 1, n - d)
        /\ After(text, delim) = SubSeq(text, n + 1, Len(text))
    <3>1. FirstEnd(text, delim) = n
      <4>1. Found(text, delim)
        BY <2>2 DEF Found
      <4>2. FirstEnd(text, delim) \in Ends(text, delim)
        BY <1>3, <4>1, FirstEndIsFirst DEF Ends
      <4>3. FirstEnd(text, delim) <= n /\ n <= FirstEnd(text, delim)
        BY <1>3, <2>2, <4>1, <4>2, FirstEndIsFirst
      <4>4. FirstEnd(text, delim) \in Int
        BY <4>2 DEF Ends
      <4> QED
        BY <1>2, <4>3, <4>4
    <3> QED
      BY <2>2, <3>1 DEF Found, Before, After
  <2>4. SubSeq(text, 1, n - d) = result
    <3> DEFINE head == SubSeq(text, 1, r)
    <3>1. head \in Seq(Character) /\ Len(head) = r /\ \A i \in 1 .. r : head[i] = text[i]
      BY <1>2, <1>3
    <3> HIDE DEF head
    <3>2. head = result
      BY <1>2, <1>3, <3>1, SeqEqual
    <3>3. n - d = r
      BY <1>1, <1>2
    <3> QED
      BY <3>2, <3>3 DEF head
  <2>5. SubSeq(text, n + 1, Len(text)) = rest
    <3> DEFINE tail == SubSeq(text, n + 1, Len(text))
    <3>1. /\ tail \in Seq(Character) /\ Len(tail) = Len(rest)
          /\ \A q \in 1 .. Len(rest) : tail[q] = text[n + q]
      BY <1>2, <1>3
    <3> HIDE DEF tail
    <3>2. tail = rest
      BY <1>2, <1>3, <3>1, SeqEqual
    <3> QED
      BY <3>2 DEF tail
  <2> QED
    BY <2>1, <2>3, <2>4, <2>5
<1>5. Uniform' = Uniform
  BY <1>1 DEF Uniform
<1> QED
  BY <1>1, <1>2, <1>4, <1>5 DEF Searched, SplitsAtDelimiter

LEMMA SearchedNext == TypeOK /\ Kept /\ Searched /\ [Next]_vars => Searched'
<1> SUFFICES ASSUME TypeOK, Kept, Searched, [Next]_vars PROVE Searched'
  OBVIOUS
<1>0. /\ TypeOK' /\ Kept'
      /\ result \in Seq(Character) /\ delimPart \in Seq(Character) /\ c \in Character
  BY TypeNext, KeptNext DEF TypeOK
<1>1. CASE StdGetline
  BY <1>1, SearchedStd
<1>2. CASE GetFirst
  <2>1. /\ pc = "call" /\ text' = text /\ delim' = delim /\ result' = <<>> /\ delimPart' = <<>>
        /\ line' = OldLine /\ Len(delim) > 1 /\ rest = text
        /\ \/ good /\ pc' = "loop" /\ good' = good
           \/ pc' = "finish" /\ good' = FALSE /\ rest' = text
    BY <1>2 DEF GetFirst, Kept, Searched
  <2>2. \A e \in Ends(text, delim) : e > Len(<<>>) + Len(<<>>)
    BY <2>1 DEF Ends, TypeOK
  <2>3. Uniform' = Uniform
    BY <2>1 DEF Uniform
  <2> QED
    BY <2>1, <2>2, <2>3 DEF Searched, SplitsAtDelimiter
<1>3. CASE MatchOne
  <2>1. /\ pc = "loop" /\ PeekAndGet /\ UNCHANGED <<text, delim, line>> /\ result' = result
        /\ Len(delimPart) + 1 < Len(delim)
    BY <1>3 DEF MatchOne
  <2>2. Len(delimPart') = Len(delimPart) + 1 /\ Len(result) \in Nat /\ Len(delimPart) \in Nat
        /\ Len(delim) \in Nat
    BY <1>0, <1>3 DEF MatchOne, TypeOK
  <2>3. Uniform /\ result' # <<>> => result'[Len(result')] # delim[1]
    BY <2>1 DEF Searched
  <2>4. ~(c = Expected /\ Len(delimPart) + 1 = Len(delim))
        /\ Len(result') + Len(delimPart') = Len(result) + Len(delimPart) + 1
    BY <2>1, <2>2
  <2> QED
    BY <1>0, <2>1, <2>3, <2>4, SearchOn
<1>4. CASE MatchLast
  BY <1>4, SearchedFound
<1>5. CASE Mismatch
  <2>1. /\ pc = "loop" /\ PeekAndGet /\ UNCHANGED <<text, delim, line>>
        /\ c # Expected /\ delimPart' = <<>> /\ result' = Append(result \o delimPart, c)
    BY <1>5 DEF Mismatch
  <2>2. /\ Len(result') = Len(result) + Len(delimPart) + 1
        /\ result'[Len(result')] = c /\ Len(delimPart') = 0
        /\ Len(result) \in Nat /\ Len(delimPart) \in Nat
    BY <1>0, <2>1
  <2>3. Uniform => Expected = delim[1]
    <3>1. Len(delimPart) + 1 \in DOMAIN delim /\ 1 \in DOMAIN delim
      BY <2>1, <2>2 DEF TypeOK, Kept
    <3> QED
      BY <3>1 DEF Uniform, Expected
  <2>4. Uniform /\ result' # <<>> => result'[Len(result')] # delim[1]
    BY <2>1, <2>2, <2>3
  <2>5. Len(result') + Len(delimPart') = Len(result) + Len(delimPart) + 1
    BY <2>2
  <2> QED
    BY <1>0, <2>1, <2>4, <2>5, SearchOn
<1>6. CASE Finish
  <2>1. /\ pc = "finish" /\ pc' = "done" /\ UNCHANGED <<text, delim, rest, good>>
        /\ result' = result \o delimPart
        /\ line' = IF result' # <<>> THEN result' ELSE OldLine
    BY <1>6 DEF Finish, Searched
  <2>2. Uniform' = Uniform
    BY <2>1 DEF Uniform
  <2>3. ASSUME Uniform PROVE SplitsAtDelimiter'
    <3>1. /\ Len(delim) > 1
          /\ \/ ~good /\ rest = text
             \/ ~good /\ rest = <<>> /\ text = result \o delimPart /\ ~Found(text, delim)
             \/ /\ good /\ Found(text, delim) /\ delimPart = <<>>
                /\ result = Before(text, delim) /\ rest = After(text, delim)
      BY <2>1, <2>3 DEF Searched
    <3>2. ReferenceDelim' = delim
      BY <2>1, <3>1 DEF ReferenceDelim
    <3>3. CASE ~good /\ rest = text
      BY <2>1, <3>3 DEF SplitsAtDelimiter
    <3>4. CASE ~good /\ rest = <<>> /\ text = result \o delimPart /\ ~Found(text, delim)
      BY <2>1, <3>2, <3>4 DEF SplitsAtDelimiter
    <3>5. CASE /\ good /\ Found(text, delim) /\ delimPart = <<>>
               /\ result = Before(text, delim) /\ rest = After(text, delim)
      <4>1. result' = Before(text, delim)
        BY <1>0, <2>1, <3>5, ConcatEmptySeq
      <4> QED
        BY <2>1, <3>2, <3>5, <4>1 DEF SplitsAtDelimiter
    <3> QED
      BY <3>1, <3>3, <3>4, <3>5
  <2>4. ~Uniform => SplitsAtDelimiter'
    BY <2>1, <2>2 DEF SplitsAtDelimiter, Uniform
  <2> QED
    BY <2>1, <2>3, <2>4 DEF Searched
<1>7. CASE UNCHANGED vars
  <2>1. Uniform' = Uniform /\ SplitsAtDelimiter'
    BY <1>7 DEF vars, Uniform, Searched, SplitsAtDelimiter, ReferenceDelim
  <2> QED
    BY <1>7, <2>1 DEF vars, Searched
<1> QED
  BY <1>1, <1>2, <1>3, <1>4, <1>5, <1>6, <1>7 DEF Next

\* A line ends at the first delimiter, for every text and every delimiter of one repeated
\* character, and is the rest of the stream when there is none (utils.cpp:26-67).
THEOREM LinesEndAtDelimiters == Spec => []SplitsAtDelimiter
<1>1. Init => TypeOK /\ Kept /\ Searched
  BY TypeInit, KeptInit, SearchedInit
<1>2. (TypeOK /\ Kept /\ Searched) /\ [Next]_vars => (TypeOK /\ Kept /\ Searched)'
  BY TypeNext, KeptNext, SearchedNext
<1>3. Searched => SplitsAtDelimiter
  BY DEF Searched
<1> QED
  BY <1>1, <1>2, <1>3, PTL DEF Spec
-----------------------------------------------------------------------------
(* How long a call can take *)

\* What is left to be done: a step for each character of the stream and for the
\* rest of the code.
StepsLeft == Len(rest) + CASE pc = "call" -> 3 [] pc = "loop" -> 2 [] pc = "finish" -> 1 [] pc = "done" -> 0
EveryStepCounts == [][StepsLeft' < StepsLeft]_vars

LEMMA PeekAndGetCounts ==
  ASSUME TypeOK, pc = "loop", PeekAndGet
  PROVE  StepsLeft' < StepsLeft
<1>1. Len(rest) \in Nat /\ (rest # <<>> => Len(Tail(rest)) = Len(rest) - 1)
  BY HeadTailProperties DEF TypeOK
<1>2. CASE rest = <<>>
  <2>1. pc' = "finish" /\ rest' = rest
    BY <1>2 DEF PeekAndGet
  <2> QED
    BY <1>1, <2>1 DEF StepsLeft
<1>3. CASE rest # <<>>
  <2>1. pc' = "loop" /\ rest' = Tail(rest)
    BY <1>3 DEF PeekAndGet
  <2> QED
    BY <1>1, <1>3, <2>1 DEF StepsLeft
<1> QED
  BY <1>2, <1>3

\* A call of getLine takes at most three steps more than the stream has characters,
\* whatever the text and the delimiter: every step leaves fewer to be done, and there
\* is a number of them from the start (utils.cpp:36-62).
THEOREM EndsInTime == Spec => [](StepsLeft \in Nat) /\ EveryStepCounts
<1>1. TypeOK => StepsLeft \in Nat
  <2> SUFFICES ASSUME TypeOK PROVE StepsLeft \in Nat
    OBVIOUS
  <2>1. Len(rest) \in Nat /\ pc \in {"call", "loop", "finish", "done"}
    BY DEF TypeOK
  <2> QED
    BY <2>1 DEF StepsLeft
<1>2. (TypeOK /\ Kept) /\ [Next]_vars => [StepsLeft' < StepsLeft]_vars
  <2> SUFFICES ASSUME TypeOK, Kept, Next PROVE StepsLeft' < StepsLeft
    OBVIOUS
  <2>1. Len(rest) \in Nat /\ (rest # <<>> => Len(Tail(rest)) = Len(rest) - 1)
    BY HeadTailProperties DEF TypeOK
  <2>2. CASE StdGetline
    <3>1. pc = "call" /\ pc' = "done"
      BY <2>2 DEF StdGetline
    <3>2. Len(rest') \in Nat /\ Len(rest') <= Len(rest)
      <4>1. CASE ~good
        BY <2>1, <2>2, <4>1 DEF StdGetline
      <4>2. CASE good /\ Found(rest, StdDelim)
        <5>1. rest \in Seq(Character) /\ StdDelim \in Seq(Character)
          BY StdDelimType DEF TypeOK
        <5>2. FirstEnd(rest, StdDelim) \in 0 .. Len(rest)
          <6>1. FirstEnd(rest, StdDelim) \in Len(StdDelim) .. Len(rest) /\ Len(StdDelim) \in Nat
            BY <4>2, <5>1, FirstEndIsFirst
          <6> QED
            BY <6>1
        <5>3. rest' = SubSeq(rest, FirstEnd(rest, StdDelim) + 1, Len(rest))
          BY <2>2, <4>2 DEF StdGetline, After
        <5> QED
          BY <2>1, <5>1, <5>2, <5>3
      <4>3. CASE good /\ ~Found(rest, StdDelim)
        BY <2>1, <2>2, <4>3 DEF StdGetline
      <4> QED
        BY <4>1, <4>2, <4>3
    <3> QED
      BY <2>1, <3>1, <3>2 DEF StepsLeft
  <2>3. CASE GetFirst
    <3>1. pc = "call" /\ (rest' = rest \/ (rest # <<>> /\ rest' = Tail(rest))) /\ pc' \in {"loop", "finish"}
      BY <2>3 DEF GetFirst
    <3> QED
      BY <2>1, <3>1 DEF StepsLeft
  <2>4. CASE MatchOne
    BY <2>4, PeekAndGetCounts DEF MatchOne
  <2>5. CASE MatchLast
    <3>1. pc = "loop" /\ pc' = "finish" /\ rest' = rest
      BY <2>5 DEF MatchLast
    <3> QED
      BY <2>1, <3>1 DEF StepsLeft
  <2>6. CASE Mismatch
    BY <2>6, PeekAndGetCounts DEF Mismatch
  <2>7. CASE Finish
    <3>1. pc = "finish" /\ pc' = "done" /\ rest' = rest
      BY <2>7 DEF Finish
    <3> QED
      BY <2>1, <3>1 DEF StepsLeft
  <2> QED
    BY <2>2, <2>3, <2>4, <2>5, <2>6, <2>7 DEF Next
<1> QED
  BY <1>1, <1>2, Inductive, PTL DEF Spec, EveryStepCounts
=============================================================================
