---------------------------- MODULE LogFileProofs ----------------------------
(***************************************************************************)
(* Proofs about LogFile: for any number of sessions, records and crashes,  *)
(* a replay hands out the scans of the first session that are whole in the *)
(* file, and of a file of one session nothing else but what is left of the *)
(* record that a crash has cut.                                            *)
(***************************************************************************)
EXTENDS LogFile, SequenceTheorems, FiniteSetTheorems, WellFoundedInduction, TLAPS

-----------------------------------------------------------------------------
(* The inductive invariant *)

Stream == [read : 0 .. Len(file), eof : BOOLEAN, fail : BOOLEAN]
Calls(last) == [session : 1 .. last, command : Command]
Types ==
  /\ timed \in Timed
  /\ file \in Seq(Char)
  /\ pc \in {"closed", "recording", "replaying", "reading"}
  /\ sessions \in 0 .. MaxSessions /\ (pc = "recording" => sessions # 0)
  /\ durable \in 0 .. Len(file)
  /\ issued \in Seq(Calls(sessions)) /\ Len(issued) <= MaxWrites
  /\ recordEnd \in Seq(Nat) /\ Len(recordEnd) = Len(issued)
  /\ metadataWritten \in BOOLEAN /\ metadataRead \in BOOLEAN
  /\ stream \in Stream
  /\ logCommand \in Seq(Char)
  /\ replayed \in Seq(Seq(Char))

\* Where record n of the first session that wrote ends, and what is in front of it from p
\* on, as far as the text goes: the same characters for a Log and, up to its time, a TimedLog.
End(t, n) == IF t THEN 2 + 8 * n ELSE 2 + 6 * n
Holds(text, i, x) == i <= Len(text) => text[i] = x
MetadataAt(text) == Holds(text, 1, <<"metadata", 1>>) /\ Holds(text, 2, MESSAGE_END)
RecordAt(text, t, p, n) ==
  /\ Holds(text, p + 1, <<"command", n>>) /\ Holds(text, p + 2, <<"lf", n>>)
  /\ Holds(text, p + 3, MESSAGE_END)
  /\ Holds(text, p + 4, <<"response", n>>) /\ Holds(text, p + 5, <<"end", n>>)
  /\ Holds(text, p + 6, MESSAGE_END)
  /\ t => Holds(text, p + 7, <<"time", n>>) /\ Holds(text, p + 8, MESSAGE_END)

\* The records of that session that are whole in the file; they are the first ones of all.
Whole(n) == n \in DOMAIN issued /\ issued[n].session = issued[1].session /\ recordEnd[n] > 0
Written ==
  /\ \A m, n \in DOMAIN issued : m <= n => issued[m].session <= issued[n].session
  /\ issued = <<>> => file = <<>>
  /\ \A n \in DOMAIN issued : Whole(n) =>
       /\ recordEnd[n] = End(timed, n) /\ End(timed, n) <= Len(file)
       /\ MetadataAt(file) /\ RecordAt(file, timed, End(timed, n - 1), n)
       /\ \A k \in 1 .. n : Whole(k)
       /\ pc = "recording" /\ issued[1].session < sessions => End(timed, n) <= durable
  /\ pc = "recording" /\ (\A n \in DOMAIN issued : issued[n].session = sessions) =>
       /\ metadataWritten <=> issued # <<>>
       /\ issued # <<>> => Len(file) = End(timed, Len(issued))
       /\ \A n \in DOMAIN issued : Whole(n)

\* In a file of one session every record is whole or behind the end.
OneSession ==
  sessions = 1 =>
    /\ MetadataAt(file)
    /\ \A n \in DOMAIN issued : RecordAt(file, timed, End(timed, n - 1), n)
                                /\ (recordEnd[n] = 0 => Len(file) < End(timed, n))
    /\ Len(file) <= End(timed, Len(issued))

\* A replay has come to the end of record r of the first session, or behind its whole records.
Reached(r) ==
  /\ r = 0 \/ Whole(r)
  /\ ~stream.eof /\ ~stream.fail
  /\ metadataRead <=> r # 0
  /\ stream.read = IF r = 0 THEN 0 ELSE End(timed, r)
  /\ Len(replayed) = Place(r, FirstSession)
Beyond ==
  /\ Cardinality(FirstSession) <= Len(replayed)
  /\ pc = "replaying" => Cardinality(FirstSession) < Len(replayed)
  /\ sessions = 1 => metadataRead /\ (stream.eof \/ stream.fail)
Replayed ==
  /\ pc \notin {"replaying", "reading"} => replayed = <<>> /\ stream = Fresh
  /\ pc \in {"replaying", "reading"} => Beyond \/ \E r \in 0 .. Len(issued) : Reached(r)
  /\ \A n \in FirstSession : Place(n, FirstSession) \in DOMAIN replayed =>
       replayed[Place(n, FirstSession)] = Response(n)
  /\ OnlyTheCutRecord

IInv == Types /\ Written /\ OneSession /\ Replayed

-----------------------------------------------------------------------------
(* Fields *)

LEMMA Concatenated ==
  ASSUME NEW S, NEW a \in Seq(S), NEW b \in Seq(S)
  PROVE  /\ a \o b \in Seq(S) /\ Len(a \o b) = Len(a) + Len(b)
         /\ \A i \in 1 .. Len(a) : (a \o b)[i] = a[i]
         /\ \A i \in 1 .. Len(b) : (a \o b)[Len(a) + i] = b[i]
OBVIOUS

LEMMA CharType ==
  ASSUME NEW n \in 1 .. MaxWrites
  PROVE  /\ MESSAGE_END \in Char
         /\ \A k \in {"metadata", "command", "lf", "response", "end", "time"} :
              <<k, n>> \in Char /\ <<k, n>> # MESSAGE_END
BY DEF Char, MESSAGE_END

LEMMA FieldText ==
  ASSUME NEW n \in 1 .. MaxWrites, NEW kinds \in Seq({"metadata", "command", "lf", "response", "end", "time"})
  PROVE  /\ Field(kinds, n) \in Seq(Char) /\ Len(Field(kinds, n)) = Len(kinds) + 1
         /\ \A i \in 1 .. Len(kinds) : Field(kinds, n)[i] = <<kinds[i], n>>
         /\ Field(kinds, n)[Len(kinds) + 1] = MESSAGE_END
<1> DEFINE text == [i \in DOMAIN kinds |-> <<kinds[i], n>>]
<1>1. DOMAIN kinds = 1 .. Len(kinds) /\ Len(kinds) \in Nat
  OBVIOUS
<1>2. ASSUME NEW i \in 1 .. Len(kinds) PROVE <<kinds[i], n>> \in Char
  <2>1. kinds[i] \in {"metadata", "command", "lf", "response", "end", "time"}
    OBVIOUS
  <2> QED
    BY <2>1, CharType
<1>3. text \in Seq(Char) /\ Len(text) = Len(kinds)
  <2>1. text \in [1 .. Len(kinds) -> Char]
    BY <1>1, <1>2
  <2> QED
    BY <1>1, <2>1
<1>4. \A i \in 1 .. Len(kinds) : text[i] = <<kinds[i], n>>
  BY <1>1
<1> HIDE DEF text
<1>5. Field(kinds, n) = Append(text, MESSAGE_END)
  BY DEF Field, text
<1>6. MESSAGE_END \in Char
  BY CharType
<1>7. /\ Append(text, MESSAGE_END) \in Seq(Char) /\ Len(Append(text, MESSAGE_END)) = Len(text) + 1
      /\ \A i \in 1 .. Len(text) : Append(text, MESSAGE_END)[i] = text[i]
      /\ Append(text, MESSAGE_END)[Len(text) + 1] = MESSAGE_END
  BY <1>3, <1>6, AppendProperties
<1> QED
  BY <1>3, <1>4, <1>5, <1>7

LEMMA Fields ==
  ASSUME NEW n \in 1 .. MaxWrites
  PROVE  /\ Metadata(n) \in Seq(Char) /\ Len(Metadata(n)) = 2
         /\ Metadata(n)[1] = <<"metadata", n>> /\ Metadata(n)[2] = MESSAGE_END
         /\ CommandField(n) \in Seq(Char) /\ Len(CommandField(n)) = 3
         /\ CommandField(n)[1] = <<"command", n>> /\ CommandField(n)[2] = <<"lf", n>>
         /\ CommandField(n)[3] = MESSAGE_END
         /\ ResponseField(n) \in Seq(Char) /\ Len(ResponseField(n)) = 3
         /\ ResponseField(n)[1] = <<"response", n>> /\ ResponseField(n)[2] = <<"end", n>>
         /\ ResponseField(n)[3] = MESSAGE_END
         /\ TimeField(n) \in Seq(Char)
         /\ timed => /\ Len(TimeField(n)) = 2
                     /\ TimeField(n)[1] = <<"time", n>> /\ TimeField(n)[2] = MESSAGE_END
         /\ ~timed => TimeField(n) = <<>>
<1> DEFINE Kinds == {"metadata", "command", "lf", "response", "end", "time"}
<1>1. ASSUME NEW k \in Kinds
      PROVE  /\ Field(<<k>>, n) \in Seq(Char) /\ Len(Field(<<k>>, n)) = 2
             /\ Field(<<k>>, n)[1] = <<k, n>> /\ Field(<<k>>, n)[2] = MESSAGE_END
  <2>1. <<k>> \in Seq(Kinds) /\ Len(<<k>>) = 1 /\ <<k>>[1] = k /\ 1 \in 1 .. 1 /\ 1 + 1 = 2
    OBVIOUS
  <2> QED
    BY <2>1, FieldText
<1>2. ASSUME NEW k \in Kinds, NEW l \in Kinds
      PROVE  /\ Field(<<k, l>>, n) \in Seq(Char) /\ Len(Field(<<k, l>>, n)) = 3
             /\ Field(<<k, l>>, n)[1] = <<k, n>> /\ Field(<<k, l>>, n)[2] = <<l, n>>
             /\ Field(<<k, l>>, n)[3] = MESSAGE_END
  <2>1. /\ <<k, l>> \in Seq(Kinds) /\ Len(<<k, l>>) = 2 /\ <<k, l>>[1] = k /\ <<k, l>>[2] = l
        /\ 1 \in 1 .. 2 /\ 2 \in 1 .. 2 /\ 2 + 1 = 3
    OBVIOUS
  <2> QED
    BY <2>1, FieldText
<1>3. <<>> \in Seq(Char)
  OBVIOUS
<1>4. {"metadata", "command", "lf", "response", "end", "time"} \subseteq Kinds
  OBVIOUS
<1> HIDE DEF Kinds
<1> QED
  BY <1>1, <1>2, <1>3, <1>4 DEF Metadata, CommandField, ResponseField, TimeField

\* What a write() appends to the file, with the metadata in front of it if there are any.
RecordOf(n) == (CommandField(n) \o ResponseField(n)) \o TimeField(n)

LEMMA RecordFields ==
  ASSUME NEW n \in 1 .. MaxWrites, timed \in BOOLEAN
  PROVE  /\ RecordOf(n) \in Seq(Char) /\ Len(RecordOf(n)) = IF timed THEN 8 ELSE 6
         /\ RecordOf(n)[1] = <<"command", n>> /\ RecordOf(n)[2] = <<"lf", n>>
         /\ RecordOf(n)[3] = MESSAGE_END
         /\ RecordOf(n)[4] = <<"response", n>> /\ RecordOf(n)[5] = <<"end", n>>
         /\ RecordOf(n)[6] = MESSAGE_END
         /\ timed => RecordOf(n)[7] = <<"time", n>> /\ RecordOf(n)[8] = MESSAGE_END
<1> DEFINE c == CommandField(n)  r == ResponseField(n)  t == TimeField(n)
<1>1. /\ c \in Seq(Char) /\ Len(c) = 3
      /\ c[1] = <<"command", n>> /\ c[2] = <<"lf", n>> /\ c[3] = MESSAGE_END
      /\ r \in Seq(Char) /\ Len(r) = 3
      /\ r[1] = <<"response", n>> /\ r[2] = <<"end", n>> /\ r[3] = MESSAGE_END
      /\ t \in Seq(Char)
      /\ timed => Len(t) = 2 /\ t[1] = <<"time", n>> /\ t[2] = MESSAGE_END
      /\ ~timed => t = <<>>
  BY Fields
<1>2. c \in Seq(Char) /\ r \in Seq(Char) /\ t \in Seq(Char)
  BY <1>1
<1>3. RecordOf(n) = (c \o r) \o t
  BY DEF RecordOf
<1> DEFINE both == c \o r
<1> HIDE DEF c, r, t
<1>4. /\ both \in Seq(Char) /\ Len(both) = Len(c) + Len(r)
      /\ \A i \in 1 .. Len(c) : both[i] = c[i]
      /\ \A i \in 1 .. Len(r) : both[Len(c) + i] = r[i]
  BY <1>2, Concatenated
<1>5. /\ Len(both) = 6
      /\ both[1] = c[1] /\ both[2] = c[2] /\ both[3] = c[3]
      /\ both[3 + 1] = r[1] /\ both[3 + 2] = r[2] /\ both[3 + 3] = r[3]
  BY <1>1, <1>4
<1> HIDE DEF both
<1>6. both \in Seq(Char) /\ t \in Seq(Char)
  BY <1>2, <1>4
<1>7. RecordOf(n) = both \o t
  BY <1>3 DEF both
<1>8. CASE timed
  <2>1. /\ both \o t \in Seq(Char) /\ Len(both \o t) = Len(both) + Len(t)
        /\ \A i \in 1 .. Len(both) : (both \o t)[i] = both[i]
        /\ \A i \in 1 .. Len(t) : (both \o t)[Len(both) + i] = t[i]
    BY <1>6, Concatenated
  <2>2. Len(t) = 2 /\ Len(both) = 6
    BY <1>1, <1>5, <1>8
  <2>3. /\ Len(both \o t) = 8 /\ (both \o t)[6 + 1] = t[1] /\ (both \o t)[6 + 2] = t[2]
        /\ \A i \in {1, 2, 3, 4, 5, 6} : (both \o t)[i] = both[i]
    BY <2>1, <2>2
  <2>4. RecordOf(n) \in Seq(Char) /\ Len(RecordOf(n)) = 8
    BY <1>7, <2>1, <2>3
  <2>5. RecordOf(n)[7] = <<"time", n>> /\ RecordOf(n)[8] = MESSAGE_END
    <3>1. RecordOf(n)[7] = t[1] /\ RecordOf(n)[8] = t[2]
      BY <1>7, <2>3
    <3>2. t[1] = <<"time", n>> /\ t[2] = MESSAGE_END
      BY <1>1, <1>8
    <3> QED
      BY <3>1, <3>2
  <2>6. \A i \in {1, 2, 3, 4, 5, 6} : RecordOf(n)[i] = both[i]
    BY <1>7, <2>3
  <2> QED
    BY <1>1, <1>5, <1>8, <2>4, <2>5, <2>6
<1>9. CASE ~timed
  <2>1. RecordOf(n) = both
    BY <1>1, <1>4, <1>7, <1>9, ConcatEmptySeq
  <2> QED
    BY <1>1, <1>4, <1>5, <1>9, <2>1
<1> QED
  BY <1>8, <1>9

LEMMA MetadataInFront ==
  ASSUME Types, NEW n \in 1 .. MaxWrites
  PROVE  LET old == file \o (IF metadataWritten THEN <<>> ELSE Metadata(n))
         IN  /\ old \in Seq(Char) /\ Len(old) = Len(file) + IF metadataWritten THEN 0 ELSE 2
             /\ \A i \in 1 .. Len(file) : old[i] = file[i]
             /\ ~metadataWritten => /\ old[Len(file) + 1] = <<"metadata", n>>
                                    /\ old[Len(file) + 2] = MESSAGE_END
<1> DEFINE meta == Metadata(n)
<1>1. file \in Seq(Char) /\ Len(file) \in Nat
  BY DEF Types
<1>2. meta \in Seq(Char) /\ Len(meta) = 2 /\ meta[1] = <<"metadata", n>> /\ meta[2] = MESSAGE_END
  BY Fields
<1>3. meta \in Seq(Char)
  BY <1>2
<1> HIDE DEF meta
<1>4. /\ file \o meta \in Seq(Char) /\ Len(file \o meta) = Len(file) + Len(meta)
      /\ \A i \in 1 .. Len(file) : (file \o meta)[i] = file[i]
      /\ \A i \in 1 .. Len(meta) : (file \o meta)[Len(file) + i] = meta[i]
  BY <1>1, <1>3, Concatenated
<1>5. CASE metadataWritten
  <2>1. file \o <<>> = file
    BY <1>1, ConcatEmptySeq
  <2> QED
    BY <1>1, <1>5, <2>1
<1>6. CASE ~metadataWritten
  <2>1. 1 \in 1 .. Len(meta) /\ 2 \in 1 .. Len(meta)
    BY <1>2
  <2> QED
    BY <1>2, <1>4, <1>6, <2>1 DEF meta
<1> QED
  BY <1>5, <1>6

LEMMA RecordText ==
  ASSUME Types, NEW n \in 1 .. MaxWrites,
         file' = (file \o (IF metadataWritten THEN <<>> ELSE Metadata(n))) \o RecordOf(n)
  PROVE  LET b == Len(file) + IF metadataWritten THEN 0 ELSE 2
         IN  /\ file' \in Seq(Char) /\ Len(file') = b + IF timed THEN 8 ELSE 6
             /\ \A i \in 1 .. Len(file) : file'[i] = file[i]
             /\ ~metadataWritten => /\ file'[Len(file) + 1] = <<"metadata", n>>
                                    /\ file'[Len(file) + 2] = MESSAGE_END
             /\ RecordAt(file', timed, b, n)
<1> DEFINE b == Len(file) + IF metadataWritten THEN 0 ELSE 2
           old == file \o (IF metadataWritten THEN <<>> ELSE Metadata(n))
           record == RecordOf(n)
<1>1. /\ old \in Seq(Char) /\ Len(old) = b
      /\ \A i \in 1 .. Len(file) : old[i] = file[i]
      /\ ~metadataWritten => old[Len(file) + 1] = <<"metadata", n>> /\ old[Len(file) + 2] = MESSAGE_END
  BY MetadataInFront
<1>2. timed \in BOOLEAN /\ Len(file) \in Nat
  BY LogFileAssumption DEF Types
<1>3. /\ record \in Seq(Char) /\ Len(record) = IF timed THEN 8 ELSE 6
      /\ record[1] = <<"command", n>> /\ record[2] = <<"lf", n>> /\ record[3] = MESSAGE_END
      /\ record[4] = <<"response", n>> /\ record[5] = <<"end", n>> /\ record[6] = MESSAGE_END
      /\ timed => record[7] = <<"time", n>> /\ record[8] = MESSAGE_END
  BY <1>2, RecordFields
<1>4. file' = old \o record
  OBVIOUS
<1>5. b \in Nat /\ b >= Len(file) /\ (~metadataWritten => b = Len(file) + 2)
  BY <1>2
<1> HIDE DEF old, record, b
<1>6. /\ old \o record \in Seq(Char) /\ Len(old \o record) = Len(old) + Len(record)
      /\ \A i \in 1 .. Len(old) : (old \o record)[i] = old[i]
      /\ \A i \in 1 .. Len(record) : (old \o record)[Len(old) + i] = record[i]
  <2>1. old \in Seq(Char) /\ record \in Seq(Char)
    BY <1>1, <1>3
  <2> QED
    BY <2>1, Concatenated
<1>7. /\ file' \in Seq(Char) /\ Len(file') = b + Len(record)
      /\ \A i \in 1 .. b : file'[i] = old[i]
      /\ \A i \in 1 .. Len(record) : file'[b + i] = record[i]
  BY <1>1, <1>4, <1>6
<1>8. RecordAt(file', timed, b, n)
  <2>1. \A i \in {1, 2, 3, 4, 5, 6} : i \in 1 .. Len(record)
    BY <1>2, <1>3
  <2>2. timed => \A i \in {7, 8} : i \in 1 .. Len(record)
    BY <1>3
  <2> QED
    BY <1>3, <1>7, <2>1, <2>2 DEF RecordAt, Holds
<1>9. \A i \in 1 .. Len(file) : file'[i] = file[i]
  <2>1. \A i \in 1 .. Len(file) : i \in 1 .. b
    BY <1>2, <1>5
  <2> QED
    BY <1>1, <1>7, <2>1
<1>10. ~metadataWritten => file'[Len(file) + 1] = <<"metadata", n>> /\ file'[Len(file) + 2] = MESSAGE_END
  <2>1. ~metadataWritten => Len(file) + 1 \in 1 .. b /\ Len(file) + 2 \in 1 .. b
    BY <1>2, <1>5
  <2> QED
    BY <1>1, <1>7, <2>1
<1> QED
  BY <1>3, <1>7, <1>8, <1>9, <1>10 DEF b

-----------------------------------------------------------------------------
(* getline *)

LEMMA GetlineClosed ==
  ASSUME NEW s, NEW old, s.eof \/ s.fail
  PROVE  Getline(s, old) = [text |-> old, s |-> [s EXCEPT !.fail = TRUE]]
BY DEF Getline

LEMMA GetlineField ==
  ASSUME NEW s, NEW old, ~s.eof, ~s.fail, s.read \in Nat, Len(file) \in Nat,
         NEW e \in s.read + 1 .. Len(file), file[e] = MESSAGE_END,
         \A i \in s.read + 1 .. e - 1 : file[i] # MESSAGE_END
  PROVE  Getline(s, old) = [text |-> SubSeq(file, s.read + 1, e - 1), s |-> [s EXCEPT !.read = e]]
<1> DEFINE ends == {i \in s.read + 1 .. Len(file) : file[i] = MESSAGE_END}
<1>1. e \in ends /\ \A i \in ends : e <= i /\ i \in Int
  OBVIOUS
<1>2. Min(ends) = e
  <2> HIDE DEF ends
  <2>1. \A x \in ends : (\A y \in ends : x =< y) => x = e
    BY <1>1
  <2> QED
    BY <1>1, <2>1 DEF Min
<1>3. ends # {}
  BY <1>1
<1> QED
  BY <1>2, <1>3 DEF Getline

LEMMA GetlineOpen ==
  ASSUME NEW s, NEW old, ~s.eof, ~s.fail,
         \A i \in s.read + 1 .. Len(file) : file[i] # MESSAGE_END
  PROVE  Getline(s, old) = [text |-> SubSeq(file, s.read + 1, Len(file)),
                            s |-> [read |-> Len(file), eof |-> TRUE, fail |-> s.read = Len(file)]]
<1>1. {i \in s.read + 1 .. Len(file) : file[i] = MESSAGE_END} = {}
  OBVIOUS
<1> QED
  BY <1>1 DEF Getline

LEMMA LeastElement ==
  ASSUME NEW S \in SUBSET Nat, S # {}
  PROVE  \E e \in S : \A i \in S : e <= i
<1>1. PICK e \in S : \A i \in S : ~ (<<i, e>> \in OpToRel(<, Nat))
  BY WFMin, NatLessThanWellFounded
<1>2. ASSUME NEW i \in S, i < e PROVE FALSE
  <2>1. <<i, e>> \in Nat \X Nat /\ <<i, e>>[1] < <<i, e>>[2]
    BY <1>2
  <2>2. <<i, e>> \in OpToRel(<, Nat)
    BY <2>1, Zenon DEF OpToRel
  <2> QED
    BY <1>1, <2>2
<1> QED
  BY <1>2

LEMMA GetlineType ==
  ASSUME file \in Seq(Char), NEW s \in Stream, NEW old \in Seq(Char)
  PROVE  Getline(s, old).text \in Seq(Char) /\ Getline(s, old).s \in Stream
<1> DEFINE ends == {i \in s.read + 1 .. Len(file) : file[i] = MESSAGE_END}
<1>1. Len(file) \in Nat /\ s.read \in 0 .. Len(file)
  BY DEF Stream
<1>2. CASE s.eof \/ s.fail
  <2>1. [s EXCEPT !.fail = TRUE] \in Stream
    BY DEF Stream
  <2>2. Getline(s, old) = [text |-> old, s |-> [s EXCEPT !.fail = TRUE]]
    BY <1>2, GetlineClosed
  <2> QED
    BY <2>1, <2>2
<1>3. CASE ~(s.eof \/ s.fail) /\ ends # {}
  <2>1. ends \in SUBSET Nat
    BY <1>1
  <2>2. PICK e \in ends : \A i \in ends : e <= i
    BY <1>3, <2>1, LeastElement
  <2>3. e \in s.read + 1 .. Len(file) /\ file[e] = MESSAGE_END
        /\ \A i \in s.read + 1 .. e - 1 : file[i] # MESSAGE_END
    BY <1>1, <2>2
  <2>4. Getline(s, old) = [text |-> SubSeq(file, s.read + 1, e - 1), s |-> [s EXCEPT !.read = e]]
    BY <1>1, <1>3, <2>3, GetlineField
  <2>5. SubSeq(file, s.read + 1, e - 1) \in Seq(Char) /\ [s EXCEPT !.read = e] \in Stream
    BY <1>1, <2>3 DEF Stream
  <2> QED
    BY <2>4, <2>5
<1>4. CASE ~(s.eof \/ s.fail) /\ ends = {}
  <2>1. Getline(s, old) = [text |-> SubSeq(file, s.read + 1, Len(file)),
                           s |-> [read |-> Len(file), eof |-> TRUE, fail |-> s.read = Len(file)]]
    BY <1>4, GetlineOpen
  <2>2. SubSeq(file, s.read + 1, Len(file)) \in Seq(Char)
        /\ [read |-> Len(file), eof |-> TRUE, fail |-> s.read = Len(file)] \in Stream
    BY <1>1 DEF Stream
  <2> QED
    BY <2>1, <2>2
<1> QED
  BY <1>2, <1>3, <1>4

-----------------------------------------------------------------------------
(* The place of a scan among the scans *)

LEMMA PlaceType ==
  ASSUME NEW N \in Nat, NEW S \in SUBSET (1 .. N), NEW r \in Nat
  PROVE  /\ IsFiniteSet(S) /\ Cardinality(S) \in Nat
         /\ IsFiniteSet({m \in S : m <= r}) /\ Place(r, S) \in 0 .. Cardinality(S)
         /\ (\A n \in S : n <= r) => Place(r, S) = Cardinality(S)
<1> DEFINE before == {m \in S : m <= r}
<1>1. IsFiniteSet(S)
  <2>1. IsFiniteSet(1 .. N)
    BY FS_Interval
  <2> QED
    BY <2>1, FS_Subset
<1>2. before \in SUBSET S /\ Place(r, S) = Cardinality(before)
  BY DEF Place
<1>3. (\A n \in S : n <= r) => before = S
  BY Zenon
<1> HIDE DEF before
<1>4. IsFiniteSet(before) /\ Cardinality(before) <= Cardinality(S)
  BY <1>1, <1>2, FS_Subset
<1>5. Cardinality(S) \in Nat /\ Cardinality(before) \in Nat
  BY <1>1, <1>4, FS_CardinalityType
<1> QED
  BY <1>1, <1>2, <1>3, <1>4, <1>5 DEF before

LEMMA PlaceOfNone ==
  ASSUME NEW N \in Nat, NEW S \in SUBSET (1 .. N)
  PROVE  Place(0, S) = 0
<1>1. {m \in S : m <= 0} = {}
  <2>1. \A m \in S : ~(m <= 0)
    OBVIOUS
  <2> QED
    BY <2>1, Zenon
<1> QED
  BY <1>1, FS_EmptySet DEF Place

LEMMA NextPlace ==
  ASSUME NEW N \in Nat, NEW S \in SUBSET (1 .. N), NEW r \in Nat
  PROVE  Place(r + 1, S) = Place(r, S) + IF r + 1 \in S THEN 1 ELSE 0
<1> DEFINE before == {m \in S : m <= r}
<1>1. IsFiniteSet(before) /\ Cardinality(before) \in Nat
  BY PlaceType, FS_CardinalityType
<1>2. CASE r + 1 \in S
  <2>1. {m \in S : m <= r + 1} = before \cup {r + 1} /\ r + 1 \notin before
    <3>1. \A m \in S : m <= r + 1 <=> m <= r \/ m = r + 1
      OBVIOUS
    <3>2. ~(r + 1 <= r)
      OBVIOUS
    <3> QED
      BY <1>2, <3>1, <3>2, Zenon
  <2> HIDE DEF before
  <2>2. Cardinality(before \cup {r + 1}) = Cardinality(before) + 1
    BY <1>1, <2>1, FS_AddElement
  <2> QED
    BY <1>2, <2>1, <2>2 DEF Place, before
<1>3. CASE r + 1 \notin S
  <2>1. {m \in S : m <= r + 1} = before
    <3>1. \A m \in S : m <= r + 1 <=> m <= r
      BY <1>3
    <3> QED
      BY <3>1, Zenon
  <2> QED
    BY <1>1, <1>3, <2>1 DEF Place
<1> QED
  BY <1>2, <1>3

LEMMA PlaceGrows ==
  ASSUME NEW N \in Nat, NEW S \in SUBSET (1 .. N), NEW r \in Nat, NEW n \in S, r < n
  PROVE  Place(r, S) < Place(n, S)
<1> DEFINE before == {m \in S : m <= r}  upto == {m \in S : m <= n}
<1>1. /\ n \in Nat /\ before \in SUBSET upto /\ n \in upto /\ n \notin before
  <2>1. /\ \A m \in S : m <= r => m <= n
        /\ n \in Nat /\ n <= n /\ ~(n <= r)
    OBVIOUS
  <2> QED
    BY <2>1, Zenon
<1>2. IsFiniteSet(upto) /\ Place(r, S) = Cardinality(before) /\ Place(n, S) = Cardinality(upto)
  BY <1>1, PlaceType DEF Place
<1>3. Place(r, S) \in Nat /\ Place(n, S) \in Nat
  <2>1. Place(r, S) \in 0 .. Cardinality(S) /\ Place(n, S) \in 0 .. Cardinality(S)
    BY <1>1, PlaceType
  <2> QED
    BY <2>1
<1> HIDE DEF before, upto
<1>4. Cardinality(before) <= Cardinality(upto) /\ Cardinality(before) # Cardinality(upto)
  BY <1>1, <1>2, FS_Subset
<1> QED
  BY <1>2, <1>3, <1>4

LEMMA ScansType ==
  ASSUME Types, NEW inSessions
  PROVE  /\ Len(issued) \in Nat /\ DOMAIN issued = 1 .. Len(issued)
         /\ Scans(inSessions) \in SUBSET (1 .. Len(issued))
         /\ IsFiniteSet(Scans(inSessions)) /\ Cardinality(Scans(inSessions)) \in Nat
<1>1. Len(issued) \in Nat /\ DOMAIN issued = 1 .. Len(issued)
  BY DEF Types
<1>2. Scans(inSessions) \in SUBSET (1 .. Len(issued))
  BY <1>1 DEF Scans
<1> QED
  <2>1. 0 \in Nat
    OBVIOUS
  <2> QED
    BY <1>1, <1>2, <2>1, PlaceType

-----------------------------------------------------------------------------
(* Types *)

LEMMA TypesInit ==
  ASSUME Init
  PROVE  Types
<1>1. MaxWrites \in Nat /\ MaxSessions \in Nat
  BY LogFileAssumption
<1>2. /\ issued \in Seq(Calls(sessions)) /\ Len(issued) = 0
      /\ recordEnd \in Seq(Nat) /\ Len(recordEnd) = 0
      /\ file \in Seq(Char) /\ Len(file) = 0 /\ logCommand \in Seq(Char) /\ replayed \in Seq(Seq(Char))
  BY DEF Init
<1>3. stream \in Stream
  BY <1>2 DEF Init, Stream, Fresh
<1>4. /\ timed \in Timed /\ pc = "closed" /\ sessions = 0 /\ durable = 0
      /\ metadataWritten = FALSE /\ metadataRead = FALSE
  BY DEF Init
<1>5. sessions \in 0 .. MaxSessions /\ durable \in 0 .. Len(file) /\ Len(issued) <= MaxWrites
  BY <1>1, <1>2, <1>4
<1> QED
  BY <1>2, <1>3, <1>4, <1>5, Zenon DEF Types

LEMMA TypesRecord ==
  ASSUME Types, Record
  PROVE  Types'
<1>1. /\ sessions' = sessions + 1 /\ sessions < MaxSessions /\ sessions \in 0 .. MaxSessions
      /\ MaxSessions \in Nat
  BY LogFileAssumption DEF Types, Record
<1>2. sessions' \in 0 .. MaxSessions /\ sessions' # 0 /\ 1 .. sessions \subseteq 1 .. sessions'
  BY <1>1
<1>3. issued \in Seq(Calls(sessions))
  BY DEF Types
<1>4. issued \in Seq(Calls(sessions'))
  <2>1. Calls(sessions) \subseteq Calls(sessions')
    BY <1>2 DEF Calls
  <2> QED
    BY <1>3, <2>1, SeqMonotonic
<1>5. /\ pc' = "recording" /\ metadataWritten' = FALSE /\ durable' = Len(file)
      /\ UNCHANGED <<timed, file, issued, recordEnd, metadataRead, stream, logCommand, replayed>>
  BY DEF Record, replay
<1>6. durable' \in 0 .. Len(file') /\ stream' \in Stream'
  BY <1>5 DEF Types, Stream
<1>7. issued' \in Seq(Calls(sessions)')
  BY <1>4, <1>5 DEF Calls
<1> QED
  BY <1>2, <1>5, <1>6, <1>7 DEF Types

\* What write() does to the file and to what is kept of the calls.
LEMMA WriteStep ==
  ASSUME Types, NEW c \in Command, Write(c)
  PROVE  LET n == Len(issued) + 1
         IN  /\ n \in 1 .. MaxWrites /\ pc = "recording"
             /\ file' = (file \o (IF metadataWritten THEN <<>> ELSE Metadata(n))) \o RecordOf(n)
             /\ issued' \in Seq(Calls(sessions))
             /\ Len(issued') = n /\ issued'[n].session = sessions
             /\ \A i \in 1 .. n - 1 : issued'[i] = issued[i]
             /\ recordEnd' \in Seq(Nat) /\ Len(recordEnd') = n /\ recordEnd'[n] = Len(file')
             /\ \A i \in 1 .. n - 1 : recordEnd'[i] = recordEnd[i]
             /\ UNCHANGED <<timed, pc, sessions, durable, replay>> /\ metadataWritten' = TRUE
<1> DEFINE n == Len(issued) + 1
<1>1. /\ Len(issued) \in Nat /\ sessions \in 1 .. MaxSessions /\ timed \in BOOLEAN
      /\ issued \in Seq(Calls(sessions)) /\ recordEnd \in Seq(Nat) /\ Len(recordEnd) = Len(issued)
  BY LogFileAssumption DEF Types, Write
<1>2. /\ n <= MaxWrites /\ issued' = Append(issued, [session |-> sessions, command |-> c])
      /\ file' = (file \o (IF metadataWritten THEN <<>> ELSE Metadata(n))) \o RecordOf(n)
      /\ recordEnd' = Append(recordEnd, Len(file'))
  BY DEF Write, RecordOf
<1>3. n \in 1 .. MaxWrites
  BY <1>1, <1>2, LogFileAssumption
<1>4. [session |-> sessions, command |-> c] \in Calls(sessions)
  BY <1>1 DEF Calls
<1>5. /\ issued' \in Seq(Calls(sessions)) /\ Len(issued') = n
      /\ \A i \in 1 .. n - 1 : issued'[i] = issued[i]
      /\ issued'[n] = [session |-> sessions, command |-> c]
  BY <1>1, <1>2, <1>4, AppendProperties
<1>6. Len(file') \in Nat
  <2>1. file' \in Seq(Char)
    BY <1>2, <1>3, RecordText
  <2> QED
    BY <2>1
<1>7. /\ recordEnd' \in Seq(Nat) /\ Len(recordEnd') = n
      /\ \A i \in 1 .. n - 1 : recordEnd'[i] = recordEnd[i]
      /\ recordEnd'[n] = Len(file')
  <2>1. recordEnd \in Seq(Nat) /\ Len(recordEnd) = Len(issued) /\ recordEnd' = Append(recordEnd, Len(file'))
    BY <1>1, <1>2
  <2> QED
    BY <1>6, <2>1, AppendProperties
<1>8. pc = "recording" /\ UNCHANGED <<timed, pc, sessions, durable, replay>> /\ metadataWritten' = TRUE
  BY DEF Write
<1> QED
  <2>1. issued'[n].session = sessions
    BY <1>5
  <2> QED
    BY <1>2, <1>3, <1>5, <1>7, <1>8, <2>1, Zenon

LEMMA FileGrows ==
  ASSUME Types, NEW n \in 1 .. MaxWrites,
         file' = (file \o (IF metadataWritten THEN <<>> ELSE Metadata(n))) \o RecordOf(n)
  PROVE  /\ file' \in Seq(Char) /\ Len(file') >= Len(file) /\ Len(file) \in Nat
         /\ \A i \in 1 .. Len(file) : file'[i] = file[i]
<1>1. timed \in BOOLEAN /\ Len(file) \in Nat
  BY LogFileAssumption DEF Types
<1>2. /\ file' \in Seq(Char)
      /\ Len(file') = (Len(file) + IF metadataWritten THEN 0 ELSE 2) + IF timed THEN 8 ELSE 6
      /\ \A i \in 1 .. Len(file) : file'[i] = file[i]
  BY RecordText
<1>3. ASSUME NEW a \in {0, 2}, NEW b \in {6, 8}, Len(file') = (Len(file) + a) + b
      PROVE  Len(file') >= Len(file)
  BY <1>1, <1>3
<1> QED
  BY <1>1, <1>2, <1>3

LEMMA TypesWrite ==
  ASSUME Types, NEW c \in Command, Write(c)
  PROVE  Types'
<1> DEFINE n == Len(issued) + 1
<1>1. /\ n \in 1 .. MaxWrites /\ pc = "recording"
      /\ file' = (file \o (IF metadataWritten THEN <<>> ELSE Metadata(n))) \o RecordOf(n)
      /\ issued' \in Seq(Calls(sessions)) /\ Len(issued') = n
      /\ recordEnd' \in Seq(Nat) /\ Len(recordEnd') = n
      /\ UNCHANGED <<timed, pc, sessions, durable, replay>> /\ metadataWritten' = TRUE
  BY WriteStep
<1>2. file' \in Seq(Char) /\ Len(file') >= Len(file) /\ Len(file) \in Nat
  BY <1>1, FileGrows
<1>3. 0 .. Len(file) \subseteq 0 .. Len(file')
  BY <1>2
<1> HIDE DEF n
<1>4. stream' \in Stream' /\ durable' \in 0 .. Len(file')
  BY <1>1, <1>3 DEF Types, Stream, replay
<1> QED
  BY <1>1, <1>2, <1>4, LogFileAssumption DEF Types, replay

LEMMA CrashStep ==
  ASSUME Types, NEW kept \in durable .. Len(file), Crash(kept)
  PROVE  /\ file' \in Seq(Char) /\ Len(file') = kept /\ kept \in 0 .. Len(file) /\ durable <= kept
         /\ \A i \in 1 .. kept : file'[i] = file[i]
         /\ recordEnd' \in Seq(Nat) /\ Len(recordEnd') = Len(issued)
         /\ \A n \in DOMAIN issued : recordEnd'[n] = IF recordEnd[n] > kept THEN 0 ELSE recordEnd[n]
<1>1. /\ file \in Seq(Char) /\ Len(file) \in Nat /\ durable \in 0 .. Len(file)
      /\ recordEnd \in Seq(Nat) /\ Len(recordEnd) = Len(issued) /\ Len(issued) \in Nat
      /\ DOMAIN issued = 1 .. Len(issued)
  BY DEF Types
<1>2. kept \in 0 .. Len(file) /\ durable <= kept
  BY <1>1
<1>3. file' = SubSeq(file, 1, kept)
  BY DEF Crash
<1>4. \A i \in 1 .. kept : file[i] \in Char
  BY <1>1, <1>2
<1>5. /\ file' \in Seq(Char) /\ Len(file') = kept
      /\ \A i \in 1 .. kept : file'[i] = file[i]
  <2>1. /\ SubSeq(file, 1, kept) \in Seq(Char)
        /\ Len(SubSeq(file, 1, kept)) = IF 1 <= kept THEN kept - 1 + 1 ELSE 0
        /\ \A i \in 1 .. kept - 1 + 1 : SubSeq(file, 1, kept)[i] = file[1 + i - 1]
    BY <1>2, <1>4, SubSeqProperties
  <2> QED
    BY <1>2, <1>3, <2>1
<1>6. recordEnd' = [n \in 1 .. Len(issued) |-> IF recordEnd[n] > kept THEN 0 ELSE recordEnd[n]]
  BY <1>1 DEF Crash
<1>7. \A n \in 1 .. Len(issued) : recordEnd[n] \in Nat
  BY <1>1
<1>8. recordEnd' \in [1 .. Len(issued) -> Nat]
  BY <1>6, <1>7
<1>9. recordEnd' \in Seq(Nat) /\ Len(recordEnd') = Len(issued)
  <2>1. Len(issued) \in Nat
    BY <1>1
  <2> QED
    BY <1>8, <2>1
<1> QED
  BY <1>1, <1>2, <1>5, <1>6, <1>9

LEMMA TypesCrash ==
  ASSUME Types, stream = Fresh, NEW kept \in durable .. Len(file), Crash(kept)
  PROVE  Types'
<1>1. /\ file' \in Seq(Char) /\ Len(file') = kept /\ kept \in Nat /\ durable <= kept
      /\ recordEnd' \in Seq(Nat) /\ Len(recordEnd') = Len(issued)
  BY CrashStep
<1>2. durable' \in 0 .. Len(file') /\ stream' \in Stream'
  BY <1>1 DEF Types, Crash, Stream, Fresh, replay
<1>3. pc' = "closed" /\ UNCHANGED <<timed, sessions, durable, issued, metadataWritten, replay>>
  BY DEF Crash
<1> QED
  BY <1>1, <1>2, <1>3 DEF Types, replay

\* The fields of one iteration of readCommand().
Meta == IF metadataRead THEN [s |-> stream] ELSE Getline(stream, <<>>)
Cmd == Getline(Meta.s, logCommand)
Resp == Getline(Cmd.s, <<>>)
Tim == IF timed THEN Getline(Resp.s, <<>>) ELSE Resp

LEMMA ReadStep ==
  ASSUME Read
  PROVE  /\ pc = "reading" /\ metadataRead' = TRUE /\ UNCHANGED recorder
         /\ logCommand' = Cmd.text /\ stream' = Tim.s
         /\ IF Matches(Cmd.text) \/ Tim.s.fail
            THEN pc' = "replaying" /\ replayed' = Append(replayed, Resp.text)
            ELSE pc' = pc /\ replayed' = replayed
BY DEF Read, Meta, Cmd, Resp, Tim

LEMMA ReadTypes ==
  ASSUME Types
  PROVE  /\ Meta.s \in Stream /\ Cmd.text \in Seq(Char) /\ Cmd.s \in Stream
         /\ Resp.text \in Seq(Char) /\ Resp.s \in Stream /\ Tim.s \in Stream
<1>1. file \in Seq(Char) /\ stream \in Stream /\ logCommand \in Seq(Char)
  BY DEF Types
<1>2. <<>> \in Seq(Char)
  OBVIOUS
<1>3. Meta.s \in Stream
  <2>1. Getline(stream, <<>>).s \in Stream
    BY <1>1, <1>2, GetlineType
  <2> QED
    BY <1>1, <2>1 DEF Meta
<1>4. Cmd.text \in Seq(Char) /\ Cmd.s \in Stream
  BY <1>1, <1>3, GetlineType DEF Cmd
<1>5. Resp.text \in Seq(Char) /\ Resp.s \in Stream
  BY <1>1, <1>2, <1>4, GetlineType DEF Resp
<1>6. Tim.s \in Stream
  <2>1. Getline(Resp.s, <<>>).s \in Stream
    BY <1>1, <1>2, <1>5, GetlineType
  <2> QED
    BY <1>5, <2>1 DEF Tim
<1> QED
  BY <1>3, <1>4, <1>5, <1>6

LEMMA TypesRead ==
  ASSUME Types, Read
  PROVE  Types'
<1>1. /\ metadataRead' = TRUE /\ UNCHANGED recorder
      /\ logCommand' = Cmd.text /\ stream' = Tim.s
      /\ pc' \in {"reading", "replaying"}
      /\ replayed' = replayed \/ replayed' = Append(replayed, Resp.text)
  BY ReadStep
<1>2. Cmd.text \in Seq(Char) /\ Resp.text \in Seq(Char) /\ Tim.s \in Stream
  BY ReadTypes
<1>3. replayed' \in Seq(Seq(Char))
  <2>1. replayed \in Seq(Seq(Char))
    BY DEF Types
  <2>2. Append(replayed, Resp.text) \in Seq(Seq(Char))
    BY <1>2, <2>1, AppendProperties
  <2> QED
    BY <1>1, <2>1, <2>2
<1>4. stream' \in Stream'
  BY <1>1, <1>2 DEF Stream, recorder
<1> QED
  BY <1>1, <1>2, <1>3, <1>4 DEF Types, recorder

LEMMA TypesNext ==
  ASSUME Types, pc \notin {"replaying", "reading"} => stream = Fresh, [Next]_vars
  PROVE  Types'
<1>1. <<>> \in Seq(Char) /\ <<>> \in Seq(Seq(Char)) /\ Fresh \in Stream
  BY DEF Types, Stream, Fresh
<1>2. CASE Record
  BY <1>2, TypesRecord
<1>3. ASSUME NEW c \in Command, Write(c) PROVE Types'
  BY <1>3, TypesWrite
<1>4. CASE Close
  BY <1>4 DEF Close, recorder, replay, Types, Stream
<1>5. ASSUME NEW kept \in durable .. Len(file), Crash(kept) PROVE Types'
  BY <1>5, TypesCrash DEF Crash
<1>6. CASE Replay
  BY <1>1, <1>6 DEF Replay, recorder, Types, Stream
<1>7. CASE ReadCommand
  BY <1>1, <1>7 DEF ReadCommand, recorder, Types, Stream
<1>8. CASE Read
  BY <1>8, TypesRead
<1>9. CASE EndReplay
  BY <1>1, <1>9 DEF EndReplay, recorder, Types, Stream
<1>10. CASE UNCHANGED vars
  BY <1>10 DEF vars, recorder, replay, Types, Stream
<1> QED
  BY <1>2, <1>3, <1>4, <1>5, <1>6, <1>7, <1>8, <1>9, <1>10 DEF Next

-----------------------------------------------------------------------------
(* The records of the first session *)

LEMMA EndValues ==
  ASSUME NEW t \in BOOLEAN, NEW n \in Nat
  PROVE  /\ End(t, n) \in Nat /\ End(t, n) >= 2 /\ End(t, 0) = 2
         /\ t => End(t, n + 1) = End(t, n) + 8
         /\ ~t => End(t, n + 1) = End(t, n) + 6
         /\ \A m \in 0 .. n : End(t, m) \in Nat /\ End(t, m) <= End(t, n)
<1>1. CASE t
  BY <1>1 DEF End
<1>2. CASE ~t
  BY <1>2 DEF End
<1> QED
  BY <1>1, <1>2

LEMMA EndBefore ==
  ASSUME NEW t \in BOOLEAN, NEW n \in Nat \ {0}
  PROVE  /\ n - 1 \in Nat /\ End(t, n - 1) \in Nat /\ End(t, n) \in Nat /\ End(t, n - 1) >= 2
         /\ t => End(t, n) = End(t, n - 1) + 8
         /\ ~t => End(t, n) = End(t, n - 1) + 6
<1>1. n - 1 \in Nat /\ (n - 1) + 1 = n
  OBVIOUS
<1> QED
  BY <1>1, EndValues

\* What a text holds is in every beginning of it, as far as that goes, and in every
\* text that goes on behind it.
LEMMA HoldsInCut ==
  ASSUME NEW text, NEW cut, Len(text) \in Nat, Len(cut) \in Nat, Len(cut) <= Len(text),
         \A i \in 1 .. Len(cut) : cut[i] = text[i],
         NEW t \in BOOLEAN, NEW p \in Nat, NEW n
  PROVE  /\ MetadataAt(text) => MetadataAt(cut)
         /\ RecordAt(text, t, p, n) => RecordAt(cut, t, p, n)
<1>1. ASSUME NEW i \in Nat, NEW x, i >= 1, Holds(text, i, x) PROVE Holds(cut, i, x)
  BY <1>1 DEF Holds
<1>2. \A k \in {1, 2, 3, 4, 5, 6, 7, 8} : k \in Nat /\ k >= 1 /\ p + k \in Nat /\ p + k >= 1
  OBVIOUS
<1> QED
  BY <1>1, <1>2 DEF MetadataAt, RecordAt

LEMMA HoldsInLonger ==
  ASSUME NEW text, NEW longer, Len(text) \in Nat, Len(longer) \in Nat,
         \A i \in 1 .. Len(text) : longer[i] = text[i],
         NEW t \in BOOLEAN, NEW n \in Nat \ {0}, End(t, n) <= Len(text)
  PROVE  /\ MetadataAt(text) => MetadataAt(longer)
         /\ RecordAt(text, t, End(t, n - 1), n) => RecordAt(longer, t, End(t, n - 1), n)
<1> DEFINE p == End(t, n - 1)
<1>1. ASSUME NEW i \in Nat, NEW x, i >= 1, i <= Len(text), Holds(text, i, x) PROVE Holds(longer, i, x)
  BY <1>1 DEF Holds
<1>2. p \in Nat /\ p + 6 <= Len(text) /\ (t => p + 8 <= Len(text))
  <2>1. CASE t
    BY <2>1 DEF End
  <2>2. CASE ~t
    BY <2>2 DEF End
  <2> QED
    BY <2>1, <2>2
<1> HIDE DEF p
<1>3. \A k \in {1, 2, 3, 4, 5, 6} :
        k \in Nat /\ k >= 1 /\ k <= Len(text) /\ p + k \in Nat /\ p + k >= 1 /\ p + k <= Len(text)
  BY <1>2
<1>4. t => \A k \in {7, 8} : p + k \in Nat /\ p + k >= 1 /\ p + k <= Len(text)
  BY <1>2
<1>5. MetadataAt(text) => MetadataAt(longer)
  BY <1>1, <1>3 DEF MetadataAt
<1>6. RecordAt(text, t, p, n) => RecordAt(longer, t, p, n)
  BY <1>1, <1>3, <1>4 DEF RecordAt
<1> QED
  BY <1>5, <1>6 DEF p

LEMMA StateFacts ==
  ASSUME Types
  PROVE  /\ Len(issued) \in Nat /\ DOMAIN issued = 1 .. Len(issued)
         /\ \A n \in 1 .. Len(issued) : issued[n].session \in 1 .. sessions /\ recordEnd[n] \in Nat
         /\ sessions \in Nat /\ timed \in BOOLEAN /\ Len(file) \in Nat /\ durable \in 0 .. Len(file)
         /\ (issued = <<>> <=> Len(issued) = 0) /\ (file = <<>> <=> Len(file) = 0)
<1>1. timed \in BOOLEAN /\ MaxSessions \in Nat
  BY LogFileAssumption DEF Types
<1>2. issued \in Seq(Calls(sessions)) /\ recordEnd \in Seq(Nat) /\ Len(recordEnd) = Len(issued)
  BY DEF Types
<1>3. \A n \in 1 .. Len(issued) : issued[n] \in Calls(sessions) /\ recordEnd[n] \in Nat
  BY <1>2
<1>4. \A n \in 1 .. Len(issued) : issued[n].session \in 1 .. sessions
  BY <1>3 DEF Calls
<1>5. file \in Seq(Char) /\ sessions \in 0 .. MaxSessions /\ durable \in 0 .. Len(file)
  BY DEF Types
<1>6. (issued = <<>> <=> Len(issued) = 0) /\ (file = <<>> <=> Len(file) = 0)
  BY <1>2, <1>5, EmptySeq
<1> QED
  BY <1>1, <1>2, <1>3, <1>4, <1>5, <1>6

\* The records of a session that no other wrote before are one behind the other.
LEMMA WriteInFirst ==
  ASSUME Types, Written, NEW c \in Command, Write(c),
         \A n \in DOMAIN issued : issued[n].session = sessions,
         NEW last, last = Len(issued) + 1
  PROVE  /\ Len(file') = End(timed, last) /\ MetadataAt(file')
         /\ \A n \in 1 .. last :
              /\ Whole(n)' /\ recordEnd'[n] = End(timed, n) /\ End(timed, n) <= Len(file')
              /\ RecordAt(file', timed, End(timed, n - 1), n)
<1>1. /\ Len(issued) \in Nat /\ DOMAIN issued = 1 .. Len(issued) /\ timed \in BOOLEAN /\ Len(file) \in Nat
      /\ (issued = <<>> <=> Len(issued) = 0) /\ (file = <<>> <=> Len(file) = 0)
  BY StateFacts
<1>2. /\ last \in 1 .. MaxWrites /\ pc = "recording"
      /\ file' = (file \o (IF metadataWritten THEN <<>> ELSE Metadata(last))) \o RecordOf(last)
      /\ Len(issued') = last /\ issued'[last].session = sessions
      /\ \A i \in 1 .. last - 1 : issued'[i] = issued[i]
      /\ recordEnd'[last] = Len(file')
      /\ \A i \in 1 .. last - 1 : recordEnd'[i] = recordEnd[i]
  BY WriteStep
<1>3. DOMAIN issued' = 1 .. last
  <2>1. issued' \in Seq(Calls(sessions))
    BY WriteStep
  <2> QED
    BY <1>2, <2>1
<1>4. /\ metadataWritten <=> issued # <<>>
      /\ issued # <<>> => Len(file) = End(timed, Len(issued))
      /\ \A n \in DOMAIN issued : Whole(n)
      /\ issued = <<>> => file = <<>>
  BY <1>2 DEF Written
<1> DEFINE b == Len(file) + IF metadataWritten THEN 0 ELSE 2
<1>5. b = End(timed, last - 1)
  <2>1. CASE issued = <<>>
    <3>1. ~metadataWritten /\ Len(file) = 0 /\ last - 1 = 0
      BY <1>1, <1>4, <2>1
    <3> QED
      BY <1>1, <3>1, EndValues
  <2>2. CASE issued # <<>>
    <3>1. metadataWritten /\ Len(file) = End(timed, Len(issued)) /\ last - 1 = Len(issued)
      BY <1>1, <1>4, <2>2
    <3> QED
      BY <1>1, <3>1
  <2> QED
    BY <2>1, <2>2
<1>6. /\ file' \in Seq(Char) /\ Len(file') = b + IF timed THEN 8 ELSE 6
      /\ \A i \in 1 .. Len(file) : file'[i] = file[i]
      /\ ~metadataWritten => /\ file'[Len(file) + 1] = <<"metadata", last>>
                             /\ file'[Len(file) + 2] = MESSAGE_END
      /\ RecordAt(file', timed, b, last)
  BY <1>2, RecordText
<1> HIDE DEF b
<1>7. last - 1 \in Nat /\ last \in Nat \ {0}
  BY <1>1
<1>8. Len(file') = End(timed, last) /\ Len(file') \in Nat /\ End(timed, last) >= 2
  <2>1. CASE timed
    <3>1. Len(file') = b + 8
      BY <1>6, <2>1
    <3>2. End(timed, last) = End(timed, last - 1) + 8 /\ End(timed, last - 1) \in Nat /\ End(timed, last - 1) >= 2
      BY <1>1, <1>7, <2>1, EndBefore, Zenon
    <3> QED
      BY <1>5, <3>1, <3>2
  <2>2. CASE ~timed
    <3>1. Len(file') = b + 6
      BY <1>6, <2>2
    <3> QED
      <4>1. End(timed, last) = End(timed, last - 1) + 6 /\ End(timed, last - 1) \in Nat /\ End(timed, last - 1) >= 2
        BY <1>1, <1>7, <2>2, EndBefore, Zenon
      <4> QED
        BY <1>5, <3>1, <4>1
  <2> QED
    BY <2>1, <2>2
<1>9. ASSUME NEW n \in 1 .. last - 1
      PROVE  /\ n \in DOMAIN issued /\ Whole(n)
             /\ recordEnd[n] = End(timed, n) /\ End(timed, n) <= Len(file) /\ End(timed, n) \in Nat
             /\ MetadataAt(file') /\ RecordAt(file', timed, End(timed, n - 1), n)
  <2>1. n \in DOMAIN issued /\ Whole(n)
    BY <1>1, <1>4
  <2>2. /\ recordEnd[n] = End(timed, n) /\ End(timed, n) <= Len(file)
        /\ MetadataAt(file) /\ RecordAt(file, timed, End(timed, n - 1), n)
    BY <2>1 DEF Written
  <2>3. n \in Nat \ {0}
    BY <1>1
  <2>4. End(timed, n) \in Nat
    BY <1>1, <2>3, EndValues
  <2>5. MetadataAt(file') /\ RecordAt(file', timed, End(timed, n - 1), n)
    BY <1>1, <1>6, <1>8, <2>2, <2>3, HoldsInLonger
  <2> QED
    BY <2>1, <2>2, <2>4, <2>5
<1>10. MetadataAt(file')
  <2>1. CASE last = 1
    <3>1. issued = <<>>
      BY <1>1, <2>1
    <3>2. ~metadataWritten /\ Len(file) = 0
      BY <1>1, <1>4, <3>1
    <3> QED
      BY <1>6, <2>1, <3>2 DEF MetadataAt, Holds
  <2>2. CASE last # 1
    <3>1. 1 \in 1 .. last - 1
      BY <1>7, <2>2, <1>1
    <3> QED
      BY <1>9, <3>1
  <2> QED
    BY <2>1, <2>2
<1>11. ASSUME NEW n \in 1 .. last
       PROVE  /\ Whole(n)' /\ recordEnd'[n] = End(timed, n) /\ End(timed, n) <= Len(file')
              /\ RecordAt(file', timed, End(timed, n - 1), n)
  <2>1. issued'[n].session = sessions /\ issued'[1].session = sessions
    <3>1. \A i \in 1 .. last - 1 : i \in DOMAIN issued
      BY <1>1
    <3>2. n \in 1 .. last - 1 \/ n = last
      BY <1>7
    <3>3. 1 \in 1 .. last - 1 \/ 1 = last
      BY <1>1
    <3> QED
      BY <1>2, <3>1, <3>2, <3>3
  <2>2. /\ recordEnd'[n] = End(timed, n) /\ End(timed, n) <= Len(file')
        /\ RecordAt(file', timed, End(timed, n - 1), n)
    <3>1. CASE n = last
      <4>1. RecordAt(file', timed, End(timed, last - 1), last)
        BY <1>5, <1>6
      <4>2. recordEnd'[last] = End(timed, last) /\ End(timed, last) <= Len(file')
        <5>1. recordEnd'[last] = Len(file')
          BY <1>2
        <5> QED
          BY <1>8, <5>1
      <4> QED
        BY <3>1, <4>1, <4>2
    <3>2. CASE n # last
      <4>1. n \in 1 .. last - 1
        BY <1>7, <3>2
      <4>2. End(timed, n) <= End(timed, last)
        <5>1. n \in 0 .. last
          OBVIOUS
        <5> QED
          BY <1>1, <1>7, <5>1, EndValues
      <4> QED
        BY <1>2, <1>8, <1>9, <4>1, <4>2
    <3> QED
      BY <3>1, <3>2
  <2>3. recordEnd'[n] > 0
    <3>1. n \in Nat
      BY <1>7
    <3>2. End(timed, n) \in Nat /\ End(timed, n) >= 2
      BY <1>1, <3>1, EndValues
    <3> QED
      BY <2>2, <3>2
  <2> QED
    BY <1>3, <2>1, <2>2, <2>3 DEF Whole
<1> QED
  BY <1>8, <1>10, <1>11

-----------------------------------------------------------------------------
(* Written and OneSession *)

LEMMA WrittenInit ==
  ASSUME Init
  PROVE  Written /\ OneSession
<1>1. /\ issued = <<>> /\ DOMAIN issued = {} /\ file = <<>> /\ pc = "closed" /\ sessions = 0
  BY DEF Init
<1> QED
  BY <1>1 DEF Written, OneSession

\* What the actions of a replay, and closing a session, leave as it is.
LEMMA WrittenKept ==
  ASSUME Written, OneSession, UNCHANGED recorder, pc' = pc \/ pc' # "recording"
  PROVE  Written' /\ OneSession'
<1>1. \A n : Whole(n)' = Whole(n)
  BY DEF Whole, recorder
<1>2. /\ \A m, n \in DOMAIN issued : m <= n => issued[m].session <= issued[n].session
      /\ issued = <<>> => file = <<>>
  BY DEF Written
<1>3. ASSUME NEW n \in DOMAIN issued, Whole(n)
      PROVE  /\ recordEnd[n] = End(timed, n) /\ End(timed, n) <= Len(file)
             /\ MetadataAt(file) /\ RecordAt(file, timed, End(timed, n - 1), n)
             /\ \A k \in 1 .. n : Whole(k)
             /\ pc = "recording" /\ issued[1].session < sessions => End(timed, n) <= durable
  BY <1>3 DEF Written
<1>4. pc = "recording" /\ (\A n \in DOMAIN issued : issued[n].session = sessions) =>
       /\ metadataWritten <=> issued # <<>>
       /\ issued # <<>> => Len(file) = End(timed, Len(issued))
       /\ \A n \in DOMAIN issued : Whole(n)
  BY DEF Written
<1>5. UNCHANGED <<timed, file, sessions, durable, issued, recordEnd, metadataWritten>>
  BY DEF recorder
<1>6. Written'
  BY <1>1, <1>2, <1>3, <1>4, <1>5 DEF Written
<1>7. OneSession'
  BY <1>5 DEF OneSession
<1> QED
  BY <1>6, <1>7

LEMMA WrittenRecord ==
  ASSUME Types, Written, OneSession, Record
  PROVE  Written' /\ OneSession'
<1>1. /\ Len(issued) \in Nat /\ DOMAIN issued = 1 .. Len(issued)
      /\ \A n \in 1 .. Len(issued) : issued[n].session \in 1 .. sessions
      /\ sessions \in Nat /\ timed \in BOOLEAN /\ Len(file) \in Nat
      /\ (issued = <<>> <=> Len(issued) = 0) /\ (file = <<>> <=> Len(file) = 0)
  BY StateFacts
<1>2. /\ sessions' = sessions + 1 /\ durable' = Len(file) /\ metadataWritten' = FALSE
      /\ UNCHANGED <<timed, file, issued, recordEnd>>
  BY DEF Record
<1>3. \A n : Whole(n)' = Whole(n)
  BY <1>2 DEF Whole
<1>4. Written'
  <2>1. /\ \A m, n \in DOMAIN issued : m <= n => issued[m].session <= issued[n].session
        /\ issued = <<>> => file = <<>>
    BY DEF Written
  <2>2. ASSUME NEW n \in DOMAIN issued, Whole(n)
        PROVE  /\ recordEnd[n] = End(timed, n) /\ End(timed, n) <= Len(file)
               /\ MetadataAt(file) /\ RecordAt(file, timed, End(timed, n - 1), n)
               /\ \A k \in 1 .. n : Whole(k)
    BY <2>2 DEF Written
  <2>3. (\A n \in DOMAIN issued : issued[n].session = sessions') => issued = <<>> /\ DOMAIN issued = {}
    <3>1. \A n \in DOMAIN issued : issued[n].session # sessions'
      BY <1>1, <1>2
    <3>2. DOMAIN issued # {} => 1 \in DOMAIN issued
      BY <1>1
    <3> QED
      BY <1>1, <3>1, <3>2
  <2> QED
    BY <1>2, <1>3, <2>1, <2>2, <2>3 DEF Written
<1>5. OneSession'
  <2>1. SUFFICES ASSUME sessions' = 1 PROVE /\ MetadataAt(file)
                                           /\ DOMAIN issued = {}
                                           /\ Len(file) <= End(timed, Len(issued))
    BY <1>2 DEF OneSession
  <2>2. Len(issued) = 0
    BY <1>1, <1>2, <2>1
  <2>3. Len(file) = 0
    BY <1>1, <2>2 DEF Written
  <2>4. End(timed, Len(issued)) = 2
    BY <1>1, <2>2, EndValues
  <2>5. DOMAIN issued = {} /\ Len(file) <= End(timed, Len(issued))
    BY <1>1, <2>2, <2>3, <2>4
  <2> QED
    BY <2>3, <2>5 DEF MetadataAt, Holds
<1> QED
  BY <1>4, <1>5

LEMMA WrittenWrite ==
  ASSUME Types, Written, NEW c \in Command, Write(c)
  PROVE  Written' /\ OneSession'
<1> DEFINE last == Len(issued) + 1
<1>1. /\ Len(issued) \in Nat /\ DOMAIN issued = 1 .. Len(issued)
      /\ \A n \in 1 .. Len(issued) : issued[n].session \in 1 .. sessions /\ recordEnd[n] \in Nat
      /\ sessions \in Nat /\ timed \in BOOLEAN /\ Len(file) \in Nat
      /\ (issued = <<>> <=> Len(issued) = 0)
  BY StateFacts
<1>2. /\ last \in 1 .. MaxWrites /\ pc = "recording"
      /\ file' = (file \o (IF metadataWritten THEN <<>> ELSE Metadata(last))) \o RecordOf(last)
      /\ Len(issued') = last /\ issued'[last].session = sessions
      /\ \A i \in 1 .. last - 1 : issued'[i] = issued[i] /\ recordEnd'[i] = recordEnd[i]
      /\ UNCHANGED <<timed, pc, sessions, durable>> /\ metadataWritten' = TRUE
  BY WriteStep
<1>3. DOMAIN issued' = 1 .. last /\ issued' # <<>>
  <2>1. issued' \in Seq(Calls(sessions))
    BY WriteStep
  <2> QED
    BY <1>1, <1>2, <2>1
<1> HIDE DEF last
<1>4. last = Len(issued) + 1
  BY DEF last
<1>5. \A m, n \in DOMAIN issued' : m <= n => issued'[m].session <= issued'[n].session
  <2>1. \A m, n \in DOMAIN issued : m <= n => issued[m].session <= issued[n].session
    BY DEF Written
  <2>2. SUFFICES ASSUME NEW m \in 1 .. last, NEW n \in 1 .. last, m <= n
                 PROVE  issued'[m].session <= issued'[n].session
    BY <1>3
  <2>3. CASE n = last
    <3>1. m \in 1 .. last - 1 \/ m = last
      BY <1>1, <1>4
    <3>2. m \in 1 .. last - 1 => issued'[m].session \in 1 .. sessions
      BY <1>1, <1>2, <1>4
    <3> QED
      BY <1>1, <1>2, <2>3, <3>1, <3>2
  <2>4. CASE n # last
    <3>1. m \in 1 .. last - 1 /\ n \in 1 .. last - 1 /\ m \in DOMAIN issued /\ n \in DOMAIN issued
      BY <1>1, <1>4, <2>2, <2>4
    <3> QED
      BY <1>2, <2>1, <2>2, <3>1
  <2> QED
    BY <2>3, <2>4
<1>6. CASE \A n \in DOMAIN issued : issued[n].session = sessions
  <2>1. /\ Len(file') = End(timed, last) /\ MetadataAt(file')
        /\ \A n \in 1 .. last :
              /\ Whole(n)' /\ recordEnd'[n] = End(timed, n) /\ End(timed, n) <= Len(file')
              /\ RecordAt(file', timed, End(timed, n - 1), n)
    BY <1>4, <1>6, WriteInFirst
  <2>2. issued'[1].session = sessions
    <3>1. 1 \in 1 .. last - 1 \/ 1 = last
      BY <1>1, <1>4
    <3>2. \A i \in 1 .. last - 1 : i \in DOMAIN issued
      BY <1>1, <1>4
    <3> QED
      BY <1>2, <1>6, <3>1, <3>2
  <2>3. ~(issued'[1].session < sessions)
    BY <1>1, <2>2
  <2>4. \A n \in 1 .. last : \A k \in 1 .. n : k \in 1 .. last
    BY <1>1, <1>4
  <2>5. \A n \in 1 .. last : \A k \in 1 .. n : Whole(k)'
    BY <2>1, <2>4
  <2>6. Written'
    BY <1>2, <1>3, <1>5, <2>1, <2>3, <2>5 DEF Written
  <2>7. OneSession'
    <3>1. \A n \in 1 .. last : recordEnd'[n] # 0
      BY <2>1 DEF Whole
    <3>2. Len(file') <= End(timed, last)
      <4>1. End(timed, last) \in Nat
        BY <1>1, <1>4, EndValues
      <4> QED
        BY <2>1, <4>1
    <3> QED
      BY <1>2, <1>3, <2>1, <3>1, <3>2 DEF OneSession
  <2> QED
    BY <2>6, <2>7
<1>7. CASE ~(\A n \in DOMAIN issued : issued[n].session = sessions)
  <2>1. PICK later \in DOMAIN issued : issued[later].session # sessions
    BY <1>7
  <2>2. 1 \in DOMAIN issued /\ last # 1 /\ 1 \in 1 .. last - 1 /\ last - 1 = Len(issued)
    BY <1>1, <1>4
  <2>3. issued[1].session < sessions /\ 1 < sessions
    <3>1. issued[1].session <= issued[later].session
      BY <1>1, <2>2 DEF Written
    <3> QED
      BY <1>1, <2>1, <2>2, <3>1
  <2>4. issued'[1] = issued[1] /\ sessions' = sessions
    BY <1>2, <2>2
  <2>5. \A n \in DOMAIN issued : n \in DOMAIN issued' /\ issued'[n] = issued[n] /\ recordEnd'[n] = recordEnd[n]
    BY <1>1, <1>2, <1>3, <2>2
  <2>6. ASSUME NEW n PROVE Whole(n)' <=> Whole(n)
    <3>1. CASE n \in DOMAIN issued
      BY <2>4, <2>5, <3>1 DEF Whole
    <3>2. CASE n \notin DOMAIN issued
      <4>1. n \in DOMAIN issued' => n = last
        BY <1>1, <1>3, <1>4, <3>2
      <4>2. ~Whole(n)'
        BY <1>1, <1>2, <2>2, <2>3, <2>4, <4>1 DEF Whole
      <4> QED
        BY <3>2, <4>2 DEF Whole
    <3> QED
      BY <3>1, <3>2
  <2>7. ASSUME NEW n, Whole(n)
        PROVE  /\ recordEnd'[n] = End(timed, n) /\ End(timed, n) <= Len(file') /\ End(timed, n) <= durable
               /\ MetadataAt(file') /\ RecordAt(file', timed, End(timed, n - 1), n)
               /\ \A k \in 1 .. n : Whole(k)
    <3>1. n \in DOMAIN issued
      BY <2>7 DEF Whole
    <3>2. /\ recordEnd[n] = End(timed, n) /\ End(timed, n) <= Len(file) /\ End(timed, n) <= durable
          /\ MetadataAt(file) /\ RecordAt(file, timed, End(timed, n - 1), n)
          /\ \A k \in 1 .. n : Whole(k)
      BY <1>2, <2>3, <2>7, <3>1 DEF Written
    <3>3. n \in Nat \ {0} /\ End(timed, n) \in Nat
      BY <1>1, <3>1, EndValues
    <3>4. /\ file' \in Seq(Char) /\ Len(file') >= Len(file)
          /\ \A i \in 1 .. Len(file) : file'[i] = file[i]
      BY <1>2, FileGrows
    <3>5. Len(file') \in Nat /\ End(timed, n) <= Len(file')
      BY <1>1, <3>2, <3>3, <3>4
    <3>6. MetadataAt(file') /\ RecordAt(file', timed, End(timed, n - 1), n)
      BY <1>1, <3>2, <3>3, <3>4, <3>5, HoldsInLonger
    <3> QED
      BY <2>5, <3>1, <3>2, <3>5, <3>6
  <2>8. \E n \in DOMAIN issued' : issued'[n].session # sessions'
    BY <2>1, <2>4, <2>5
  <2>9. Written'
    BY <1>2, <1>3, <1>5, <2>6, <2>7, <2>8 DEF Written
  <2>10. sessions' # 1
    BY <1>1, <2>3, <2>4
  <2> QED
    BY <2>9, <2>10 DEF OneSession
<1> QED
  BY <1>6, <1>7

LEMMA WrittenCrash ==
  ASSUME Types, Written, OneSession, NEW kept \in durable .. Len(file), Crash(kept)
  PROVE  Written' /\ OneSession'
<1>1. /\ Len(issued) \in Nat /\ DOMAIN issued = 1 .. Len(issued)
      /\ \A n \in 1 .. Len(issued) : issued[n].session \in 1 .. sessions /\ recordEnd[n] \in Nat
      /\ sessions \in Nat /\ timed \in BOOLEAN /\ Len(file) \in Nat
      /\ (issued = <<>> <=> Len(issued) = 0) /\ (file = <<>> <=> Len(file) = 0)
  BY StateFacts
<1>2. /\ file' \in Seq(Char) /\ Len(file') = kept /\ kept \in 0 .. Len(file) /\ durable <= kept
      /\ \A i \in 1 .. kept : file'[i] = file[i]
      /\ \A n \in DOMAIN issued : recordEnd'[n] = IF recordEnd[n] > kept THEN 0 ELSE recordEnd[n]
  BY CrashStep
<1>3. pc' = "closed" /\ UNCHANGED <<timed, sessions, durable, issued>>
  BY DEF Crash
<1>4. Len(file') \in Nat /\ Len(file') <= Len(file)
  BY <1>2
<1>5. \A p \in Nat, n \in Nat : /\ MetadataAt(file) => MetadataAt(file')
                                /\ RecordAt(file, timed, p, n) => RecordAt(file', timed, p, n)
  BY <1>1, <1>2, <1>4, HoldsInCut
<1>6. ASSUME NEW n, Whole(n)'
      PROVE  /\ n \in DOMAIN issued /\ Whole(n) /\ recordEnd'[n] = recordEnd[n] /\ recordEnd[n] <= kept
  <2>1. n \in DOMAIN issued /\ issued[n].session = issued[1].session /\ recordEnd'[n] > 0
    BY <1>3, <1>6 DEF Whole
  <2>2. recordEnd[n] \in Nat /\ kept \in Nat
    BY <1>1, <1>2, <2>1
  <2>3. ~(recordEnd[n] > kept) /\ recordEnd'[n] = recordEnd[n]
    BY <1>2, <2>1
  <2> QED
    BY <2>1, <2>2, <2>3 DEF Whole
<1>7. ASSUME NEW n, Whole(n), recordEnd[n] <= kept
      PROVE  Whole(n)'
  <2>1. n \in DOMAIN issued /\ issued[n].session = issued[1].session /\ recordEnd[n] > 0
    BY <1>7 DEF Whole
  <2>2. recordEnd[n] \in Nat /\ kept \in Nat
    BY <1>1, <1>2, <2>1
  <2>3. ~(recordEnd[n] > kept)
    BY <1>7, <2>2
  <2>4. recordEnd'[n] = recordEnd[n]
    BY <1>2, <2>1, <2>3
  <2> QED
    BY <1>3, <2>1, <2>4 DEF Whole
<1>8. ASSUME NEW n \in DOMAIN issued, Whole(n)'
      PROVE  /\ recordEnd'[n] = End(timed, n) /\ End(timed, n) <= Len(file')
             /\ MetadataAt(file') /\ RecordAt(file', timed, End(timed, n - 1), n)
             /\ \A k \in 1 .. n : Whole(k)'
  <2>1. Whole(n) /\ recordEnd'[n] = recordEnd[n] /\ recordEnd[n] <= kept
    BY <1>6, <1>8
  <2>2. /\ recordEnd[n] = End(timed, n) /\ MetadataAt(file) /\ RecordAt(file, timed, End(timed, n - 1), n)
        /\ \A k \in 1 .. n : Whole(k)
    BY <2>1 DEF Written
  <2>3. n \in Nat /\ n \in Nat \ {0}
    BY <1>1
  <2>4. End(timed, n - 1) \in Nat
    BY <1>1, <2>3, EndBefore
  <2>5. ASSUME NEW k \in 1 .. n PROVE Whole(k)'
    <3>1. k \in DOMAIN issued /\ Whole(k)
      BY <2>2 DEF Whole
    <3>2. recordEnd[k] = End(timed, k)
      BY <3>1 DEF Written
    <3>3. End(timed, k) \in Nat /\ End(timed, k) <= End(timed, n) /\ End(timed, n) \in Nat
      <4>1. k \in 0 .. n
        BY <2>3
      <4> QED
        BY <1>1, <2>3, <4>1, EndValues
    <3>4. recordEnd[k] <= kept
      BY <1>2, <2>1, <2>2, <3>2, <3>3
    <3> QED
      BY <1>7, <3>1, <3>4
  <2> QED
    BY <1>2, <1>5, <2>1, <2>2, <2>3, <2>4, <2>5
<1>9. Written'
  <2>1. /\ \A m, n \in DOMAIN issued : m <= n => issued[m].session <= issued[n].session
        /\ issued = <<>> => file' = <<>>
    <3>1. issued = <<>> => Len(file) = 0
      BY <1>1 DEF Written
    <3>2. issued = <<>> => Len(file') = 0
      BY <1>4, <3>1, <1>1
    <3>3. Len(file') = 0 => file' = <<>>
      BY <1>2, EmptySeq
    <3> QED
      BY <3>2, <3>3 DEF Written
  <2> QED
    BY <1>3, <1>8, <2>1 DEF Written
<1>10. OneSession'
  <2>1. SUFFICES ASSUME sessions = 1
                 PROVE  /\ MetadataAt(file') /\ Len(file') <= End(timed, Len(issued))
                        /\ \A n \in DOMAIN issued : /\ RecordAt(file', timed, End(timed, n - 1), n)
                                                    /\ recordEnd'[n] = 0 => Len(file') < End(timed, n)
    BY <1>3 DEF OneSession
  <2>2. /\ MetadataAt(file) /\ Len(file) <= End(timed, Len(issued))
        /\ \A n \in DOMAIN issued : /\ RecordAt(file, timed, End(timed, n - 1), n)
                                    /\ recordEnd[n] = 0 => Len(file) < End(timed, n)
    BY <2>1 DEF OneSession
  <2>3. End(timed, Len(issued)) \in Nat
    BY <1>1, EndValues
  <2>4. MetadataAt(file') /\ Len(file') <= End(timed, Len(issued))
    BY <1>1, <1>4, <1>5, <2>2, <2>3
  <2>5. ASSUME NEW n \in DOMAIN issued
        PROVE  /\ RecordAt(file', timed, End(timed, n - 1), n)
               /\ recordEnd'[n] = 0 => Len(file') < End(timed, n)
    <3>1. n \in Nat \ {0} /\ n \in Nat
      BY <1>1
    <3>2. End(timed, n - 1) \in Nat /\ End(timed, n) \in Nat
      BY <1>1, <3>1, EndBefore
    <3>3. RecordAt(file', timed, End(timed, n - 1), n)
      BY <1>5, <2>2, <3>1, <3>2
    <3>4. ASSUME recordEnd'[n] = 0 PROVE Len(file') < End(timed, n)
      <4>1. CASE recordEnd[n] = 0
        BY <1>1, <1>4, <2>2, <3>2, <4>1
      <4>2. CASE recordEnd[n] # 0
        <5>1. recordEnd[n] \in Nat /\ recordEnd[n] > kept
          BY <1>1, <1>2, <3>4, <4>2
        <5>2. Whole(n)
          <6>1. 1 \in DOMAIN issued
            BY <1>1
          <6>2. issued[n].session = 1 /\ issued[1].session = 1
            BY <1>1, <2>1, <6>1
          <6> QED
            BY <4>2, <5>1, <6>2 DEF Whole
        <5>3. recordEnd[n] = End(timed, n)
          BY <5>2 DEF Written
        <5> QED
          BY <1>2, <5>1, <5>3
      <4> QED
        BY <4>1, <4>2
    <3> QED
      BY <3>3, <3>4
  <2> QED
    BY <2>4, <2>5
<1> QED
  BY <1>9, <1>10

LEMMA WrittenNext ==
  ASSUME Types, Written, OneSession, [Next]_vars
  PROVE  Written' /\ OneSession'
<1>1. CASE Record
  BY <1>1, WrittenRecord
<1>2. ASSUME NEW c \in Command, Write(c) PROVE Written' /\ OneSession'
  BY <1>2, WrittenWrite
<1>3. ASSUME NEW kept \in durable .. Len(file), Crash(kept) PROVE Written' /\ OneSession'
  BY <1>3, WrittenCrash
<1>4. CASE Close \/ Replay \/ ReadCommand \/ EndReplay \/ UNCHANGED vars
  BY <1>4, WrittenKept DEF Close, Replay, ReadCommand, EndReplay, vars
<1>5. CASE Read
  <2>1. pc' \in {"reading", "replaying"} /\ UNCHANGED recorder
    BY <1>5, ReadStep
  <2> QED
    BY <2>1, WrittenKept
<1> QED
  BY <1>1, <1>2, <1>3, <1>4, <1>5 DEF Next

-----------------------------------------------------------------------------
(* What one iteration of readCommand() reads *)

At(p) == [read |-> p, eof |-> FALSE, fail |-> FALSE]

LEMMA AtMoved ==
  ASSUME NEW p, NEW e
  PROVE  [At(p) EXCEPT !.read = e] = At(e)
<1> DEFINE Moved == [read : {e}, eof : {FALSE}, fail : {FALSE}]
<1>1. [At(p) EXCEPT !.read = e] \in Moved /\ At(e) \in Moved
  BY DEF At
<1>2. ASSUME NEW x \in Moved, NEW y \in Moved
      PROVE  x = y
  <2>1. /\ x = [read |-> x.read, eof |-> x.eof, fail |-> x.fail]
        /\ y = [read |-> y.read, eof |-> y.eof, fail |-> y.fail]
    OBVIOUS
  <2>2. x.read = y.read /\ x.eof = y.eof /\ x.fail = y.fail
    OBVIOUS
  <2> QED
    BY <2>1, <2>2
<1> QED
  BY <1>1, <1>2

LEMMA FieldRead ==
  ASSUME Len(file) \in Nat, NEW p \in Nat, NEW k \in Nat \ {0}, p + k <= Len(file), NEW old,
         file[p + k] = MESSAGE_END, \A i \in p + 1 .. p + k - 1 : file[i] # MESSAGE_END
  PROVE  Getline(At(p), old) = [text |-> SubSeq(file, p + 1, p + k - 1), s |-> At(p + k)]
<1> DEFINE s == At(p)
<1>1. ~s.eof /\ ~s.fail /\ s.read = p /\ [s EXCEPT !.read = p + k] = At(p + k)
  <2>1. ~s.eof /\ ~s.fail /\ s.read = p
    BY DEF At
  <2> QED
    BY <2>1, AtMoved
<1> HIDE DEF s
<1>2. s.read \in Nat /\ p + k \in s.read + 1 .. Len(file)
  BY <1>1
<1>3. Getline(s, old) = [text |-> SubSeq(file, s.read + 1, p + k - 1), s |-> [s EXCEPT !.read = p + k]]
  BY <1>1, <1>2, GetlineField
<1> QED
  BY <1>1, <1>3 DEF s

LEMMA FieldCut ==
  ASSUME Len(file) \in Nat, NEW p \in Nat, NEW old,
         \A i \in p + 1 .. Len(file) : file[i] # MESSAGE_END
  PROVE  Getline(At(p), old).text = SubSeq(file, p + 1, Len(file)) /\ Getline(At(p), old).s.eof
<1> DEFINE s == At(p)
<1>1. ~s.eof /\ ~s.fail /\ s.read = p
  BY DEF At
<1> HIDE DEF s
<1>2. Getline(s, old) = [text |-> SubSeq(file, s.read + 1, Len(file)),
                         s |-> [read |-> Len(file), eof |-> TRUE, fail |-> s.read = Len(file)]]
  BY <1>1, GetlineOpen
<1> QED
  BY <1>1, <1>2 DEF s

LEMMA FieldClosed ==
  ASSUME NEW s \in Stream, NEW old, s.eof \/ s.fail
  PROVE  Getline(s, old).text = old /\ Getline(s, old).s.fail
<1> DEFINE closed == [s EXCEPT !.fail = TRUE]
<1>1. Getline(s, old) = [text |-> old, s |-> closed]
  BY GetlineClosed
<1>2. closed.fail = TRUE
  BY DEF Stream
<1> HIDE DEF closed
<1> QED
  BY <1>1, <1>2

LEMMA NotTheEnd ==
  ASSUME NEW n, NEW k \in {"metadata", "command", "lf", "response", "end", "time"}
  PROVE  <<k, n>> # MESSAGE_END
BY DEF MESSAGE_END

LEMMA TwoCharacters ==
  ASSUME file \in Seq(Char), NEW a \in Nat \ {0}, a + 1 <= Len(file)
  PROVE  SubSeq(file, a, a + 1) = <<file[a], file[a + 1]>>
<1>1. Len(file) \in Nat /\ a \in 1 .. Len(file) /\ a + 1 \in 1 .. Len(file)
  OBVIOUS
<1>2. file[a] \in Char /\ file[a + 1] \in Char
  BY <1>1
<1>3. \A i \in a .. a + 1 : file[i] \in Char
  BY <1>1
<1> DEFINE text == SubSeq(file, a, a + 1)
<1>4. /\ text \in Seq(Char) /\ Len(text) = IF a <= a + 1 THEN (a + 1) - a + 1 ELSE 0
      /\ \A i \in 1 .. (a + 1) - a + 1 : text[i] = file[a + i - 1]
  BY <1>1, <1>3, SubSeqProperties
<1> HIDE DEF text
<1>5. /\ Len(text) = 2 /\ text[1] = file[a] /\ text[2] = file[a + 1]
  <2>1. (a + 1) - a + 1 = 2 /\ a <= a + 1 /\ a + 1 - 1 = a /\ a + 2 - 1 = a + 1
    OBVIOUS
  <2>2. 1 \in 1 .. 2 /\ 2 \in 1 .. 2
    OBVIOUS
  <2> QED
    BY <1>4, <2>1, <2>2
<1> DEFINE x == file[a]  y == file[a + 1]
<1>6. x \in Char /\ y \in Char /\ text[1] = x /\ text[2] = y
  BY <1>2, <1>5
<1> HIDE DEF x, y
<1>7. <<x, y>> \in Seq(Char) /\ Len(<<x, y>>) = 2 /\ <<x, y>>[1] = x /\ <<x, y>>[2] = y
  BY <1>6
<1>8. \A i \in 1 .. 2 : text[i] = <<x, y>>[i]
  BY <1>6, <1>7
<1>9. text = <<x, y>>
  BY <1>4, <1>5, <1>7, <1>8, SeqEqual
<1> QED
  BY <1>9 DEF text, x, y

\* The metadata, where a replay begins.
LEMMA MetaRead ==
  ASSUME Types, NEW r \in Nat, Reached(r), MetadataAt(file),
         r # 0 => End(timed, r) <= Len(file)
  PROVE  /\ End(timed, r) <= Len(file) => Meta.s = At(End(timed, r))
         /\ End(timed, r) > Len(file) => Meta.s.eof
<1>1. timed \in BOOLEAN /\ Len(file) \in Nat /\ stream \in Stream
  BY StateFacts DEF Types
<1>2. stream = At(IF r = 0 THEN 0 ELSE End(timed, r)) /\ (metadataRead <=> r # 0)
  <2>1. /\ stream = [read |-> stream.read, eof |-> stream.eof, fail |-> stream.fail]
        /\ stream.eof \in BOOLEAN /\ stream.fail \in BOOLEAN
    BY <1>1 DEF Stream
  <2>2. stream.eof = FALSE /\ stream.fail = FALSE
    BY <2>1 DEF Reached
  <2> QED
    BY <2>1, <2>2 DEF At, Reached
<1>3. CASE r # 0
  <2>1. Meta.s = At(End(timed, r))
    BY <1>2, <1>3 DEF Meta
  <2>2. End(timed, r) \in Nat
    BY <1>1, EndValues
  <2> QED
    BY <1>1, <1>3, <2>1, <2>2
<1>4. CASE r = 0
  <2>1. End(timed, r) = 2 /\ Meta = Getline(At(0), <<>>)
    BY <1>1, <1>2, <1>4, EndValues DEF Meta
  <2>2. ASSUME 2 <= Len(file) PROVE Meta.s = At(2)
    <3>1. file[1] # MESSAGE_END /\ file[2] = MESSAGE_END
      <4>1. 1 <= Len(file)
        BY <1>1, <2>2
      <4>2. file[1] = <<"metadata", 1>> /\ file[2] = MESSAGE_END
        BY <2>2, <4>1 DEF MetadataAt, Holds
      <4> QED
        BY <4>2, NotTheEnd
    <3>2. 2 \in Nat \ {0} /\ 0 \in Nat /\ 0 + 2 <= Len(file) /\ file[0 + 2] = MESSAGE_END
          /\ \A i \in 0 + 1 .. 0 + 2 - 1 : file[i] # MESSAGE_END
      BY <2>2, <3>1
    <3>3. Getline(At(0), <<>>) = [text |-> SubSeq(file, 0 + 1, 0 + 2 - 1), s |-> At(0 + 2)]
      BY <1>1, <3>2, FieldRead
    <3>4. 0 + 2 = 2
      OBVIOUS
    <3> QED
      BY <2>1, <3>3, <3>4
  <2>3. ASSUME 2 > Len(file) PROVE Meta.s.eof
    <3>1. \A i \in 0 + 1 .. Len(file) : file[i] # MESSAGE_END
      <4>1. \A i \in 0 + 1 .. Len(file) : i = 1 /\ 1 <= Len(file)
        BY <1>1, <2>3
      <4> QED
        BY <4>1, NotTheEnd DEF MetadataAt, Holds
    <3> QED
      BY <1>1, <2>1, <3>1, FieldCut
  <2> QED
    BY <2>1, <2>2, <2>3
<1> QED
  BY <1>3, <1>4

\* A record that is whole is read as it was written.
LEMMA WholeRead ==
  ASSUME Types, NEW r \in Nat, Reached(r), MetadataAt(file), NEW n, n = r + 1,
         RecordAt(file, timed, End(timed, r), n), End(timed, n) <= Len(file)
  PROVE  /\ Cmd.text # <<>> /\ Cmd.text[1] = <<"command", n>>
         /\ Resp.text = Response(n) /\ Tim.s = At(End(timed, n))
<1> DEFINE p == End(timed, r)
<1>1. timed \in BOOLEAN /\ Len(file) \in Nat /\ file \in Seq(Char)
  BY StateFacts DEF Types
<1>2. /\ p \in Nat /\ p + 6 <= Len(file) /\ p <= Len(file)
      /\ timed => p + 8 <= Len(file) /\ End(timed, n) = p + 8
      /\ ~timed => End(timed, n) = p + 6
  <2>1. CASE timed
    BY <1>1, <2>1 DEF End
  <2>2. CASE ~timed
    BY <1>1, <2>2 DEF End
  <2> QED
    BY <2>1, <2>2
<1>3. /\ RecordAt(file, timed, p, n)
      /\ p <= Len(file) => Meta.s = At(p)
  BY <1>1, <1>2, MetaRead
<1> HIDE DEF p
<1>4. Meta.s = At(p)
  BY <1>2, <1>3
<1>5. /\ file[p + 1] = <<"command", n>> /\ file[p + 2] = <<"lf", n>> /\ file[p + 3] = MESSAGE_END
      /\ file[p + 4] = <<"response", n>> /\ file[p + 5] = <<"end", n>> /\ file[p + 6] = MESSAGE_END
      /\ timed => file[p + 7] = <<"time", n>> /\ file[p + 8] = MESSAGE_END
  <2>1. /\ \A k \in {1, 2, 3, 4, 5, 6} : p + k <= Len(file)
        /\ timed => \A k \in {7, 8} : p + k <= Len(file)
    BY <1>1, <1>2
  <2> QED
    BY <1>3, <2>1 DEF RecordAt, Holds
<1>6. /\ file[p + 1] # MESSAGE_END /\ file[p + 2] # MESSAGE_END
      /\ file[p + 4] # MESSAGE_END /\ file[p + 5] # MESSAGE_END
      /\ timed => file[p + 7] # MESSAGE_END
  BY <1>5, NotTheEnd
<1>7. Cmd = [text |-> SubSeq(file, p + 1, p + 3 - 1), s |-> At(p + 3)]
  <2>1. \A i \in p + 1 .. p + 3 - 1 : i = p + 1 \/ i = p + 2
    BY <1>2
  <2>2. 3 \in Nat \ {0} /\ p + 3 <= Len(file)
    BY <1>1, <1>2
  <2>3. file[p + 3] = MESSAGE_END /\ \A i \in p + 1 .. p + 3 - 1 : file[i] # MESSAGE_END
    BY <1>5, <1>6, <2>1
  <2>4. Getline(At(p), logCommand) = [text |-> SubSeq(file, p + 1, p + 3 - 1), s |-> At(p + 3)]
    BY <1>1, <1>2, <2>2, <2>3, FieldRead
  <2> QED
    BY <1>4, <2>4 DEF Cmd
<1>8. Resp = [text |-> SubSeq(file, p + 3 + 1, p + 3 + 3 - 1), s |-> At(p + 3 + 3)]
  <2>1. \A i \in p + 3 + 1 .. p + 3 + 3 - 1 : i = p + 4 \/ i = p + 5
    BY <1>2
  <2>2. 3 \in Nat \ {0} /\ p + 3 \in Nat /\ p + 3 + 3 <= Len(file) /\ p + 3 + 3 = p + 6
    BY <1>1, <1>2
  <2>3. Resp = Getline(At(p + 3), <<>>)
    BY <1>7 DEF Resp
  <2> QED
    <3> DEFINE q == p + 3
    <3>1. q \in Nat /\ q + 3 <= Len(file) /\ file[q + 3] = MESSAGE_END
      BY <1>5, <2>2
    <3>2. \A i \in q + 1 .. q + 3 - 1 : file[i] # MESSAGE_END
      BY <1>6, <2>1
    <3> HIDE DEF q
    <3>3. Getline(At(q), <<>>) = [text |-> SubSeq(file, q + 1, q + 3 - 1), s |-> At(q + 3)]
      BY <1>1, <2>2, <3>1, <3>2, FieldRead
    <3> QED
      BY <2>3, <3>3 DEF q
<1>9. Tim.s = At(End(timed, n))
  <2>1. CASE timed
    <3>1. \A i \in p + 6 + 1 .. p + 6 + 2 - 1 : i = p + 7
      BY <1>2
    <3>2. 2 \in Nat \ {0} /\ p + 6 \in Nat /\ p + 6 + 2 <= Len(file) /\ p + 6 + 2 = p + 8 /\ p + 3 + 3 = p + 6
      BY <1>1, <1>2, <2>1
    <3>3. Tim = Getline(At(p + 6), <<>>)
      BY <1>8, <2>1, <3>2 DEF Tim
    <3>4. Tim = [text |-> SubSeq(file, p + 6 + 1, p + 6 + 2 - 1), s |-> At(p + 6 + 2)]
      BY <1>1, <1>5, <1>6, <2>1, <3>1, <3>2, <3>3, FieldRead
    <3> QED
      BY <1>2, <2>1, <3>2, <3>4
  <2>2. CASE ~timed
    <3>1. p + 3 + 3 = p + 6
      BY <1>2
    <3> QED
      BY <1>2, <1>8, <2>2, <3>1 DEF Tim
  <2> QED
    BY <2>1, <2>2
<1>10. Cmd.text = <<file[p + 1], file[p + 2]>> /\ Resp.text = <<file[p + 4], file[p + 5]>>
  <2>1. /\ p + 1 \in Nat \ {0} /\ p + 1 + 1 <= Len(file) /\ p + 3 - 1 = p + 1 + 1 /\ p + 1 + 1 = p + 2
        /\ p + 4 \in Nat \ {0} /\ p + 4 + 1 <= Len(file) /\ p + 3 + 3 - 1 = p + 4 + 1
        /\ p + 3 + 1 = p + 4 /\ p + 4 + 1 = p + 5
    BY <1>1, <1>2
  <2>2. SubSeq(file, p + 1, p + 1 + 1) = <<file[p + 1], file[p + 1 + 1]>>
    BY <1>1, <2>1, TwoCharacters
  <2>3. SubSeq(file, p + 4, p + 4 + 1) = <<file[p + 4], file[p + 4 + 1]>>
    BY <1>1, <2>1, TwoCharacters
  <2>4. Cmd.text = SubSeq(file, p + 1, p + 1 + 1) /\ Resp.text = SubSeq(file, p + 4, p + 4 + 1)
    BY <1>7, <1>8, <2>1
  <2> QED
    BY <2>1, <2>2, <2>3, <2>4
<1> QED
  BY <1>5, <1>9, <1>10 DEF Response

LEMMA ClosedRest ==
  ASSUME Types, Cmd.s.eof \/ Cmd.s.fail
  PROVE  Resp.text = <<>> /\ Tim.s.fail
<1>1. Cmd.s \in Stream /\ Resp.s \in Stream
  BY ReadTypes
<1>2. Resp.text = <<>> /\ Resp.s.fail
  BY <1>1, FieldClosed DEF Resp
<1>3. Getline(Resp.s, <<>>).s.fail
  BY <1>1, <1>2, FieldClosed
<1> QED
  BY <1>2, <1>3 DEF Tim

LEMMA Beginning ==
  ASSUME NEW x, NEW y, NEW S, NEW text \in Seq(S), Len(text) <= 2,
         Len(text) >= 1 => text[1] = x, Len(text) >= 2 => text[2] = y
  PROVE  IsPrefix(text, <<x, y>>)
<1> DEFINE T == S \cup {x, y}  whole == <<x, y>>  k == Len(text)
<1>1. text \in Seq(T) /\ x \in T /\ y \in T
  BY SeqMonotonic
<1>2. k \in 0 .. 2 /\ (k >= 1 => text[1] = x) /\ (k >= 2 => text[2] = y)
  <2>1. Len(text) \in Nat /\ Len(text) <= 2
    OBVIOUS
  <2>2. \A m \in Nat : m <= 2 => m \in 0 .. 2
    OBVIOUS
  <2> QED
    BY <2>1, <2>2, Zenon
<1>3. SubSeq(text, 1, k) = text
  BY SubSeqFull
<1> HIDE DEF T
<1>4. whole \in Seq(T) /\ Len(whole) = 2 /\ whole[1] = x /\ whole[2] = y
  BY <1>1
<1>5. \A i \in 1 .. k : whole[i] \in T
  BY <1>2, <1>4
<1> HIDE DEF whole
<1>6. /\ SubSeq(whole, 1, k) \in Seq(T)
      /\ Len(SubSeq(whole, 1, k)) = IF 1 <= k THEN k - 1 + 1 ELSE 0
      /\ \A i \in 1 .. k - 1 + 1 : SubSeq(whole, 1, k)[i] = whole[1 + i - 1]
  BY <1>2, <1>5, SubSeqProperties
<1> DEFINE cut == SubSeq(whole, 1, k)
<1>7. cut \in Seq(T) /\ Len(cut) = k /\ \A i \in 1 .. k : cut[i] = whole[i]
  BY <1>2, <1>6
<1> HIDE DEF cut
<1>8. \A i \in 1 .. k : cut[i] = text[i]
  <2>1. \A i \in 1 .. k : i = 1 \/ i = 2
    BY <1>2
  <2> QED
    BY <1>2, <1>4, <1>7, <2>1
<1>9. cut = text
  BY <1>1, <1>7, <1>8, SeqEqual
<1> QED
  BY <1>2, <1>3, <1>4, <1>9 DEF IsPrefix, cut, whole

\* Of a record that is cut, and of none at all, a replay reads what is left and is at the end.
LEMMA CutRead ==
  ASSUME Types, NEW r \in Nat, Reached(r), MetadataAt(file), NEW n, n = r + 1,
         RecordAt(file, timed, End(timed, r), n), Len(file) < End(timed, n),
         r # 0 => End(timed, r) <= Len(file)
  PROVE  /\ Tim.s.eof \/ Tim.s.fail
         /\ Resp.text = <<>> \/ (End(timed, r) < Len(file) /\ IsPrefix(Resp.text, Response(n)))
<1> DEFINE p == End(timed, r)  last == Len(file)
<1>1. timed \in BOOLEAN /\ last \in Nat /\ file \in Seq(Char)
  BY StateFacts DEF Types
<1>2. p \in Nat /\ (last < p + 6 \/ (timed /\ last < p + 8))
  <2>1. CASE timed
    BY <1>1, <2>1 DEF End
  <2>2. CASE ~timed
    BY <1>1, <2>2 DEF End
  <2> QED
    BY <2>1, <2>2
<1>3. /\ RecordAt(file, timed, p, n)
      /\ p <= last => Meta.s = At(p)
      /\ p > last => Meta.s.eof
  BY MetaRead
<1>4. Meta.s \in Stream /\ Cmd.s \in Stream /\ Resp.s \in Stream
  BY ReadTypes
<1> HIDE DEF p
<1>5. CASE last < p
  <2>1. Meta.s.eof
    BY <1>1, <1>2, <1>3, <1>5
  <2>2. Cmd.s.fail
    BY <1>4, <2>1, FieldClosed DEF Cmd
  <2> QED
    BY <2>2, ClosedRest
<1>6. CASE p <= last /\ last < p + 3
  <2>1. \A i \in p + 1 .. last : file[i] # MESSAGE_END
    <3>1. \A i \in p + 1 .. last : (i = p + 1 \/ i = p + 2) /\ i <= Len(file)
      BY <1>1, <1>2, <1>6
    <3>2. /\ p + 1 <= Len(file) => file[p + 1] = <<"command", n>>
          /\ p + 2 <= Len(file) => file[p + 2] = <<"lf", n>>
      BY <1>3 DEF RecordAt, Holds
    <3> QED
      BY <3>1, <3>2, NotTheEnd
  <2>2. Cmd.s.eof
    BY <1>1, <1>2, <1>3, <1>6, <2>1, FieldCut DEF Cmd
  <2> QED
    BY <2>2, ClosedRest
<1>7. CASE p + 3 <= last
  <2>1. Cmd.s = At(p + 3)
    <3>1. \A i \in p + 1 .. p + 3 - 1 : i = p + 1 \/ i = p + 2
      BY <1>2
    <3>2. /\ 3 \in Nat \ {0} /\ p + 3 <= Len(file)
          /\ p + 1 <= Len(file) /\ p + 2 <= Len(file) /\ p <= last
      BY <1>1, <1>2, <1>7
    <3>3. file[p + 1] = <<"command", n>> /\ file[p + 2] = <<"lf", n>> /\ file[p + 3] = MESSAGE_END
      BY <1>3, <3>2 DEF RecordAt, Holds
    <3>4. \A i \in p + 1 .. p + 3 - 1 : file[i] # MESSAGE_END
      BY <3>1, <3>3, NotTheEnd
    <3>5. Getline(At(p), logCommand) = [text |-> SubSeq(file, p + 1, p + 3 - 1), s |-> At(p + 3)]
      BY <1>1, <1>2, <3>2, <3>3, <3>4, FieldRead
    <3> QED
      BY <1>3, <3>2, <3>5 DEF Cmd
  <2>2. Resp = Getline(At(p + 3), <<>>)
    BY <2>1 DEF Resp
  <2>3. /\ p + 4 <= Len(file) => file[p + 4] = <<"response", n>>
        /\ p + 5 <= Len(file) => file[p + 5] = <<"end", n>>
    BY <1>3 DEF RecordAt, Holds
  <2>4. /\ p + 4 <= Len(file) => file[p + 4] # MESSAGE_END
        /\ p + 5 <= Len(file) => file[p + 5] # MESSAGE_END
    BY <2>3, NotTheEnd
  <2>5. p < last
    BY <1>1, <1>2, <1>7
  <2>6. CASE last < p + 6
    <3>1. \A i \in p + 3 + 1 .. last : (i = p + 4 \/ i = p + 5) /\ i <= Len(file)
      BY <1>1, <1>2, <2>6
    <3>2. p + 3 \in Nat /\ \A i \in p + 3 + 1 .. last : file[i] # MESSAGE_END
      BY <1>2, <2>4, <3>1
    <3>3. Resp.text = SubSeq(file, p + 3 + 1, last) /\ Resp.s.eof
      BY <1>1, <2>2, <3>2, FieldCut
    <3>4. Tim.s.eof \/ Tim.s.fail
      <4>1. Getline(Resp.s, <<>>).s.fail
        BY <1>4, <3>3, FieldClosed
      <4> QED
        BY <3>3, <4>1 DEF Tim
    <3>5. /\ Resp.text \in Seq(Char)
          /\ Len(Resp.text) = IF p + 3 + 1 <= last THEN last - (p + 3 + 1) + 1 ELSE 0
          /\ \A i \in 1 .. last - (p + 3 + 1) + 1 : Resp.text[i] = file[(p + 3 + 1) + i - 1]
      <4>1. /\ p + 3 + 1 \in Int /\ last \in Int
            /\ \A i \in p + 3 + 1 .. last : i \in 1 .. Len(file)
        BY <1>1, <1>2
      <4>2. \A i \in p + 3 + 1 .. last : file[i] \in Char
        BY <1>1, <4>1
      <4> QED
        BY <3>3, <4>1, <4>2, SubSeqProperties
    <3>6. /\ Len(Resp.text) <= 2
          /\ Len(Resp.text) >= 1 => p + 4 <= Len(file) /\ Resp.text[1] = file[p + 4]
          /\ Len(Resp.text) >= 2 => p + 5 <= Len(file) /\ Resp.text[2] = file[p + 5]
      <4>1. Len(Resp.text) = last - (p + 3)
        BY <1>1, <1>2, <1>7, <3>5
      <4>2. ASSUME Len(Resp.text) >= 1 PROVE p + 4 <= Len(file) /\ Resp.text[1] = file[p + 4]
        <5>1. 1 \in 1 .. last - (p + 3 + 1) + 1 /\ (p + 3 + 1) + 1 - 1 = p + 4 /\ p + 4 <= Len(file)
          BY <1>1, <1>2, <4>1, <4>2
        <5> QED
          BY <3>5, <5>1
      <4>3. ASSUME Len(Resp.text) >= 2 PROVE p + 5 <= Len(file) /\ Resp.text[2] = file[p + 5]
        <5>1. 2 \in 1 .. last - (p + 3 + 1) + 1 /\ (p + 3 + 1) + 2 - 1 = p + 5 /\ p + 5 <= Len(file)
          BY <1>1, <1>2, <4>1, <4>3
        <5> QED
          BY <3>5, <5>1
      <4>4. Len(Resp.text) <= 2
        BY <1>1, <1>2, <2>6, <4>1
      <4> QED
        BY <4>2, <4>3, <4>4
    <3>7. /\ Resp.text \in Seq(Char) /\ Len(Resp.text) <= 2
          /\ Len(Resp.text) >= 1 => Resp.text[1] = <<"response", n>>
          /\ Len(Resp.text) >= 2 => Resp.text[2] = <<"end", n>>
      BY <2>3, <3>5, <3>6
    <3>8. IsPrefix(Resp.text, Response(n))
      BY <3>7, Beginning DEF Response
    <3> QED
      BY <2>5, <3>4, <3>8 DEF p
  <2>7. CASE p + 6 <= last
    <3>1. timed /\ last < p + 8
      BY <1>1, <1>2, <2>7
    <3>2. /\ p + 4 <= Len(file) /\ p + 5 <= Len(file) /\ p + 6 <= Len(file)
          /\ 3 \in Nat \ {0} /\ p + 3 \in Nat /\ p + 3 + 3 <= Len(file) /\ p + 3 + 3 = p + 6 /\ p + 6 \in Nat
      BY <1>1, <1>2, <2>7
    <3>3. \A i \in p + 3 + 1 .. p + 3 + 3 - 1 : i = p + 4 \/ i = p + 5
      BY <1>2
    <3>4. file[p + 3 + 3] = MESSAGE_END
      BY <1>3, <3>2 DEF RecordAt, Holds
    <3>5. \A i \in p + 3 + 1 .. p + 3 + 3 - 1 : file[i] # MESSAGE_END
      BY <2>4, <3>2, <3>3
    <3>6. Resp = [text |-> SubSeq(file, p + 3 + 1, p + 3 + 3 - 1), s |-> At(p + 3 + 3)]
      BY <1>1, <2>2, <3>2, <3>4, <3>5, FieldRead
    <3>7. Tim.s.eof
      <4>1. \A i \in p + 6 + 1 .. last : i = p + 7 /\ i <= Len(file)
        BY <1>1, <1>2, <3>1
      <4>2. p + 7 <= Len(file) => file[p + 7] = <<"time", n>>
        BY <1>3, <3>1 DEF RecordAt, Holds
      <4>3. \A i \in p + 6 + 1 .. last : file[i] # MESSAGE_END
        <5>1. p + 7 <= Len(file) => file[p + 7] # MESSAGE_END
          BY <4>2, NotTheEnd
        <5> QED
          BY <4>1, <5>1
      <4>4. Tim = Getline(At(p + 6), <<>>)
        BY <3>1, <3>2, <3>6 DEF Tim
      <4> QED
        BY <1>1, <3>2, <4>3, <4>4, FieldCut
    <3>8. Resp.text = <<file[p + 4], file[p + 5]>>
      <4>1. /\ p + 4 \in Nat \ {0} /\ p + 4 + 1 <= Len(file) /\ p + 3 + 3 - 1 = p + 4 + 1
            /\ p + 3 + 1 = p + 4 /\ p + 4 + 1 = p + 5
        BY <1>1, <1>2, <3>2
      <4>2. SubSeq(file, p + 4, p + 4 + 1) = <<file[p + 4], file[p + 4 + 1]>>
        BY <1>1, <4>1, TwoCharacters
      <4>3. Resp.text = SubSeq(file, p + 4, p + 4 + 1)
        BY <3>6, <4>1
      <4> QED
        BY <4>1, <4>2, <4>3
    <3>9. Resp.text = Response(n)
      BY <2>3, <3>2, <3>8 DEF Response
    <3> QED
      BY <2>5, <3>7, <3>9 DEF IsPrefix, p
  <2> QED
    BY <1>1, <1>2, <2>6, <2>7
<1> QED
  BY <1>1, <1>2, <1>5, <1>6, <1>7

-----------------------------------------------------------------------------
(* What a replay has returned *)

LEMMA FirstSessionType ==
  ASSUME Types
  PROVE  /\ FirstSession \in SUBSET (1 .. Len(issued)) /\ Len(issued) \in Nat
         /\ Cardinality(FirstSession) \in Nat
         /\ \A n : n \in FirstSession <=> Whole(n) /\ issued[n].command = ScanCommand
<1>1. \A n : n \in FirstSession <=> Whole(n) /\ issued[n].command = ScanCommand
  BY DEF FirstSession, Scans, Whole
<1> QED
  BY <1>1, ScansType DEF FirstSession

LEMMA SingleSession ==
  ASSUME Types, sessions = 1, issued # <<>>
  PROVE  Scans({1}) = FirstSession
<1>1. issued[1].session = 1
  BY StateFacts
<1> QED
  BY <1>1 DEF FirstSession

\* Nothing is replayed before a replay begins.
LEMMA NothingReplayed ==
  ASSUME NEW texts, texts = <<>>, NEW N \in Nat, NEW S \in SUBSET (1 .. N)
  PROVE  (\A n : n \notin DOMAIN texts) /\ \A i : i \notin Cardinality(S) + 1 .. Len(texts)
<1>1. DOMAIN texts = {} /\ Len(texts) = 0
  OBVIOUS
<1>2. Cardinality(S) \in Nat
  <2>1. 0 \in Nat
    OBVIOUS
  <2> QED
    BY <2>1, PlaceType
<1>3. \A i : i \notin Cardinality(S) + 1 .. 0
  BY <1>2
<1> QED
  BY <1>1, <1>3

LEMMA ReplayedEmpty ==
  ASSUME Types', replayed' = <<>>,
         \/ pc' \notin {"replaying", "reading"} /\ stream' = Fresh
         \/ pc' = "replaying" /\ stream' = Fresh /\ metadataRead' = FALSE
  PROVE  Replayed'
<1>1. /\ Len(issued') \in Nat /\ DOMAIN issued' = 1 .. Len(issued')
      /\ Scans({1})' \in SUBSET (1 .. Len(issued')) /\ FirstSession' \in SUBSET (1 .. Len(issued'))
  <2>1. issued' \in Seq(Calls(sessions)')
    BY DEF Types
  <2>2. Len(issued') \in Nat /\ DOMAIN issued' = 1 .. Len(issued')
    BY <2>1
  <2> QED
    BY <2>2 DEF Scans, FirstSession
<1>2. /\ \A n : n \notin DOMAIN replayed'
      /\ \A i : i \notin Cardinality(Scans({1})') + 1 .. Len(replayed')
  BY <1>1, NothingReplayed
<1>3. /\ \A n \in FirstSession' : Place(n, FirstSession') \in DOMAIN replayed' =>
           replayed'[Place(n, FirstSession')] = Response(n)
      /\ OnlyTheCutRecord'
  BY <1>2 DEF OnlyTheCutRecord
<1>4. pc' \notin {"replaying", "reading"} => replayed' = <<>> /\ stream' = Fresh
  OBVIOUS
<1>5. pc' \in {"replaying", "reading"} => \E r \in 0 .. Len(issued') : Reached(r)'
  <2>1. SUFFICES ASSUME stream' = Fresh, metadataRead' = FALSE PROVE Reached(0)'
    <3>1. 0 \in 0 .. Len(issued')
      BY <1>1
    <3> QED
      BY <3>1
  <2>2. Len(replayed') = 0 /\ Place(0, FirstSession') = 0
    BY <1>1, PlaceOfNone
  <2> QED
    BY <2>1, <2>2 DEF Reached, Fresh
<1> QED
  BY <1>3, <1>4, <1>5 DEF Replayed, Place

\* A text that is returned goes behind those that were.
LEMMA Returned ==
  ASSUME Types, Replayed, Read,
         Matches(Cmd.text) \/ Tim.s.fail =>
           /\ \A n \in FirstSession : Place(n, FirstSession) = Len(replayed) + 1 => Resp.text = Response(n)
           /\ sessions = 1 /\ Cardinality(Scans({1})) <= Len(replayed) /\ Resp.text # <<>> =>
                /\ Len(replayed) = Cardinality(Scans({1}))
                /\ \E n \in DOMAIN issued : recordEnd[n] = 0 /\ IsPrefix(Resp.text, Response(n))
  PROVE  /\ \A n \in FirstSession : Place(n, FirstSession) \in DOMAIN replayed' =>
              replayed'[Place(n, FirstSession)] = Response(n)
         /\ OnlyTheCutRecord'
<1>1. /\ UNCHANGED <<timed, sessions, issued, recordEnd>>
      /\ IF Matches(Cmd.text) \/ Tim.s.fail
         THEN pc' = "replaying" /\ replayed' = Append(replayed, Resp.text)
         ELSE pc' = pc /\ replayed' = replayed
  BY ReadStep DEF recorder
<1>2. Scans({1})' = Scans({1})
  BY <1>1 DEF Scans
<1>3. /\ \A n \in FirstSession : Place(n, FirstSession) \in DOMAIN replayed =>
           replayed[Place(n, FirstSession)] = Response(n)
      /\ OnlyTheCutRecord
  BY DEF Replayed
<1>4. CASE ~(Matches(Cmd.text) \/ Tim.s.fail)
  BY <1>1, <1>2, <1>3, <1>4 DEF OnlyTheCutRecord
<1>5. CASE Matches(Cmd.text) \/ Tim.s.fail
  <2>1. /\ replayed' = Append(replayed, Resp.text) /\ Resp.text \in Seq(Char)
        /\ replayed \in Seq(Seq(Char))
    BY <1>1, <1>5, ReadTypes DEF Types
  <2>2. /\ Len(replayed) \in Nat /\ DOMAIN replayed = 1 .. Len(replayed)
        /\ Len(replayed') = Len(replayed) + 1 /\ DOMAIN replayed' = 1 .. Len(replayed) + 1
        /\ replayed'[Len(replayed) + 1] = Resp.text
        /\ \A i \in 1 .. Len(replayed) : replayed'[i] = replayed[i]
    BY <2>1, AppendProperties
  <2>3. \A i \in DOMAIN replayed' : i \in DOMAIN replayed \/ i = Len(replayed) + 1
    BY <2>2
  <2>4. \A n \in FirstSession : Place(n, FirstSession) \in DOMAIN replayed' =>
          replayed'[Place(n, FirstSession)] = Response(n)
    BY <1>3, <1>5, <2>2, <2>3
  <2>5. ASSUME sessions = 1, NEW i \in Cardinality(Scans({1})) + 1 .. Len(replayed'), replayed'[i] # <<>>
        PROVE  /\ i = Cardinality(Scans({1})) + 1
               /\ \E n \in DOMAIN issued : recordEnd[n] = 0 /\ IsPrefix(replayed'[i], Response(n))
    <3>1. Cardinality(Scans({1})) \in Nat
      BY ScansType
    <3>2. CASE i = Len(replayed) + 1
      <4>1. Cardinality(Scans({1})) <= Len(replayed) /\ Resp.text # <<>> /\ replayed'[i] = Resp.text
        BY <2>2, <2>5, <3>1, <3>2
      <4>2. /\ Len(replayed) = Cardinality(Scans({1}))
            /\ \E n \in DOMAIN issued : recordEnd[n] = 0 /\ IsPrefix(Resp.text, Response(n))
        BY <1>5, <2>5, <4>1
      <4> QED
        BY <3>2, <4>1, <4>2
    <3>3. CASE i # Len(replayed) + 1
      <4>1. i \in Cardinality(Scans({1})) + 1 .. Len(replayed) /\ i \in 1 .. Len(replayed)
        BY <2>2, <2>5, <3>1, <3>3
      <4>2. replayed[i] # <<>> /\ replayed'[i] = replayed[i]
        BY <2>2, <2>5, <4>1
      <4> QED
        BY <1>3, <2>5, <4>1, <4>2 DEF OnlyTheCutRecord
    <3> QED
      BY <3>2, <3>3
  <2>6. OnlyTheCutRecord'
    BY <1>1, <1>2, <2>5 DEF OnlyTheCutRecord
  <2> QED
    BY <2>4, <2>6
<1> QED
  BY <1>4, <1>5

\* The next record is whole: a scan is returned, any other record is passed over.
LEMMA ReplayedWhole ==
  ASSUME Types, Written, Replayed, Read, NEW r \in 0 .. Len(issued), Reached(r), Whole(r + 1)
  PROVE  Replayed'
<1> DEFINE n == r + 1  F == FirstSession
<1>1. /\ r \in Nat /\ Len(issued) \in Nat /\ F \in SUBSET (1 .. Len(issued)) /\ Cardinality(F) \in Nat
      /\ \A k : k \in F <=> Whole(k) /\ issued[k].command = ScanCommand
  BY FirstSessionType
<1>2. /\ n \in DOMAIN issued /\ recordEnd[n] = End(timed, n) /\ End(timed, n) <= Len(file)
      /\ MetadataAt(file) /\ RecordAt(file, timed, End(timed, n - 1), n)
  BY DEF Written, Whole
<1>3. n - 1 = r /\ n \in Nat /\ n # 0 /\ n \in 0 .. Len(issued)
  <2>1. DOMAIN issued = 1 .. Len(issued)
    BY StateFacts
  <2> QED
    BY <1>1, <1>2, <2>1
<1>4. RecordAt(file, timed, End(timed, r), n)
  BY <1>2, <1>3
<1> HIDE DEF n
<1>5. n = r + 1
  BY DEF n
<1>6. /\ Cmd.text # <<>> /\ Cmd.text[1] = <<"command", n>>
      /\ Resp.text = Response(n) /\ Tim.s = At(End(timed, n))
  BY <1>1, <1>2, <1>4, <1>5, WholeRead
<1>7. Whole(n)
  BY <1>5
<1>8. /\ pc = "reading" /\ metadataRead' = TRUE
      /\ UNCHANGED <<timed, file, sessions, durable, issued, recordEnd, metadataWritten>>
      /\ stream' = At(End(timed, n))
      /\ IF Matches(Cmd.text) \/ Tim.s.fail
         THEN pc' = "replaying" /\ replayed' = Append(replayed, Resp.text)
         ELSE pc' = pc /\ replayed' = replayed
  BY <1>6, ReadStep DEF recorder
<1>9. (Matches(Cmd.text) \/ Tim.s.fail) <=> n \in F
  <2>1. Cmd.text[1][1] = "command" /\ Cmd.text[1][2] = n
    BY <1>6
  <2>2. ~Tim.s.fail
    BY <1>6 DEF At
  <2> QED
    BY <1>1, <1>6, <1>7, <2>1, <2>2 DEF Matches
<1>10. Len(replayed) = Place(r, F) /\ Place(n, F) = Place(r, F) + IF n \in F THEN 1 ELSE 0
  BY <1>1, <1>5, NextPlace DEF Reached
<1>11. F' = F /\ \A k : Whole(k)' = Whole(k)
  BY <1>8 DEF FirstSession, Scans, Whole
<1> HIDE DEF F
<1>12. Place(r, F) \in Nat /\ Place(n, F) \in 0 .. Cardinality(F)
  <2>1. Place(r, F) \in 0 .. Cardinality(F) /\ Place(n, F) \in 0 .. Cardinality(F)
    BY <1>1, <1>3, PlaceType
  <2> QED
    BY <2>1
<1>13. Len(replayed') = Place(n, F)
  <2>1. replayed \in Seq(Seq(Char)) /\ Resp.text \in Seq(Char)
    BY ReadTypes DEF Types
  <2>2. Len(Append(replayed, Resp.text)) = Len(replayed) + 1
    BY <2>1, AppendProperties
  <2>3. CASE n \in F
    BY <1>8, <1>9, <1>10, <2>2, <2>3
  <2>4. CASE n \notin F
    BY <1>8, <1>9, <1>10, <1>12, <2>4
  <2> QED
    BY <2>3, <2>4
<1>14. Reached(n)'
  <2>1. /\ stream'.read = End(timed, n) /\ ~stream'.eof /\ ~stream'.fail
    BY <1>8 DEF At
  <2> QED
    BY <1>3, <1>7, <1>8, <1>11, <1>13, <2>1 DEF Reached, F
<1>15. \A k \in F : Place(k, F) = Len(replayed) + 1 /\ n \in F => k = n
  <2>1. SUFFICES ASSUME NEW k \in F, Place(k, F) = Place(n, F), n \in F PROVE k = n
    BY <1>10, <1>12
  <2>2. k \in Nat
    BY <1>1
  <2>3. ~(k < n)
    <3>1. k < n => Place(k, F) < Place(n, F)
      BY <1>1, <2>1, <2>2, PlaceGrows
    <3> QED
      BY <1>12, <2>1, <3>1
  <2>4. ~(n < k)
    <3>1. n < k => Place(n, F) < Place(k, F)
      BY <1>1, <1>3, PlaceGrows
    <3> QED
      BY <1>12, <2>1, <3>1
  <2> QED
    BY <1>3, <2>2, <2>3, <2>4
<1>16. sessions = 1 /\ n \in F => ~(Cardinality(Scans({1})) <= Len(replayed))
  <2>1. SUFFICES ASSUME sessions = 1, n \in F PROVE ~(Cardinality(F) <= Len(replayed))
    <3>1. issued # <<>>
      BY <1>2
    <3> QED
      BY <2>1, <3>1, SingleSession DEF F
  <2>2. Place(n, F) = Len(replayed) + 1
    BY <1>10, <1>12, <2>1
  <2> QED
    BY <1>1, <1>10, <1>12, <2>2
<1>17. /\ \A k \in F : Place(k, F) \in DOMAIN replayed' => replayed'[Place(k, F)] = Response(k)
       /\ OnlyTheCutRecord'
  BY <1>6, <1>9, <1>15, <1>16, Returned DEF F
<1>18. pc' \in {"replaying", "reading"}
  BY <1>8
<1>19. \E k \in 0 .. Len(issued') : Reached(k)'
  BY <1>3, <1>8, <1>14
<1> QED
  BY <1>11, <1>17, <1>18, <1>19 DEF Replayed, F

\* The next record is not whole, or there is none: the scans were all returned.
LEMMA ReplayedBehind ==
  ASSUME Types, Written, OneSession, Replayed, Read,
         Cardinality(FirstSession) <= Len(replayed),
         sessions = 1 => Tim.s.eof \/ Tim.s.fail,
         sessions = 1 /\ Resp.text # <<>> =>
           /\ Len(replayed) = Cardinality(FirstSession)
           /\ \E n \in DOMAIN issued : recordEnd[n] = 0 /\ IsPrefix(Resp.text, Response(n))
  PROVE  Replayed'
<1> DEFINE F == FirstSession
<1>1. /\ Len(issued) \in Nat /\ F \in SUBSET (1 .. Len(issued)) /\ Cardinality(F) \in Nat
  BY FirstSessionType
<1>2. /\ pc = "reading" /\ metadataRead' = TRUE
      /\ UNCHANGED <<timed, file, sessions, durable, issued, recordEnd, metadataWritten>>
      /\ stream' = Tim.s
      /\ IF Matches(Cmd.text) \/ Tim.s.fail
         THEN pc' = "replaying" /\ replayed' = Append(replayed, Resp.text)
         ELSE pc' = pc /\ replayed' = replayed
  BY ReadStep DEF recorder
<1>3. F' = F
  BY <1>2 DEF FirstSession, Scans
<1>4. Len(replayed) \in Nat /\ Len(Append(replayed, Resp.text)) = Len(replayed) + 1
  <2>1. replayed \in Seq(Seq(Char)) /\ Resp.text \in Seq(Char)
    BY ReadTypes DEF Types
  <2> QED
    BY <2>1, AppendProperties
<1>5. Cardinality(F) <= Len(replayed) /\ Cardinality(F) < Len(replayed) + 1
  BY <1>1, <1>4
<1>6. /\ Cardinality(F) <= Len(replayed')
      /\ pc' = "replaying" => Cardinality(F) < Len(replayed')
      /\ pc' \in {"replaying", "reading"}
  <2>1. CASE Matches(Cmd.text) \/ Tim.s.fail
    BY <1>1, <1>2, <1>4, <1>5, <2>1
  <2>2. CASE ~(Matches(Cmd.text) \/ Tim.s.fail)
    BY <1>2, <1>5, <2>2
  <2> QED
    BY <2>1, <2>2
<1>7. Beyond'
  BY <1>2, <1>3, <1>6 DEF Beyond
<1>8. \A n \in F : Place(n, F) # Len(replayed) + 1
  <2>1. SUFFICES ASSUME NEW n \in F PROVE Place(n, F) <= Cardinality(F) /\ Place(n, F) \in Nat
    BY <1>1, <1>4, <1>5
  <2>2. n \in Nat
    BY <1>1
  <2>3. Place(n, F) \in 0 .. Cardinality(F)
    BY <1>1, <2>2, PlaceType
  <2> QED
    BY <1>1, <2>3
<1>9. sessions = 1 /\ Resp.text # <<>> =>
        /\ Len(replayed) = Cardinality(Scans({1}))
        /\ \E n \in DOMAIN issued : recordEnd[n] = 0 /\ IsPrefix(Resp.text, Response(n))
  <2>1. SUFFICES ASSUME sessions = 1, Resp.text # <<>> PROVE Scans({1}) = FirstSession
    OBVIOUS
  <2>2. issued # <<>>
    <3>1. \E n \in DOMAIN issued : recordEnd[n] = 0
      BY <2>1
    <3> QED
      BY <3>1, StateFacts
  <2> QED
    BY <2>1, <2>2, SingleSession
<1>10. /\ \A n \in F : Place(n, F) \in DOMAIN replayed' => replayed'[Place(n, F)] = Response(n)
       /\ OnlyTheCutRecord'
  BY <1>8, <1>9, Returned
<1> HIDE DEF F
<1> QED
  BY <1>3, <1>6, <1>7, <1>10 DEF Replayed, F

LEMMA ReplayedRead ==
  ASSUME Types, Written, OneSession, Replayed, Read
  PROVE  Replayed'
<1> DEFINE F == FirstSession
<1>1. pc = "reading"
  BY ReadStep
<1>2. /\ Len(issued) \in Nat /\ DOMAIN issued = 1 .. Len(issued) /\ timed \in BOOLEAN /\ Len(file) \in Nat
      /\ \A n \in 1 .. Len(issued) : issued[n].session \in 1 .. sessions /\ recordEnd[n] \in Nat
      /\ (issued = <<>> <=> Len(issued) = 0) /\ (file = <<>> <=> Len(file) = 0)
  BY StateFacts
<1>3. CASE Beyond
  <2>1. Cardinality(F) <= Len(replayed) /\ (sessions = 1 => metadataRead /\ (stream.eof \/ stream.fail))
    BY <1>3 DEF Beyond
  <2>2. sessions = 1 => Resp.text = <<>> /\ Tim.s.fail
    <3>1. SUFFICES ASSUME sessions = 1 PROVE Cmd.s.fail
      BY ClosedRest
    <3>2. Meta.s = stream /\ stream \in Stream
      BY <2>1, <3>1 DEF Meta, Types
    <3> QED
      BY <2>1, <3>1, <3>2, FieldClosed DEF Cmd
  <2> QED
    BY <2>1, <2>2, ReplayedBehind
<1>4. ASSUME NEW r \in 0 .. Len(issued), Reached(r), ~Whole(r + 1) PROVE Replayed'
  <2>1. r \in Nat /\ r + 1 \in Nat
    BY <1>2
  <2>2. /\ F \in SUBSET (1 .. Len(issued)) /\ Cardinality(F) \in Nat
        /\ \A n : n \in F => Whole(n)
    BY FirstSessionType
  <2>3. \A n \in F : n <= r
    <3>1. SUFFICES ASSUME NEW n \in F, r + 1 <= n PROVE FALSE
      <4>1. \A n \in F : n \in Nat
        BY <1>2, <2>2
      <4> QED
        BY <2>1, <4>1, <3>1
    <3>2. n \in DOMAIN issued /\ Whole(n) /\ n \in Nat
      BY <1>2, <2>2
    <3>3. \A k \in 1 .. n : Whole(k)
      BY <3>2 DEF Written
    <3>4. r + 1 \in 1 .. n
      BY <2>1, <3>1, <3>2
    <3> QED
      BY <1>4, <3>3, <3>4
  <2>4. Len(replayed) = Cardinality(F)
    BY <1>2, <1>4, <2>1, <2>2, <2>3, PlaceType DEF Reached
  <2>5. sessions = 1 =>
          /\ Tim.s.eof \/ Tim.s.fail
          /\ Resp.text # <<>> => \E n \in DOMAIN issued : recordEnd[n] = 0 /\ IsPrefix(Resp.text, Response(n))
    <3>1. SUFFICES ASSUME sessions = 1
                   PROVE  /\ Tim.s.eof \/ Tim.s.fail
                          /\ Resp.text # <<>> =>
                               \E n \in DOMAIN issued : recordEnd[n] = 0 /\ IsPrefix(Resp.text, Response(n))
      OBVIOUS
    <3>2. /\ MetadataAt(file) /\ Len(file) <= End(timed, Len(issued))
          /\ \A n \in DOMAIN issued : /\ RecordAt(file, timed, End(timed, n - 1), n)
                                      /\ recordEnd[n] = 0 => Len(file) < End(timed, n)
      BY <3>1 DEF OneSession
    <3>3. r # 0 => End(timed, r) <= Len(file)
      BY <1>4 DEF Reached, Written, Whole
    <3>4. /\ End(timed, r) \in Nat /\ End(timed, r + 1) \in Nat /\ End(timed, r) < End(timed, r + 1)
      <4>1. CASE timed
        BY <2>1, <4>1 DEF End
      <4>2. CASE ~timed
        BY <2>1, <4>2 DEF End
      <4> QED
        BY <4>1, <4>2
    <3>5. CASE r + 1 \in DOMAIN issued
      <4>1. (r + 1) - 1 = r
        BY <2>1
      <4>2. recordEnd[r + 1] = 0
        <5>1. 1 \in DOMAIN issued
          BY <1>2, <3>5
        <5>2. issued[r + 1].session = 1 /\ issued[1].session = 1
          BY <1>2, <3>1, <3>5, <5>1
        <5> QED
          BY <1>2, <1>4, <3>5, <5>2 DEF Whole
      <4>3. RecordAt(file, timed, End(timed, r), r + 1) /\ Len(file) < End(timed, r + 1)
        BY <3>2, <3>5, <4>1, <4>2
      <4>4. /\ Tim.s.eof \/ Tim.s.fail
            /\ Resp.text = <<>> \/ (End(timed, r) < Len(file) /\ IsPrefix(Resp.text, Response(r + 1)))
        BY <1>4, <2>1, <3>2, <3>3, <4>3, CutRead
      <4> QED
        BY <3>5, <4>2, <4>4
    <3>6. CASE r + 1 \notin DOMAIN issued
      <4>1. r = Len(issued)
        <5>1. r + 1 \notin 1 .. Len(issued) /\ Len(issued) \in Nat
          BY <1>2, <3>6
        <5>2. \A l \in Nat : r \in 0 .. l /\ r + 1 \notin 1 .. l => r = l
          OBVIOUS
        <5> QED
          BY <5>1, <5>2, Zenon
      <4>2. Len(file) <= End(timed, r) /\ Len(file) < End(timed, r + 1)
        BY <1>2, <3>2, <3>4, <4>1
      <4>3. RecordAt(file, timed, End(timed, r), r + 1)
        <5> DEFINE p == End(timed, r)
        <5>1. p \in Nat /\ Len(file) <= p
          BY <3>4, <4>2
        <5> HIDE DEF p
        <5>2. \A k \in {1, 2, 3, 4, 5, 6, 7, 8} : ~(p + k <= Len(file))
          BY <1>2, <5>1
        <5>3. RecordAt(file, timed, p, r + 1)
          BY <5>2 DEF RecordAt, Holds
        <5> QED
          BY <5>3 DEF p
      <4>4. /\ Tim.s.eof \/ Tim.s.fail
            /\ Resp.text = <<>> \/ (End(timed, r) < Len(file) /\ IsPrefix(Resp.text, Response(r + 1)))
        BY <1>4, <2>1, <3>2, <3>3, <4>2, <4>3, CutRead
      <4>5. ~(End(timed, r) < Len(file))
        BY <1>2, <3>4, <4>2
      <4> QED
        BY <4>4, <4>5
    <3> QED
      BY <3>5, <3>6
  <2>6. Cardinality(F) <= Len(replayed)
    BY <2>2, <2>4
  <2> QED
    BY <2>4, <2>5, <2>6, ReplayedBehind
<1>5. ASSUME NEW r \in 0 .. Len(issued), Reached(r), Whole(r + 1) PROVE Replayed'
  BY <1>5, ReplayedWhole
<1> QED
  BY <1>1, <1>3, <1>4, <1>5 DEF Replayed

LEMMA ReplayedNext ==
  ASSUME Types, Types', Written, OneSession, Replayed, [Next]_vars
  PROVE  Replayed'
<1>1. CASE Record \/ (\E c \in Command : Write(c)) \/ Close \/ \E kept \in durable .. Len(file) : Crash(kept)
  <2>1. /\ pc \in {"closed", "recording"} /\ pc' \in {"closed", "recording"}
        /\ UNCHANGED <<metadataRead, stream, logCommand, replayed>>
    BY <1>1 DEF Record, Write, Close, Crash, replay
  <2>2. replayed = <<>> /\ stream = Fresh
    BY <2>1 DEF Replayed
  <2> QED
    BY <2>1, <2>2, ReplayedEmpty
<1>2. CASE Replay \/ EndReplay
  BY <1>2, ReplayedEmpty DEF Replay, EndReplay
<1>3. CASE ReadCommand \/ UNCHANGED vars
  <2>1. /\ UNCHANGED <<timed, file, sessions, durable, issued, recordEnd, metadataWritten>>
        /\ UNCHANGED <<metadataRead, stream, replayed>>
        /\ pc' = pc \/ (pc = "replaying" /\ pc' = "reading")
    BY <1>3 DEF ReadCommand, vars, recorder, replay
  <2>2. FirstSession' = FirstSession /\ Scans({1})' = Scans({1}) /\ \A n : Whole(n)' = Whole(n)
    BY <2>1 DEF FirstSession, Scans, Whole
  <2>3. Beyond => Beyond'
    BY <2>1, <2>2 DEF Beyond
  <2>4. \A r : Reached(r) => Reached(r)'
    BY <2>1, <2>2 DEF Reached
  <2>5. OnlyTheCutRecord => OnlyTheCutRecord'
    BY <2>1, <2>2 DEF OnlyTheCutRecord
  <2> QED
    BY <2>1, <2>2, <2>3, <2>4, <2>5 DEF Replayed
<1>4. CASE Read
  BY <1>4, ReplayedRead
<1> QED
  BY <1>1, <1>2, <1>3, <1>4 DEF Next

-----------------------------------------------------------------------------
(* The theorems *)

LEMMA Invariant == Spec => []IInv
<1>1. Init => IInv
  <2> SUFFICES ASSUME Init PROVE IInv
    OBVIOUS
  <2>1. Types /\ Written /\ OneSession
    BY TypesInit, WrittenInit
  <2>2. replayed = <<>> /\ stream = Fresh /\ pc = "closed"
    BY DEF Init
  <2>3. /\ \A n : n \notin DOMAIN replayed
        /\ \A i : i \notin Cardinality(Scans({1})) + 1 .. Len(replayed)
    BY <2>1, <2>2, ScansType, NothingReplayed
  <2>4. Replayed
    BY <2>2, <2>3 DEF Replayed, OnlyTheCutRecord
  <2> QED
    BY <2>1, <2>4 DEF IInv
<1>2. IInv /\ [Next]_vars => IInv'
  <2> SUFFICES ASSUME Types, Written, OneSession, Replayed, [Next]_vars PROVE IInv'
    BY DEF IInv
  <2>1. Types'
    BY TypesNext DEF Replayed
  <2>2. Written' /\ OneSession'
    BY WrittenNext
  <2>3. Replayed'
    BY <2>1, ReplayedNext
  <2> QED
    BY <2>1, <2>2, <2>3 DEF IInv
<1> QED
  BY <1>1, <1>2, PTL DEF Spec

\* The file, the log objects and the replay keep their types through sessions, crashes
\* and replays: in particular a replay never reads behind the end of the file, nor has
\* a crash kept less than what earlier sessions had written (log.hpp:108-126).
THEOREM TypeCorrect == Spec => []TypeOK
<1>1. IInv => TypeOK
  <2> SUFFICES ASSUME Types PROVE TypeOK
    BY DEF IInv
  <2>1. issued \in Seq(Calls(sessions)) /\ replayed \in Seq(Seq(Char)) /\ stream \in Stream
    BY DEF Types
  <2>2. \A n \in DOMAIN issued : issued[n] \in Calls(sessions)
    BY <2>1
  <2>3. \A n \in DOMAIN issued : issued[n].session \in 1 .. sessions /\ issued[n].command \in Command
    BY <2>2 DEF Calls
  <2>4. \A i \in DOMAIN replayed : replayed[i] \in Seq(Char)
    BY <2>1
  <2>5. stream.eof \in BOOLEAN /\ stream.fail \in BOOLEAN /\ stream.read \in 0 .. Len(file)
    BY <2>1 DEF Stream
  <2> QED
    BY <2>3, <2>4, <2>5 DEF TypeOK, Types
<1> QED
  BY <1>1, Invariant, PTL

\* For any number of sessions, calls and crashes, a replay hands out every scan of the
\* first session that is whole in the file, each once, in order and unchanged, and does
\* not end before (readCommand, log.cpp:90-100).
THEOREM ReplaysFirstSession == Spec => []FirstSessionReplayed
<1>1. IInv => FirstSessionReplayed
  <2> SUFFICES ASSUME Types, Replayed PROVE FirstSessionReplayed
    BY DEF IInv
  <2>1. \A n \in FirstSession : Place(n, FirstSession) \in DOMAIN replayed =>
          replayed[Place(n, FirstSession)] = Response(n)
    BY DEF Replayed
  <2>2. ASSUME pc = "replaying", Len(replayed) <= Cardinality(FirstSession) PROVE ~stream.fail
    <3>1. Cardinality(FirstSession) \in Nat /\ Len(replayed) \in Nat
      <4>1. replayed \in Seq(Seq(Char))
        BY DEF Types
      <4> QED
        BY <4>1, FirstSessionType
    <3>2. ~Beyond
      BY <2>2, <3>1 DEF Beyond
    <3> QED
      BY <2>2, <3>2 DEF Replayed, Reached
  <2> QED
    BY <2>1, <2>2 DEF FirstSessionReplayed
<1> QED
  BY <1>1, Invariant, PTL

\* Of a file of one session a replay returns, beyond its whole scans, only what is left
\* of the response that a crash has cut, at most once (log.cpp:115-116).
THEOREM ReplaysNothingElse == Spec => []OnlyTheCutRecord
<1>1. IInv => OnlyTheCutRecord
  BY DEF IInv, Replayed
<1> QED
  BY <1>1, Invariant, PTL
-----------------------------------------------------------------------------
(* How long a call of readCommand can take *)

\* What is left of the stream s: its characters and its end.
Rest(s) == (Len(file) - s.read) + (IF s.eof THEN 0 ELSE 1)
EveryReadCounts == [][Read => pc' = "replaying" \/ Rest(stream)' < Rest(stream)]_vars

LEMMA RestType == ASSUME Types, NEW s \in Stream PROVE Rest(s) \in Nat
<1>1. Len(file) \in Nat /\ s.read \in 0 .. Len(file) /\ s.eof \in BOOLEAN
  BY DEF Types, Stream
<1> QED
  BY <1>1 DEF Rest

\* A getline goes on in the stream or, at its end, fails; once it has failed so do the
\* ones after it.
LEMMA GetlineCounts ==
  ASSUME Types, NEW s \in Stream, NEW old \in Seq(Char)
  PROVE  /\ Getline(s, old).s.fail \/ Rest(Getline(s, old).s) < Rest(s)
         /\ s.fail => Getline(s, old).s.fail
<1> DEFINE ends == {i \in s.read + 1 .. Len(file) : file[i] = MESSAGE_END}
<1>1. Len(file) \in Nat /\ s.read \in 0 .. Len(file) /\ s.eof \in BOOLEAN /\ s.fail \in BOOLEAN
  BY DEF Types, Stream
<1>2. CASE s.eof \/ s.fail
  <2>1. Getline(s, old) = [text |-> old, s |-> [s EXCEPT !.fail = TRUE]]
    BY <1>2, GetlineClosed
  <2>2. Getline(s, old).s.fail
    BY <2>1 DEF Stream
  <2> QED
    BY <2>2
<1>3. CASE ~(s.eof \/ s.fail) /\ ends # {}
  <2>1. ends \in SUBSET Nat
    BY <1>1
  <2>2. PICK e \in ends : \A i \in ends : e <= i
    BY <1>3, <2>1, LeastElement
  <2>3. e \in s.read + 1 .. Len(file) /\ file[e] = MESSAGE_END
        /\ \A i \in s.read + 1 .. e - 1 : file[i] # MESSAGE_END
    BY <1>1, <2>2
  <2>4. Getline(s, old).s = [s EXCEPT !.read = e]
    BY <1>1, <1>3, <2>3, GetlineField
  <2>5. Getline(s, old).s.read = e /\ Getline(s, old).s.eof = s.eof
    BY <2>4 DEF Stream
  <2> QED
    BY <1>1, <1>3, <2>3, <2>5 DEF Rest
<1>4. CASE ~(s.eof \/ s.fail) /\ ends = {}
  <2>1. Getline(s, old) = [text |-> SubSeq(file, s.read + 1, Len(file)),
                           s |-> [read |-> Len(file), eof |-> TRUE, fail |-> s.read = Len(file)]]
    BY <1>4, GetlineOpen
  <2>2. Getline(s, old).s.read = Len(file) /\ Getline(s, old).s.eof
    BY <2>1
  <2> QED
    BY <1>1, <1>4, <2>2 DEF Rest
<1> QED
  BY <1>2, <1>3, <1>4

\* readCommand ends on every file of any sessions and crashes, after at most as many
\* iterations as the rest of the file has characters and two: an iteration that does
\* not return has read on, and only the end of the file stops it (log.cpp:90-100).
THEOREM ReadsInTime == Spec => [](Rest(stream) \in Nat) /\ EveryReadCounts
<1>1. Types => Rest(stream) \in Nat
  BY RestType DEF Types
<1>2. Types /\ [Next]_vars => [Read => pc' = "replaying" \/ Rest(stream)' < Rest(stream)]_vars
  <2> SUFFICES ASSUME Types, Read, ~Tim.s.fail PROVE Rest(stream)' < Rest(stream)
    BY ReadStep
  <2>1. <<>> \in Seq(Char) /\ logCommand \in Seq(Char) /\ stream \in Stream
    BY DEF Types
  <2>2. Meta.s \in Stream /\ Cmd.s \in Stream /\ Resp.s \in Stream /\ Tim.s \in Stream
    BY ReadTypes
  <2>3. /\ Tim.s.fail \/ Rest(Tim.s) <= Rest(Resp.s)
        /\ Resp.s.fail => Tim.s.fail
    <3>1. CASE timed
      <4>1. /\ Getline(Resp.s, <<>>).s.fail \/ Rest(Getline(Resp.s, <<>>).s) < Rest(Resp.s)
            /\ Resp.s.fail => Getline(Resp.s, <<>>).s.fail
        BY <2>1, <2>2, GetlineCounts
      <4>2. Tim = Getline(Resp.s, <<>>)
        BY <3>1 DEF Tim
      <4>3. Rest(Tim.s) \in Nat /\ Rest(Resp.s) \in Nat
        BY <2>2, RestType
      <4> QED
        BY <4>1, <4>2, <4>3
    <3>2. CASE ~timed
      BY <2>2, <3>2, RestType DEF Tim
    <3> QED
      BY <3>1, <3>2
  <2>4. /\ Resp.s.fail \/ Rest(Resp.s) < Rest(Cmd.s)
        /\ Cmd.s.fail => Resp.s.fail
    BY <2>1, <2>2, GetlineCounts DEF Resp
  <2>5. /\ Cmd.s.fail \/ Rest(Cmd.s) < Rest(Meta.s)
        /\ Meta.s.fail => Cmd.s.fail
    BY <2>1, <2>2, GetlineCounts DEF Cmd
  <2>6. Meta.s.fail \/ Rest(Meta.s) <= Rest(stream)
    <3>1. CASE metadataRead
      BY <2>1, <3>1, RestType DEF Meta
    <3>2. CASE ~metadataRead
      <4>1. Getline(stream, <<>>).s.fail \/ Rest(Getline(stream, <<>>).s) < Rest(stream)
        BY <2>1, GetlineCounts
      <4>2. Meta = Getline(stream, <<>>)
        BY <3>2 DEF Meta
      <4>3. Rest(Meta.s) \in Nat /\ Rest(stream) \in Nat
        BY <2>1, <2>2, RestType
      <4> QED
        BY <4>1, <4>2, <4>3
    <3> QED
      BY <3>1, <3>2
  <2>7. Rest(Tim.s) < Rest(stream)
    BY <2>1, <2>2, <2>3, <2>4, <2>5, <2>6, RestType
  <2>8. Rest(stream)' = Rest(Tim.s)
    BY ReadStep DEF Rest, recorder
  <2> QED
    BY <2>7, <2>8
<1>3. IInv => Types
  BY DEF IInv
<1> QED
  BY <1>1, <1>2, <1>3, Invariant, PTL DEF Spec, EveryReadCounts
=============================================================================
