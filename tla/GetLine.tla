------------------------------ MODULE GetLine ------------------------------
(***************************************************************************)
(* regilo::getLine (src/regilo/utils.cpp:26-67), which cuts the echo and   *)
(* the answer out of what a controller has received: one call on a stream  *)
(* that holds `text', character by character.                              *)
(***************************************************************************)
EXTENDS Delimiters

CONSTANTS
  Character,
  NewLine,  \* the delimiter of std::getline(stream, line)
  Texts,    \* the texts a stream may hold
  Delims,   \* the delimiters
  OldLine   \* what `line' holds before the call

ASSUME GetLineAssumption ==
  /\ NewLine \in Character
  /\ Texts \subseteq Seq(Character)
  /\ Delims \subseteq Seq(Character)
  /\ OldLine \in Seq(Character)

VARIABLES
  pc,
  text,      \* what the stream held: never changes
  delim,     \* never changes
  rest,      \* what the stream still holds
  good,      \* neither eofbit nor failbit
  c,         \* the character got last
  delimPart,
  result,
  line

vars == <<pc, text, delim, rest, good, c, delimPart, result, line>>

Init ==
  /\ pc = "call"
  /\ text \in Texts
  /\ delim \in Delims
  /\ rest = text
  /\ good \in BOOLEAN
  /\ c = NewLine
  /\ delimPart = <<>>
  /\ result = <<>>
  /\ line = OldLine

-----------------------------------------------------------------------------
(* The delimiters that std::getline knows *)

StdDelim == IF delim = <<>> THEN <<NewLine>> ELSE delim

\* Mutant: the empty delimiter is forgotten.
StdGetlineOne ==
  /\ pc = "call"
  /\ Len(delim) = 1
  /\ pc' = "done"
  /\ good' = (good /\ Found(rest, StdDelim))
  /\ IF ~good THEN UNCHANGED <<rest, line>>
     ELSE IF Found(rest, StdDelim)
          THEN line' = Before(rest, StdDelim) /\ rest' = After(rest, StdDelim)
          ELSE line' = rest /\ rest' = <<>>
  /\ UNCHANGED <<text, delim, c, delimPart, result>>

\* A getline that reaches the end of the stream takes what is left and sets eofbit.
StdGetline ==
  /\ pc = "call"
  /\ Len(delim) <= 1
  /\ pc' = "done"
  /\ good' = (good /\ Found(rest, StdDelim))
  /\ IF ~good THEN UNCHANGED <<rest, line>>
     ELSE IF Found(rest, StdDelim)
          THEN line' = Before(rest, StdDelim) /\ rest' = After(rest, StdDelim)
          ELSE line' = rest /\ rest' = <<>>
  /\ UNCHANGED <<text, delim, c, delimPart, result>>

-----------------------------------------------------------------------------
(* Longer delimiters *)

\* The first get(c): the loop is not entered when it fails.
GetFirst ==
  /\ pc = "call"
  /\ Len(delim) > 1
  /\ IF good /\ rest # <<>>
     THEN pc' = "loop" /\ c' = Head(rest) /\ rest' = Tail(rest) /\ good' = good
     ELSE pc' = "finish" /\ good' = FALSE /\ UNCHANGED <<c, rest>>
  /\ UNCHANGED <<text, delim, delimPart, result, line>>

\* The end of the loop's body: peek() sets eofbit at the end of the stream.
PeekAndGet ==
  IF rest = <<>>
  THEN pc' = "finish" /\ good' = FALSE /\ UNCHANGED <<c, rest>>
  ELSE pc' = "loop" /\ c' = Head(rest) /\ rest' = Tail(rest) /\ good' = good

Expected == delim[Len(delimPart) + 1]

\* Mutant: a complete delimiter is not noticed.
MatchForever ==
  /\ pc = "loop"
  /\ c = Expected
  /\ delimPart' = Append(delimPart, c)
  /\ PeekAndGet
  /\ UNCHANGED <<text, delim, result, line>>

MatchOne ==
  /\ pc = "loop"
  /\ c = Expected
  /\ Len(delimPart) + 1 < Len(delim)
  /\ delimPart' = Append(delimPart, c)
  /\ PeekAndGet
  /\ UNCHANGED <<text, delim, result, line>>

\* Mutant: the stream is peeked at as after any other character.
MatchLastAndPeek ==
  /\ pc = "loop"
  /\ c = Expected
  /\ Len(delimPart) + 1 = Len(delim)
  /\ delimPart' = <<>>
  /\ pc' = "finish"
  /\ good' = (rest # <<>>)
  /\ UNCHANGED <<text, delim, rest, c, result, line>>

\* The delimiter is complete: break, with no peek.
MatchLast ==
  /\ pc = "loop"
  /\ c = Expected
  /\ Len(delimPart) + 1 = Len(delim)
  /\ delimPart' = <<>>
  /\ pc' = "finish"
  /\ UNCHANGED <<text, delim, rest, good, c, result, line>>

\* Mutant: the part of a delimiter that was read is dropped.
MismatchDrops ==
  /\ pc = "loop"
  /\ c # Expected
  /\ result' = Append(result, c)
  /\ delimPart' = <<>>
  /\ PeekAndGet
  /\ UNCHANGED <<text, delim, line>>

\* c is not looked at again as the first character of a delimiter.
Mismatch ==
  /\ pc = "loop"
  /\ c # Expected
  /\ result' = Append(result \o delimPart, c)
  /\ delimPart' = <<>>
  /\ PeekAndGet
  /\ UNCHANGED <<text, delim, line>>

\* An empty result is not stored.
Finish ==
  /\ pc = "finish"
  /\ pc' = "done"
  /\ result' = result \o delimPart
  /\ line' = IF result' # <<>> THEN result' ELSE line
  /\ UNCHANGED <<text, delim, rest, good, c, delimPart>>

-----------------------------------------------------------------------------
Next == StdGetline \/ GetFirst \/ MatchOne \/ MatchLast \/ Mismatch \/ Finish

Spec == Init /\ [][Next]_vars

FairSpec == Spec /\ WF_vars(Next)

-----------------------------------------------------------------------------
\* Types of the local variables and the stream (utils.cpp:32-35).
TypeOK ==
  /\ pc \in {"call", "loop", "finish", "done"}
  /\ text \in Seq(Character)
  /\ delim \in Seq(Character)
  /\ rest \in Seq(Character)
  /\ good \in BOOLEAN
  /\ c \in Character
  /\ delimPart \in Seq(Character)
  /\ result \in Seq(Character)
  /\ line \in Seq(Character)
  /\ pc = "loop" => Len(delimPart) < Len(delim)

\* While the loop runs every character of the text is in the result, in the part
\* of a delimiter, in c or still in the stream: neither a delimiter that breaks
\* off nor the end of the stream loses one (utils.cpp:36-62).
NothingLost ==
  /\ pc = "loop" => text = ((result \o delimPart) \o <<c>>) \o rest
  /\ (pc = "done" /\ Len(delim) > 1) =>
       text \in {result \o rest, (result \o delim) \o rest}

\* A line ends at the first delimiter, which is taken from the stream and leaves
\* it good, so that the next line can be read; with no delimiter the line is the
\* rest of the stream ("Get a line from a stream with a multi-char delimiter",
\* utils.hpp:42).  This holds for delimiters of one repeated character, which are
\* all the library uses: "ab" is missed in "aab".  An empty line is not told from
\* the old one.
ReferenceDelim == IF delim = <<>> THEN <<NewLine>> ELSE delim
SplitsAtDelimiter ==
  (pc = "done" /\ (good \/ rest # text) /\ \A i, j \in DOMAIN delim : delim[i] = delim[j]) =>
    IF Found(text, ReferenceDelim)
    THEN /\ good
         /\ rest = After(text, ReferenceDelim)
         /\ \/ line = Before(text, ReferenceDelim)
            \/ Before(text, ReferenceDelim) = <<>> /\ line = OldLine
    ELSE ~good /\ rest = <<>> /\ line = text

\* The loop ends on every text: it gets a character or leaves.
CallReturns == <>(pc = "done")
=============================================================================
