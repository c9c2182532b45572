----------------------------- MODULE Delimiters -----------------------------
(* Where a delimiter occurs in a text: what boost::asio::read_until waits   *)
(* for and what a line is.                                                  *)
EXTENDS Naturals, Sequences

\* The places in text where delim ends.
Ends(text, delim) ==
  {i \in Len(delim) .. Len(text) : SubSeq(text, i - Len(delim) + 1, i) = delim}
Found(text, delim) == Ends(text, delim) # {}
FirstEnd(text, delim) == CHOOSE i \in Ends(text, delim) : \A j \in Ends(text, delim) : i <= j

\* The text on either side of the first delimiter.
Before(text, delim) == SubSeq(text, 1, FirstEnd(text, delim) - Len(delim))
After(text, delim) == SubSeq(text, FirstEnd(text, delim) + 1, Len(text))
=============================================================================
